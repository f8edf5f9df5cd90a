---------------------------- MODULE SuspendProofs ---------------------------
(* Proofs about suspend and resume: the network and the accelerometer under the      *)
(* suspend script, for any number of starts of wlan and any values of applications.  *)
EXTENDS Suspend, TLAPS

(***************************************************************************)
(* Where the script is: it stops the network only at its first command,    *)
(* and sleeps only before it restores the settings.                        *)
(***************************************************************************)
PhaseInv ==
    /\ stop # "idle" => pc = "stop"
    /\ part = "lis" => stop = "idle"
    /\ asleep => pc = "restore"

(***************************************************************************)
(* The driver's copy follows the script.  saved is before as the file      *)
(* shows it while the script needs it; with no write of an application the *)
(* copy is before or the value for waking up, which also stays after the   *)
(* sleep if the driver has refused its own text.                           *)
(***************************************************************************)
Replaced ==
    /\ attr # "config"
    /\ \/ pc \in {"resume", "mem", "restore"}
       \/ pc \in {"idle", "stop", "start"} /\ ~Readable(Shown(before))

DataInv ==
    /\ pc \in {"set", "resume", "mem", "restore"} => saved = Shown(before)
    /\ ~wrote => data = IF Replaced THEN WakeValue[attr] ELSE before

\* The inductive invariant of the settings.
LisInv == PhaseInv /\ DataInv /\ RegisterFollows

-----------------------------------------------------------------------------

\* A value of an unsigned int is its own remainder, and a remainder is such a value.
LEMMA WordMod ==
    /\ \A x \in Int : x % Word \in 0 .. Word - 1
    /\ \A x \in 0 .. Word - 1 : x % Word = x
  BY ConstantsOK DEF Byte

\* What a file shows is the value itself if it can be read again.
LEMMA ShownRead ==
    ASSUME NEW d \in 0 .. Word - 1
    PROVE  /\ Shown(d) \in Int
           /\ Readable(Shown(d)) => Parsed(Shown(d)) = d
           /\ 2 * d < Word => Readable(Shown(d))
  BY WordMod, ConstantsOK DEF Shown, Readable, Parsed

\* The settings of the probe and those for waking up fit into a register.
LEMMA SmallValues ==
    /\ \A a \in Attrs : Default[a] \in 0 .. Byte - 1
    /\ \A a \in Attrs : a # "config" => WakeValue[a] \in 0 .. Byte - 1
  BY DEF Attrs, Default, WakeValue, Byte

\* A value of a register is shown as it is, read as it is and written as it is.
LEMMA SmallStays ==
    ASSUME NEW d \in 0 .. Byte - 1
    PROVE  /\ d \in 0 .. Word - 1 /\ d % Byte = d
           /\ Readable(Shown(d)) /\ Readable(d) /\ Parsed(d) = d
  BY WordMod, ShownRead, ConstantsOK DEF Readable, Parsed, Byte

\* A store begins: the driver has the value, and the writer owes the register a write.
LEMMA StoreKeeps ==
    ASSUME LisTypeOK, RegisterFollows, NEW w \in Writers, NEW v \in Int, Store(w, v)
    PROVE  /\ LisTypeOK' /\ RegisterFollows' /\ attr' = attr
           /\ data' = IF Readable(v) THEN Parsed(v) ELSE data
  <1>1. CASE ~Readable(v) \/ Parsed(v) = data
    BY <1>1 DEF Store, LisTypeOK, RegisterFollows, irqVars
  <1>2. CASE Readable(v) /\ Parsed(v) # data
    <2>1. Parsed(v) \in 0 .. Word - 1
      BY WordMod DEF Parsed
    <2>2. storing' \in [Writers -> 0 .. Word - 1 \cup {None}] /\ storing'[w] = Parsed(v)
      BY <1>2, <2>1 DEF Store, LisTypeOK
    <2> QED
      BY <1>2, <2>1, <2>2, ConstantsOK DEF Store, LisTypeOK, RegisterFollows, irqVars
  <1> QED
    BY <1>1, <1>2

\* The script's own types.
ScriptTypeOK ==
    /\ part \in {"wlan", "lis"}
    /\ pc \in {"idle", "stop", "set", "resume", "mem", "restore", "start"}
    /\ asleep \in BOOLEAN /\ resume_en \in BOOLEAN /\ wrote \in BOOLEAN
    /\ saved \in Int \cup {None} /\ before \in 0 .. Word - 1

\* The same with the types it rests on.
LisAll == LisTypeOK /\ ScriptTypeOK /\ LisInv

\* The invariant of the accelerometer and its setting holds after the probe.
LEMMA LisInitially == Init => LisAll
  <1> SUFFICES ASSUME Init PROVE LisAll
    OBVIOUS
  <1> USE DEF Init, LisInit, WlanInit
  <1>0. /\ Default[attr] \in 0 .. Word - 1 /\ Default[attr] % Byte \in 0 .. Byte - 1
        /\ Readable(Shown(Default[attr]))
    BY SmallValues, SmallStays
  <1>1. LisTypeOK
    <2>1. line \in BOOLEAN /\ irqOn \in BOOLEAN /\ lost \in BOOLEAN
      OBVIOUS
    <2> QED
      BY <1>0, <2>1 DEF LisTypeOK
  <1>2. ScriptTypeOK
    <2>1. asleep \in BOOLEAN /\ resume_en \in BOOLEAN /\ wrote \in BOOLEAN
      OBVIOUS
    <2> QED
      BY <1>0, <2>1 DEF ScriptTypeOK
  <1>3. LisInv
    BY <1>0 DEF LisInv, PhaseInv, DataInv, Replaced, RegisterFollows
  <1> QED
    BY <1>1, <1>2, <1>3 DEF LisAll

\* The commands of the script, for the accelerometer.
LEMMA LisScript == LisAll /\ ~asleep /\ ScriptNext => LisAll'
  <1> SUFFICES ASSUME LisAll, ~asleep, ScriptNext PROVE LisAll'
    OBVIOUS
  <1> USE DEF LisAll, LisInv, wlanVars, stopVars, lisVars, attrVars, irqVars
  <1>1. CASE Begin
    BY <1>1 DEF Begin, LisTypeOK, ScriptTypeOK, PhaseInv, DataInv, Replaced, RegisterFollows
  <1>2. CASE Save
    <2>1. wrote' \in BOOLEAN
      BY <1>2 DEF Save
    <2>2. Shown(data) \in Int
      BY ShownRead DEF LisTypeOK
    <2> QED
      BY <1>2, <2>1, <2>2 DEF Save, LisTypeOK, ScriptTypeOK, PhaseInv, DataInv, Replaced,
                              RegisterFollows
  <1>3. CASE Set
    <2>1. CASE attr = "config"
      BY <1>3, <2>1 DEF Set, LisTypeOK, ScriptTypeOK, PhaseInv, DataInv, Replaced, RegisterFollows
    <2>2. CASE attr # "config"
      <3>1. WakeValue[attr] \in Int /\ Readable(WakeValue[attr])
            /\ Parsed(WakeValue[attr]) = WakeValue[attr]
        BY <2>2, SmallValues, SmallStays DEF LisTypeOK
      <3>2. Store("script", WakeValue[attr])
        BY <1>3, <2>2 DEF Set
      <3>3. LisTypeOK' /\ RegisterFollows' /\ data' = WakeValue[attr] /\ attr' = attr
        BY <3>1, <3>2, StoreKeeps DEF Writers
      <3> QED
        BY <1>3, <2>2, <3>3 DEF Set, ScriptTypeOK, PhaseInv, DataInv, Replaced
    <2> QED
      BY <2>1, <2>2
  <1>4. CASE Resume
    <2>1. resume_en' \in BOOLEAN
      BY <1>4 DEF Resume
    <2> QED
      BY <1>4, <2>1 DEF Resume, LisTypeOK, ScriptTypeOK, PhaseInv, DataInv, Replaced,
                        RegisterFollows
  <1>5. CASE Mem
    <2>1. asleep' \in BOOLEAN
      BY <1>5 DEF Mem
    <2> QED
      BY <1>5, <2>1 DEF Mem, LisTypeOK, ScriptTypeOK, PhaseInv, DataInv, Replaced, RegisterFollows
  <1>6. CASE Restore
    <2>1. saved = Shown(before) /\ before \in 0 .. Word - 1
      BY <1>6 DEF Restore, DataInv, ScriptTypeOK
    <2>2. Shown(before) \in Int /\ (Readable(Shown(before)) => Parsed(Shown(before)) = before)
      BY <2>1, ShownRead
    <2>3. /\ LisTypeOK' /\ RegisterFollows' /\ attr' = attr
          /\ data' = IF Readable(Shown(before)) THEN before ELSE data
      BY <1>6, <2>1, <2>2, StoreKeeps DEF Restore, Writers
    <2> QED
      BY <1>6, <2>1, <2>3 DEF Restore, ScriptTypeOK, PhaseInv, DataInv, Replaced
  <1>7. CASE Start
    <2>1. stop' = stop
      BY <1>7 DEF Start, Spawn
    <2> QED
      BY <1>7, <2>1 DEF Start, LisTypeOK, ScriptTypeOK, PhaseInv, DataInv, Replaced, RegisterFollows
  <1> QED
    BY <1>1, <1>2, <1>3, <1>4, <1>5, <1>6, <1>7 DEF ScriptNext

\* The driver's interrupt and stores.
LEMMA LisDriver ==
    ASSUME LisAll, part = "lis", UNCHANGED <<wlanVars, scriptVars>>,
           \/ Irq \/ WorkRead \/ WorkReport \/ Motion
           \/ \E w \in Writers : StoreWrite(w) \/ StoreWriteFails(w)
    PROVE  LisAll'
  <1> USE DEF LisAll, LisInv, wlanVars, stopVars, scriptVars, attrVars, irqVars
  <1>1. CASE Irq \/ WorkRead \/ WorkReport \/ Motion
    <2>1. line' \in BOOLEAN
      BY <1>1 DEF Irq, WorkRead, WorkReport, Motion, LisTypeOK
    <2>2. irqOn' \in BOOLEAN
      BY <1>1 DEF Irq, WorkRead, WorkReport, Motion, LisTypeOK
    <2>3. work' \in {"idle", "queued", "read"} /\ UNCHANGED attrVars
      BY <1>1 DEF Irq, WorkRead, WorkReport, Motion, LisTypeOK
    <2> QED
      BY <2>1, <2>2, <2>3 DEF LisTypeOK, ScriptTypeOK, PhaseInv, DataInv, Replaced, RegisterFollows
  <1>2. ASSUME NEW w \in Writers, StoreWrite(w)
        PROVE  LisAll'
    <2>1. lost' \in BOOLEAN
      BY <1>2 DEF StoreWrite
    <2>2. data \in Int
      BY ConstantsOK DEF LisTypeOK
    <2>3. data % Byte \in 0 .. Byte - 1
      BY <2>2 DEF Byte
    <2> QED
      BY <1>2, <2>1, <2>3 DEF StoreWrite, LisTypeOK, ScriptTypeOK, PhaseInv, DataInv, Replaced,
                        RegisterFollows
  <1>3. ASSUME NEW w \in Writers, StoreWriteFails(w)
        PROVE  LisAll'
    <2>1. lost' \in BOOLEAN
      BY <1>3 DEF StoreWriteFails
    <2> QED
      BY <1>3, <2>1 DEF StoreWriteFails, LisTypeOK, ScriptTypeOK, PhaseInv, DataInv, Replaced,
                        RegisterFollows
  <1> QED
    BY <1>1, <1>2, <1>3

\* Interrupts, writers of the attributes and the suspend script keep it.
LEMMA LisStep == LisAll /\ [Next]_vars => LisAll'
  <1> SUFFICES ASSUME LisAll, [Next]_vars PROVE LisAll'
    OBVIOUS
  <1>1. CASE ~asleep /\ ScriptNext
    BY <1>1, LisScript
  <1>2. ASSUME part = "wlan",
               UNCHANGED <<lisVars, scriptVars>>, stop' = "idle" \/ pc = "stop"
        PROVE  LisAll'
    BY <1>2 DEF LisAll, LisInv, lisVars, scriptVars, attrVars, irqVars, LisTypeOK, ScriptTypeOK,
                PhaseInv, DataInv, Replaced, RegisterFollows
  <1>3. CASE Net(StopStep)
    <2>1. pc = "stop"
      BY <1>3 DEF Net, StopStep, StopKill, StopTerm, StopWait, StopDown, StopRm, StopRmmod,
                  LisAll, LisInv, PhaseInv
    <2> QED
      BY <1>2, <1>3, <2>1 DEF Net
  <1>4. CASE Net(ScriptStep) \/ \E i \in Starts : Net(StartStep(i)) \/ Net(UdhcpcStep(i))
    <2>1. part = "wlan" /\ UNCHANGED <<lisVars, scriptVars>> /\ stop' = stop
      BY <1>4 DEF Net, ScriptStep, ZcipClaims, ZcipLinkDown, ZcipAction, KickCat, KickKill,
                  StartStep, Insmod, StartWpa, Ifup, UdhcpcReturns, IfupWrites, UdhcpcStep,
                  SignalPipe, WritePid, Deconfig, LeaseFail, Bound, HandleTerm, stopVars
    <2> QED
      BY <1>2, <2>1 DEF LisAll, LisInv, PhaseInv
  <1>5. CASE \/ Lis(Irq) \/ Lis(WorkRead) \/ Lis(WorkReport)
             \/ \E w \in Writers : Lis(StoreWrite(w)) \/ Lis(StoreWriteFails(w))
             \/ part = "lis" /\ Motion /\ UNCHANGED <<wlanVars, scriptVars>>
    BY <1>5, LisDriver DEF Lis
  <1>6. CASE part = "lis" /\ ~asleep /\ AppStore
    <2>1. PICK v \in AppValues : Store("app", v)
      BY <1>6 DEF AppStore
    <2>2. LisTypeOK' /\ RegisterFollows' /\ attr' = attr
      BY <2>1, StoreKeeps, ConstantsOK DEF LisAll, LisInv, Writers
    <2>3. wrote' \in BOOLEAN
      BY <1>6 DEF AppStore
    <2> QED
      BY <1>6, <2>2, <2>3 DEF AppStore, LisAll, LisInv, ScriptTypeOK, PhaseInv, DataInv, Replaced,
                              wlanVars, stopVars
  <1>7. CASE Wake
    <2>1. asleep' \in BOOLEAN
      BY <1>7 DEF Wake
    <2> QED
      BY <1>7, <2>1 DEF Wake, LisAll, LisInv, LisTypeOK, ScriptTypeOK, PhaseInv, DataInv, Replaced,
                        RegisterFollows, lisVars, attrVars, irqVars, wlanVars, stopVars
  <1>8. CASE UNCHANGED vars
    BY <1>8 DEF vars, LisAll, LisInv, LisTypeOK, ScriptTypeOK, PhaseInv, DataInv, Replaced,
                RegisterFollows, lisVars, attrVars, irqVars, scriptVars, wlanVars, stopVars
  <1> QED
    BY <1>1, <1>3, <1>4, <1>5, <1>6, <1>7, <1>8 DEF Next, Finished

(***************************************************************************)
(* Whatever numbers the script and applications store at the same time,    *)
(* the register has the low byte of the driver's value once no store is in *)
(* progress, unless the last write to the chip failed.                     *)
(***************************************************************************)
THEOREM RegisterIsCopy == Spec => []RegisterFollows
  <1>1. LisAll => RegisterFollows
    BY DEF LisAll, LisInv
  <1> QED
    BY <1>1, LisInitially, LisStep, PTL DEF Spec

(***************************************************************************)
(* The device sleeps with the settings for waking up and gets back the     *)
(* ones from before, for any numbers applications write: in the register,  *)
(* the low byte of the value, and for threshold and duration only of one   *)
(* that the driver does not show with a minus sign.                        *)
(***************************************************************************)
THEOREM SettingsSurvive == Spec => []SettingRestored
  <1> SUFFICES LisAll => SettingRestored
    BY LisInitially, LisStep, PTL DEF Spec
  <1> SUFFICES ASSUME LisAll, ~wrote, ~lost, \A w \in Writers : storing[w] = None
               PROVE  /\ pc \in {"idle", "stop", "start"}
                           /\ (attr = "config" \/ Readable(Shown(before))) => reg = before % Byte
                      /\ asleep /\ attr # "config" => reg = WakeValue[attr]
    BY DEF SettingRestored
  <1>1. reg = data % Byte /\ data = IF Replaced THEN WakeValue[attr] ELSE before
    BY DEF LisAll, LisInv, DataInv, RegisterFollows
  <1>2. asleep => pc = "restore"
    BY DEF LisAll, LisInv, PhaseInv
  <1>3. attr # "config" => WakeValue[attr] % Byte = WakeValue[attr]
    BY SmallValues, SmallStays DEF LisAll, LisTypeOK
  <1> QED
    BY <1>1, <1>2, <1>3 DEF Replaced

-----------------------------------------------------------------------------

\* NoStart is no start, and there is at least one start.
LEMMA NoStartIsNone == NoStart \notin Starts /\ 1 \in Starts
  BY MaxStartsOK DEF NoStart, Starts

\* The network starts with its types.
LEMMA WlanInitially == Init => WlanTypeOK
  <1> SUFFICES ASSUME Init PROVE WlanTypeOK
    OBVIOUS
  <1>1. drv \in BOOLEAN /\ up \in BOOLEAN /\ wpa \in BOOLEAN /\ ifstate \in BOOLEAN /\ late \in BOOLEAN
    BY DEF Init, WlanInit
  <1> QED
    BY <1>1 DEF Init, WlanInit, WlanTypeOK

\* ifconfig, and the killall of zcip.
LEMMA IfconfigTypes ==
    ASSUME WlanTypeOK, NEW a \in {"none", "lease", "zeroconf"}, Ifconfig(a)
    PROVE  /\ drv' \in BOOLEAN /\ up' \in BOOLEAN
           /\ addr' \in {"none", "lease", "zeroconf"} /\ (up' => drv')
  <1>1. CASE drv
    BY <1>1 DEF Ifconfig, WlanTypeOK
  <1>2. CASE ~drv
    BY <1>2 DEF Ifconfig, WlanTypeOK, ifVars
  <1> QED
    BY <1>1, <1>2

\* killall zcip keeps the types of the zeroconf client.
LEMMA KillallTypes ==
    ASSUME WlanTypeOK, KillallZcip
    PROVE  /\ zcip' \in {"none", "run", "hook", "ready"} /\ hook' \in {"none", "config", "deconfig"}
           /\ late' \in BOOLEAN
  BY DEF KillallZcip, WlanTypeOK

\* The steps of each program of the network keep its types.
LEMMA StopTypes == WlanTypeOK /\ StopStep => WlanTypeOK'
  <1> SUFFICES ASSUME WlanTypeOK, StopStep PROVE WlanTypeOK'
    OBVIOUS
  <1> USE DEF WlanTypeOK, ifVars, procVars, zcipVars
  <1>1. CASE StopKill
    <2>1. wpa' \in BOOLEAN /\ busy' \subseteq {"start", "zcip"}
      BY <1>1 DEF StopKill
    <2> QED
      BY <1>1, <2>1 DEF StopKill
  <1>2. CASE StopTerm
    BY <1>2 DEF StopTerm
  <1>3. CASE StopWait
    BY <1>3 DEF StopWait
  <1>4. CASE StopDown
    <2>1. up' \in BOOLEAN /\ ~up'
      BY <1>4 DEF StopDown
    <2> QED
      BY <1>4, <2>1 DEF StopDown
  <1>5. CASE StopRm
    <2>1. ifstate' \in BOOLEAN
      BY <1>5 DEF StopRm
    <2> QED
      BY <1>5, <2>1 DEF StopRm
  <1>6. CASE StopRmmod
    BY <1>6 DEF StopRmmod
  <1> QED
    BY <1>1, <1>2, <1>3, <1>4, <1>5, <1>6 DEF StopStep

\* The zeroconf client and its hook script keep the types.
LEMMA HookTypes == WlanTypeOK /\ ScriptStep => WlanTypeOK'
  <1> SUFFICES ASSUME WlanTypeOK, ScriptStep PROVE WlanTypeOK'
    OBVIOUS
  <1> USE DEF ifVars, procVars, zcipVars, stopVars
  <1>1. CASE ZcipClaims
    BY <1>1 DEF WlanTypeOK, ZcipClaims
  <1>2. CASE ZcipLinkDown
    BY <1>2 DEF WlanTypeOK, ZcipLinkDown
  <1>3. CASE ZcipAction
    <2>1. /\ drv' \in BOOLEAN /\ up' \in BOOLEAN
          /\ addr' \in {"none", "lease", "zeroconf"} /\ (up' => drv')
      BY <1>3, IfconfigTypes DEF ZcipAction
    <2> QED
      BY <1>3, <2>1 DEF WlanTypeOK, ZcipAction
  <1>4. CASE KickCat
    BY <1>4 DEF WlanTypeOK, KickCat
  <1>5. CASE KickKill
    BY <1>5 DEF WlanTypeOK, KickKill
  <1> QED
    BY <1>1, <1>2, <1>3, <1>4, <1>5 DEF ScriptStep

\* A start of the wlan script and the udhcpc it spawns keep the types.
LEMMA StartTypes ==
    ASSUME WlanTypeOK, NEW i \in Starts, StartStep(i) \/ Spawn(i)
    PROVE  WlanTypeOK'
  <1> USE DEF ifVars, procVars, zcipVars, stopVars
  <1>1. CASE Spawn(i)
    BY <1>1 DEF WlanTypeOK, Spawn
  <1>2. CASE Insmod(i)
    <2>1. drv' \in BOOLEAN /\ drv'
      BY <1>2 DEF Insmod
    <2>2. up' \in BOOLEAN
      BY <1>2, Zenon DEF Insmod
    <2> QED
      BY <1>2, <2>1, <2>2 DEF WlanTypeOK, Insmod
  <1>3. CASE StartWpa(i)
    <2>1. wpa' \in BOOLEAN
      BY <1>3, Zenon DEF StartWpa
    <2> QED
      BY <1>3, <2>1 DEF WlanTypeOK, StartWpa
  <1>4. CASE Ifup(i)
    <2>1. up' \in BOOLEAN /\ (up' => drv)
      BY <1>4 DEF WlanTypeOK, Ifup
    <2> QED
      BY <1>4, <2>1 DEF WlanTypeOK, Ifup
  <1>5. CASE UdhcpcReturns(i)
    BY <1>5 DEF WlanTypeOK, UdhcpcReturns
  <1>6. CASE IfupWrites(i)
    <2>1. ifstate' \in BOOLEAN
      BY <1>6 DEF IfupWrites
    <2> QED
      BY <1>6, <2>1 DEF WlanTypeOK, IfupWrites
  <1> QED
    BY <1>1, <1>2, <1>3, <1>4, <1>5, <1>6 DEF StartStep

\* udhcpc and its action script keep the types.
LEMMA UdhcpcTypes ==
    ASSUME WlanTypeOK, NEW i \in Starts, UdhcpcStep(i)
    PROVE  WlanTypeOK'
  <1> USE DEF procVars, stopVars
  <1>1. CASE SignalPipe(i)
    BY <1>1 DEF WlanTypeOK, SignalPipe, ifVars, zcipVars
  <1>2. CASE WritePid(i)
    BY <1>2 DEF WlanTypeOK, WritePid, ifVars, zcipVars
  <1>3. CASE Deconfig(i)
    BY <1>3, IfconfigTypes, KillallTypes DEF WlanTypeOK, Deconfig
  <1>4. CASE LeaseFail(i)
    <2>1. late' \in BOOLEAN
      BY <1>4 DEF LeaseFail
    <2> QED
      BY <1>4, <2>1 DEF WlanTypeOK, LeaseFail, ifVars
  <1>5. CASE Bound(i)
    BY <1>5, IfconfigTypes, KillallTypes DEF WlanTypeOK, Bound
  <1>6. CASE HandleTerm(i)
    <2>1. CASE dhcp[i] = "select"
      BY <1>6, <2>1, NoStartIsNone DEF WlanTypeOK, HandleTerm, ifVars, zcipVars
    <2>2. CASE dhcp[i] # "select"
      BY <1>6, <2>2, IfconfigTypes, KillallTypes DEF WlanTypeOK, HandleTerm
    <2> QED
      BY <2>1, <2>2
  <1> QED
    BY <1>1, <1>2, <1>3, <1>4, <1>5, <1>6 DEF UdhcpcStep

\* Every step of the system is one of the network's programs, or leaves them alone.
LEMMA NetSteps ==
    ASSUME [Next]_vars
    PROVE  \/ UNCHANGED <<lisVars, scriptVars>> /\ part = "wlan" /\ ~asleep
                /\ (StopStep \/ ScriptStep \/ \E i \in Starts : StartStep(i) \/ UdhcpcStep(i))
           \/ ~asleep /\ Begin
           \/ ~asleep /\ Start
           \/ UNCHANGED wlanVars /\ (UNCHANGED scriptVars \/ Wake \/ Finished \/ AppStore
                                        \/ (~asleep /\ (Save \/ Set \/ Resume \/ Mem \/ Restore)))
  BY DEF Next, Net, Lis, ScriptNext, Save, Set, Resume, Mem, Restore, AppStore, Wake, Finished, vars

\* Every step keeps the types of the network.
LEMMA WlanStep == WlanTypeOK /\ [Next]_vars => WlanTypeOK'
  <1> SUFFICES ASSUME WlanTypeOK, [Next]_vars PROVE WlanTypeOK'
    OBVIOUS
  <1>1. ASSUME UNCHANGED wlanVars
        PROVE  WlanTypeOK'
    BY <1>1 DEF WlanTypeOK, wlanVars, ifVars, procVars, zcipVars, stopVars
  <1>2. CASE Begin
    BY <1>2 DEF Begin, WlanTypeOK, ifVars, procVars, zcipVars
  <1>3. CASE Start
    BY <1>1, <1>3, StartTypes DEF Start
  <1> QED
    BY <1>1, <1>2, <1>3, NetSteps, StopTypes, HookTypes, StartTypes, UdhcpcTypes

\* Type correctness of scripts, programs and driver.
THEOREM TypeCorrect == Spec => []TypeOK
  <1>1. WlanTypeOK /\ LisAll => TypeOK
    BY DEF TypeOK, LisAll, ScriptTypeOK
  <1> QED
    BY <1>1, LisInitially, LisStep, WlanInitially, WlanStep, PTL DEF Spec

-----------------------------------------------------------------------------

(***************************************************************************)
(* Pids, and the states in which a udhcpc cannot handle signals: one in    *)
(* the pid file can, one whose pid a kick remembers is not started anew,   *)
(* and one that has not come as far keeps its start waiting.               *)
(***************************************************************************)
PidInv ==
    /\ \A i \in Starts : pidfile = i => dhcp[i] \in {"deconfig", "select", "bound"}
    /\ \A i \in Starts : dhcp[i] # "none" => start[i] \in {"wait", "write", "done"}
    /\ \A i \in Starts : kick = i => start[i] \in {"wait", "write", "done"} /\ dhcp[i] # "exec"
    /\ \A i \in Starts : dhcp[i] \in {"exec", "piped", "deconfig"} => i \notin failed /\ start[i] = "wait"

\* The inductive invariant of a kick.
KickInv == PidInv /\ KickNeverKills

\* No pid file names a process at the start.
LEMMA KickInit == Init => KickInv
  BY NoStartIsNone DEF Init, WlanInit, KickInv, PidInv, KickNeverKills

\* Every step keeps the invariant of the pid file and of the pid a kick has read from it.
LEMMA KickStep == WlanTypeOK /\ KickInv /\ [Next]_vars => KickInv'
  <1> SUFFICES ASSUME WlanTypeOK, KickInv, [Next]_vars PROVE KickInv'
    OBVIOUS
  <1> USE NoStartIsNone DEF KickInv
  <1>1. ASSUME UNCHANGED <<start, dhcp, failed, pidfile, kick>>
        PROVE  KickInv'
    BY <1>1 DEF PidInv, KickNeverKills
  <1>2. StopStep \/ ZcipClaims \/ ZcipLinkDown \/ ZcipAction \/ Begin \/ UNCHANGED wlanVars
            => UNCHANGED <<start, dhcp, failed, pidfile, kick>>
    BY DEF StopStep, StopKill, StopTerm, StopWait, StopDown, StopRm, StopRmmod, ZcipClaims,
           ZcipLinkDown, ZcipAction, Begin, wlanVars, procVars
  <1>3. CASE KickCat
    BY <1>3 DEF KickCat, PidInv, KickNeverKills, WlanTypeOK, procVars
  <1>4. CASE KickKill
    <2>1. kick \in Starts /\ dhcp[kick] # "exec"
      BY <1>4 DEF KickKill, PidInv, WlanTypeOK
    <2> QED
      BY <1>4, <2>1 DEF KickKill, PidInv, KickNeverKills
  <1>5. ASSUME NEW i \in Starts, Spawn(i)
        PROVE  KickInv'
    BY <1>5 DEF Spawn, Free, PidInv, KickNeverKills, WlanTypeOK
  <1>6. ASSUME NEW i \in Starts, StartStep(i)
        PROVE  KickInv'
    <2>1. CASE Insmod(i)
      BY <2>1 DEF Insmod, PidInv, KickNeverKills, WlanTypeOK
    <2>2. CASE StartWpa(i)
      BY <2>2 DEF StartWpa, PidInv, KickNeverKills, WlanTypeOK
    <2>3. CASE Ifup(i)
      BY <2>3 DEF Ifup, PidInv, KickNeverKills, WlanTypeOK
    <2>4. CASE UdhcpcReturns(i)
      BY <2>4 DEF UdhcpcReturns, PidInv, KickNeverKills, WlanTypeOK
    <2>5. CASE IfupWrites(i)
      BY <2>5 DEF IfupWrites, PidInv, KickNeverKills, WlanTypeOK
    <2> QED
      BY <1>6, <2>1, <2>2, <2>3, <2>4, <2>5 DEF StartStep
  <1>7. ASSUME NEW i \in Starts, UdhcpcStep(i)
        PROVE  KickInv'
    <2>1. CASE SignalPipe(i)
      BY <2>1 DEF SignalPipe, PidInv, KickNeverKills, WlanTypeOK
    <2>2. CASE WritePid(i)
      BY <2>2 DEF WritePid, PidInv, KickNeverKills, WlanTypeOK
    <2>3. CASE Deconfig(i)
      BY <2>3 DEF Deconfig, PidInv, KickNeverKills, WlanTypeOK
    <2>4. CASE LeaseFail(i)
      BY <2>4 DEF LeaseFail, PidInv, KickNeverKills, WlanTypeOK
    <2>5. CASE Bound(i)
      BY <2>5 DEF Bound, PidInv, KickNeverKills, WlanTypeOK
    <2>6. CASE HandleTerm(i)
      BY <2>6 DEF HandleTerm, PidInv, KickNeverKills, WlanTypeOK
    <2> QED
      BY <1>7, <2>1, <2>2, <2>3, <2>4, <2>5, <2>6 DEF UdhcpcStep
  <1>8. CASE Start
    BY <1>1, <1>2, <1>5, <1>8 DEF Start
  <1> QED
    BY <1>1, <1>2, <1>3, <1>4, <1>6, <1>7, <1>8, NetSteps DEF ScriptStep

(***************************************************************************)
(* The kick of wpa_action never kills a udhcpc, however long it keeps the  *)
(* pid it has read and however many udhcpcs come and go meanwhile.         *)
(***************************************************************************)
THEOREM KickIsSafe == Spec => []KickNeverKills
  <1>1. KickInv => KickNeverKills
    BY DEF KickInv
  <1> QED
    BY <1>1, WlanInitially, WlanStep, KickInit, KickStep, PTL DEF Spec

-----------------------------------------------------------------------------

\* A start that is running, or whose udhcpc is.
Active(i) == start[i] \notin {"none", "done"} \/ dhcp[i] # "none"

(***************************************************************************)
(* As long as no stop met a start there is one udhcpc or none, it is in    *)
(* the pid file once it handles signals, and zcip does not run beside a    *)
(* lease.                                                                  *)
(***************************************************************************)
SingleInv ==
    "start" \notin busy =>
        /\ \A i, j \in Starts : Active(i) /\ Active(j) => i = j
        /\ \A i \in Starts : dhcp[i] \in {"deconfig", "select", "bound"} => pidfile = i
        /\ (\E i \in Starts : dhcp[i] = "bound") =>
            zcip = "none" /\ (hook # "none" => late) /\ (drv => (addr = "lease" \/ late))

\* The script is past the killall of its wlan stop and has not started wlan again.
Stopping ==
    \/ pc = "stop" /\ stop # "kill"
    \/ pc \in {"set", "resume", "mem", "restore", "start"}

(***************************************************************************)
(* What the commands of a stop that met no start have achieved so far.     *)
(***************************************************************************)
StoppedInv ==
    (part = "wlan" /\ "start" \notin busy /\ Stopping) =>
        /\ ~wpa /\ \A i \in Starts : start[i] \in {"none", "done"}
        /\ stop = "wait" => \A i \in Starts : dhcp[i] # "none" => i = waitfor
        /\ stop \in {"down", "rm", "rmmod", "idle"} => \A i \in Starts : dhcp[i] = "none"
        /\ "zcip" \notin busy =>
            /\ hook = "none" /\ zcip \in {"none", "run"}
            /\ stop \in {"rm", "rmmod"} => ~up
            /\ stop = "idle" => ~drv

\* The inductive invariant of the network.
NetInv == SingleInv /\ StoppedInv

\* The same with the invariants it rests on.
NetAll == WlanTypeOK /\ KickInv /\ PhaseInv /\ NetInv

\* Nothing runs and nothing is stopped at the start.
LEMMA NetInit == Init => NetInv
  BY NoStartIsNone DEF Init, WlanInit, NetInv, SingleInv, StoppedInv, Stopping, Active

\* The wlan stop of the script.
LEMMA NetStop ==
    ASSUME NetAll, part = "wlan", StopStep, UNCHANGED scriptVars
    PROVE  NetInv'
  <1> USE NoStartIsNone DEF NetAll, NetInv, scriptVars, ifVars, procVars, zcipVars, Active
  <1>1. CASE StopKill
    <2>1. SingleInv'
      BY <1>1 DEF StopKill, SingleInv
    <2>2. StoppedInv'
      BY <1>1 DEF StopKill, StoppedInv, Stopping
    <2> QED
      BY <2>1, <2>2
  <1>2. CASE StopTerm
    <2>1. SingleInv'
      BY <1>2 DEF StopTerm, SingleInv
    <2>2. StoppedInv'
      <3> SUFFICES ASSUME "start" \notin busy
                   PROVE  StoppedInv'
        BY <1>2 DEF StopTerm, StoppedInv
      <3>1. \A i \in Starts : dhcp[i] # "none" => i = pidfile
        BY <1>2 DEF StopTerm, SingleInv, StoppedInv, Stopping, KickInv, PidInv, KickNeverKills,
                    WlanTypeOK, PhaseInv
      <3> QED
        BY <1>2, <3>1 DEF StopTerm, StoppedInv, Stopping
    <2> QED
      BY <2>1, <2>2
  <1>3. CASE StopWait
    <2>1. SingleInv'
      BY <1>3 DEF StopWait, SingleInv
    <2>2. StoppedInv'
      BY <1>3 DEF StopWait, StoppedInv, Stopping
    <2> QED
      BY <2>1, <2>2
  <1>4. CASE StopDown
    <2>1. SingleInv'
      BY <1>4 DEF StopDown, SingleInv
    <2>2. StoppedInv'
      BY <1>4 DEF StopDown, StoppedInv, Stopping
    <2> QED
      BY <2>1, <2>2
  <1>5. CASE StopRm
    <2>1. SingleInv'
      BY <1>5 DEF StopRm, SingleInv
    <2>2. StoppedInv'
      BY <1>5 DEF StopRm, StoppedInv, Stopping
    <2> QED
      BY <2>1, <2>2
  <1>6. CASE StopRmmod
    <2>1. SingleInv'
      BY <1>6 DEF StopRmmod, SingleInv, WlanTypeOK
    <2>2. StoppedInv'
      BY <1>6 DEF StopRmmod, StoppedInv, Stopping, PhaseInv
    <2> QED
      BY <2>1, <2>2
  <1> QED
    BY <1>1, <1>2, <1>3, <1>4, <1>5, <1>6 DEF StopStep

\* The scripts of zcip and wpa_cli.
LEMMA NetHook ==
    ASSUME NetAll, part = "wlan", ScriptStep, UNCHANGED scriptVars
    PROVE  NetInv'
  <1> USE NoStartIsNone DEF NetAll, NetInv, scriptVars, procVars, stopVars, Active
  <1>1. CASE ZcipClaims
    BY <1>1 DEF ZcipClaims, SingleInv, StoppedInv, Stopping, ifVars
  <1>2. CASE ZcipLinkDown
    BY <1>2 DEF ZcipLinkDown, SingleInv, StoppedInv, Stopping, ifVars
  <1>3. CASE ZcipAction
    <2>1. SingleInv'
      BY <1>3 DEF ZcipAction, SingleInv, Ifconfig, ifVars
    <2>2. StoppedInv'
      BY <1>3 DEF ZcipAction, StoppedInv, Stopping
    <2> QED
      BY <2>1, <2>2
  <1>4. CASE KickCat
    BY <1>4 DEF KickCat, SingleInv, StoppedInv, Stopping, ifVars, zcipVars
  <1>5. CASE KickKill
    <2>1. dhcp' = dhcp
      BY <1>5 DEF KickKill, KickInv, PidInv, WlanTypeOK
    <2> QED
      BY <1>5, <2>1 DEF KickKill, SingleInv, StoppedInv, Stopping, ifVars, zcipVars
  <1> QED
    BY <1>1, <1>2, <1>3, <1>4, <1>5 DEF ScriptStep

\* A start of wlan.
LEMMA NetStart ==
    ASSUME NetAll, part = "wlan", NEW i \in Starts, StartStep(i), UNCHANGED scriptVars
    PROVE  NetInv'
  <1> USE NoStartIsNone DEF NetAll, NetInv, scriptVars, zcipVars, stopVars
  <1>1. start[i] \in {"insmod", "wpa", "ifup", "wait", "write"}
    BY DEF StartStep, Insmod, StartWpa, Ifup, UdhcpcReturns, IfupWrites
  <1>2. ("start" \notin busy /\ Stopping) => FALSE
    BY <1>1 DEF StoppedInv
  <1>3. StoppedInv'
    <2>1. busy' = busy /\ stop' = stop
      BY DEF StartStep, Insmod, StartWpa, Ifup, UdhcpcReturns, IfupWrites
    <2> QED
      BY <1>2, <2>1 DEF StoppedInv, Stopping
  <1>4. CASE Insmod(i)
    <2>1. dhcp[i] = "none"
      BY <1>4 DEF Insmod, KickInv, PidInv, WlanTypeOK
    <2>2. SingleInv'
      BY <1>4, <2>1 DEF Insmod, SingleInv, Active, WlanTypeOK
    <2> QED
      BY <1>3, <2>2
  <1>5. CASE StartWpa(i)
    BY <1>3, <1>5 DEF StartWpa, SingleInv, Active, WlanTypeOK
  <1>6. CASE Ifup(i)
    BY <1>3, <1>6 DEF Ifup, SingleInv, Active, WlanTypeOK
  <1>7. CASE UdhcpcReturns(i)
    BY <1>3, <1>7 DEF UdhcpcReturns, SingleInv, Active, WlanTypeOK, ifVars
  <1>8. CASE IfupWrites(i)
    BY <1>3, <1>8 DEF IfupWrites, SingleInv, Active, WlanTypeOK, ifVars
  <1> QED
    BY <1>4, <1>5, <1>6, <1>7, <1>8 DEF StartStep

\* A udhcpc with the scripts it calls.
LEMMA NetUdhcpc ==
    ASSUME NetAll, part = "wlan", NEW i \in Starts, UdhcpcStep(i), UNCHANGED scriptVars
    PROVE  NetInv'
  <1> USE NoStartIsNone DEF NetAll, NetInv, scriptVars, stopVars
  <1>1. /\ dhcp[i] # "none" /\ \A j \in Starts : j # i => dhcp'[j] = dhcp[j]
        /\ UNCHANGED <<start, stop, busy, waitfor, wpa>>
    BY DEF UdhcpcStep, SignalPipe, WritePid, Deconfig, LeaseFail, Bound, HandleTerm, WlanTypeOK
  <1>2. StoppedInv'
    <2> SUFFICES ASSUME "start" \notin busy, Stopping
                 PROVE  StoppedInv'
      BY <1>1 DEF StoppedInv, Stopping
    <2>1. stop \notin {"down", "rm", "rmmod", "idle"}
      BY <1>1 DEF StoppedInv
    <2>2. hook' = hook /\ zcip' \in {"none", "run", zcip}
      BY DEF UdhcpcStep, SignalPipe, WritePid, Deconfig, LeaseFail, Bound, HandleTerm, zcipVars,
             KillallZcip
    <2> QED
      BY <1>1, <2>1, <2>2 DEF StoppedInv, Stopping
  <1>3. ASSUME "start" \notin busy
        PROVE  \A j \in Starts : Active(j) => j = i
    BY <1>1, <1>3 DEF SingleInv, Active
  <1>4. SingleInv'
    <2> SUFFICES ASSUME "start" \notin busy
                 PROVE  SingleInv'
      BY <1>1 DEF SingleInv
    <2>1. \A j \in Starts : Active(j)' => j = i
      BY <1>1, <1>3 DEF Active
    <2>2. \A j \in Starts : dhcp'[j] # "none" => j = i
      BY <2>1 DEF Active
    <2>3. CASE SignalPipe(i)
      BY <1>1, <2>1, <2>2, <2>3 DEF SignalPipe, SingleInv, WlanTypeOK
    <2>4. CASE WritePid(i)
      BY <1>1, <2>1, <2>2, <2>4 DEF WritePid, SingleInv, WlanTypeOK
    <2>5. CASE Deconfig(i)
      BY <1>1, <2>1, <2>2, <2>5 DEF Deconfig, SingleInv, WlanTypeOK
    <2>6. CASE LeaseFail(i)
      BY <1>1, <2>1, <2>2, <2>6 DEF LeaseFail, SingleInv, WlanTypeOK
    <2>7. CASE Bound(i)
      <3>1. zcip' = "none" /\ (hook' # "none" => late') /\ addr' = "lease"
        BY <2>7 DEF Bound, KillallZcip, Ifconfig, WlanTypeOK
      <3>2. pidfile' = i
        BY <2>7 DEF Bound, SingleInv
      <3> QED
        BY <1>1, <2>1, <2>2, <3>1, <3>2 DEF SingleInv
    <2>8. CASE HandleTerm(i)
      <3>1. dhcp'[i] = "none"
        BY <2>8 DEF HandleTerm, WlanTypeOK
      <3> QED
        BY <2>1, <2>2, <3>1 DEF SingleInv
    <2> QED
      BY <2>3, <2>4, <2>5, <2>6, <2>7, <2>8 DEF UdhcpcStep
  <1> QED
    BY <1>2, <1>4

\* wlan start resume & of the script: the stop before has left nothing.
LEMMA NetSpawn ==
    ASSUME NetAll, Start
    PROVE  NetInv'
  <1> USE NoStartIsNone DEF NetAll, NetInv
  <1>1. StoppedInv'
    BY DEF Start, Spawn, StoppedInv, Stopping, PhaseInv, wlanVars, stopVars
  <1>2. CASE part = "wlan"
    <2>1. PICK i \in Starts : Spawn(i)
      BY <1>2 DEF Start
    <2>2. "start" \notin busy => \A j \in Starts : ~Active(j)
      BY <1>2 DEF Start, StoppedInv, Stopping, PhaseInv, Active, WlanTypeOK
    <2>3. SingleInv'
      BY <2>1, <2>2 DEF Spawn, SingleInv, Active, WlanTypeOK, stopVars, zcipVars, ifVars
    <2> QED
      BY <1>1, <2>3
  <1>3. CASE part # "wlan"
    BY <1>1, <1>3 DEF Start, SingleInv, Active, wlanVars, ifVars, procVars, zcipVars, stopVars
  <1> QED
    BY <1>2, <1>3

\* Every step keeps at most one udhcpc alive, and what a stop has ended stays ended.
LEMMA NetStep == NetAll /\ ScriptTypeOK /\ [Next]_vars => NetInv'
  <1> SUFFICES ASSUME NetAll, ScriptTypeOK, [Next]_vars PROVE NetInv'
    OBVIOUS
  <1>1. CASE Begin
    BY <1>1 DEF Begin, NetAll, NetInv, PhaseInv, SingleInv, Active, StoppedInv, Stopping,
                ScriptTypeOK, ifVars, procVars, zcipVars
  <1>2. CASE Start
    BY <1>2, NetSpawn
  <1>3. CASE UNCHANGED wlanVars /\ (UNCHANGED scriptVars \/ Wake \/ Finished \/ AppStore
                                       \/ (~asleep /\ (Save \/ Set \/ Resume \/ Mem \/ Restore)))
    <2>1. SingleInv'
      BY <1>3 DEF NetAll, NetInv, SingleInv, Active, wlanVars, ifVars, procVars, zcipVars, stopVars
    <2>2. Stopping' => Stopping
      BY <1>3 DEF Stopping, Wake, Finished, AppStore, Save, Set, Resume, Mem, Restore,
                  wlanVars, stopVars, scriptVars, vars
    <2>3. part' = part
      BY <1>3 DEF Wake, Finished, AppStore, Save, Set, Resume, Mem, Restore, scriptVars, vars
    <2>4. StoppedInv'
      BY <1>3, <2>2, <2>3 DEF NetAll, NetInv, StoppedInv, wlanVars, ifVars, procVars, zcipVars,
                              stopVars
    <2> QED
      BY <2>1, <2>4 DEF NetInv
  <1> QED
    BY <1>1, <1>2, <1>3, NetSteps, NetStop, NetHook, NetStart, NetUdhcpc

\* The invariants of the network hold in every reachable state.
LEMMA NetAlways == Spec => [](NetAll /\ ScriptTypeOK)
  <1>1. Init => NetAll /\ ScriptTypeOK /\ LisAll
    BY LisInitially, WlanInitially, KickInit, NetInit DEF NetAll, LisAll, LisInv
  <1>2. NetAll /\ ScriptTypeOK /\ LisAll /\ [Next]_vars => (NetAll /\ ScriptTypeOK /\ LisAll)'
    <2>1. LisAll => ScriptTypeOK /\ PhaseInv
      BY DEF LisAll, LisInv
    <2> QED
      BY <2>1, LisStep, WlanStep, KickStep, NetStep DEF NetAll, LisAll, LisInv
  <1> QED
    BY <1>1, <1>2, PTL DEF Spec

(***************************************************************************)
(* A lease keeps its address: neither zcip nor another udhcpc takes it     *)
(* away, as long as no stop met a start and no zcip_action comes late.     *)
(***************************************************************************)
THEOREM LeaseIsKept == Spec => []LeaseStays
  <1>1. NetAll => LeaseStays
    BY DEF NetAll, NetInv, SingleInv, LeaseStays
  <1> QED
    BY <1>1, NetAlways, PTL

(***************************************************************************)
(* The device sleeps without wireless driver, wpa_supplicant and udhcpc    *)
(* when the stop met neither a start nor zcip, for any number of starts.   *)
(***************************************************************************)
THEOREM NothingLeft == Spec => []SleepsStopped
  <1>1. NetAll => SleepsStopped
    <2> SUFFICES ASSUME NetAll, part = "wlan", asleep, busy = {}
                 PROVE  ~drv /\ ~wpa /\ pidfile = NoStart /\ \A i \in Starts : dhcp[i] = "none"
      BY DEF SleepsStopped
    <2>1. Stopping /\ stop = "idle"
      BY DEF NetAll, PhaseInv, Stopping
    <2>2. ~drv /\ ~wpa /\ \A i \in Starts : dhcp[i] = "none"
      BY <2>1 DEF NetAll, NetInv, StoppedInv
    <2>3. pidfile = NoStart
      BY <2>2 DEF NetAll, KickInv, PidInv, WlanTypeOK
    <2> QED
      BY <2>2, <2>3
  <1> QED
    BY <1>1, NetAlways, PTL

-----------------------------------------------------------------------------

\* The udhcpc that the stop waits for is gone, or has a SIGTERM that it can handle.
Ends(i) ==
    \/ dhcp[i] = "none" /\ start[i] \in {"wait", "write", "done"}
    \/ i \in term /\ dhcp[i] \in {"deconfig", "select", "bound"}

\* The process the stop waits for is one that ends.
WaitInv == stop = "wait" => waitfor \in Starts /\ Ends(waitfor)

\* The wait goes on for the same process, and never after that has gone.
WaitStep ==
    (stop = "wait" /\ stop' = "wait") =>
        waitfor' = waitfor /\ (dhcp[waitfor] = "none" => dhcp'[waitfor] = "none")

\* Where the loop of the stop is, one of its two ways forward is open: its own, or udhcpc's.
WaitOpen ==
    stop = "wait" =>
        /\ part = "wlan" /\ ~asleep
        /\ \/ dhcp[waitfor] = "none"
           \/ waitfor \in term /\ dhcp[waitfor] \in {"deconfig", "select", "bound"}

\* WaitStep, of every step.
WaitSteps == [][WaitStep]_vars

\* Every step keeps WaitInv, and is one the wait may meet.
LEMMA WaitKept ==
    ASSUME NetAll, WaitInv, [Next]_vars
    PROVE  WaitInv' /\ WaitStep
  <1> USE NoStartIsNone DEF WaitInv, WaitStep, Ends
  <1>0. /\ WlanTypeOK /\ PidInv /\ PhaseInv
        /\ dhcp \in [Starts -> {"none", "exec", "piped", "deconfig", "select", "bound", "killed"}]
        /\ start \in [Starts -> {"none", "insmod", "wpa", "ifup", "wait", "write", "done"}]
    BY DEF NetAll, KickInv, WlanTypeOK
  <1>1. CASE StopStep
    <2>1. CASE StopTerm
      <3>1. stop' = "wait" => pidfile \in Starts /\ dhcp[pidfile] \in {"deconfig", "select", "bound"}
        BY <1>0, <2>1 DEF StopTerm, PidInv, WlanTypeOK
      <3> QED
        BY <2>1, <3>1 DEF StopTerm
    <2>2. CASE stop' # "wait"
      BY <2>2
    <2> QED
      BY <1>1, <2>1, <2>2 DEF StopStep, StopKill, StopWait, StopDown, StopRm, StopRmmod
  <1>2. CASE UNCHANGED <<start, dhcp, term, stop, waitfor>>
    BY <1>2
  <1>3. CASE ScriptStep
    <2>1. CASE KickKill
      <3>1. dhcp' = dhcp
        BY <1>0, <2>1 DEF KickKill, PidInv, WlanTypeOK
      <3> QED
        BY <1>2, <2>1, <3>1 DEF KickKill, stopVars
    <2> QED
      BY <1>2, <1>3, <2>1 DEF ScriptStep, ZcipClaims, ZcipLinkDown, ZcipAction, KickCat,
                              procVars, stopVars
  <1>4. ASSUME NEW i \in Starts, StartStep(i)
        PROVE  WaitInv' /\ WaitStep
    <2>1. UNCHANGED <<term, stop, waitfor>>
      BY <1>4 DEF StartStep, Insmod, StartWpa, Ifup, UdhcpcReturns, IfupWrites, stopVars
    <2>2. CASE Insmod(i) \/ StartWpa(i) \/ Ifup(i)
      <3>1. start[i] \in {"insmod", "wpa", "ifup"}
        BY <2>2 DEF Insmod, StartWpa, Ifup
      <3>2. dhcp[i] = "none"
        BY <1>0, <3>1 DEF PidInv
      <3>3. stop = "wait" => i # waitfor
        BY <3>1, <3>2
      <3>4. \A j \in Starts : j # i => start'[j] = start[j] /\ dhcp'[j] = dhcp[j]
        BY <1>0, <2>2 DEF Insmod, StartWpa, Ifup
      <3> QED
        BY <2>1, <3>3, <3>4
    <2>3. CASE UdhcpcReturns(i) \/ IfupWrites(i)
      <3>1. /\ dhcp' = dhcp /\ start'[i] \in {"write", "done"}
            /\ \A j \in Starts : j # i => start'[j] = start[j]
        BY <1>0, <2>3 DEF UdhcpcReturns, IfupWrites
      <3> QED
        BY <2>1, <3>1
    <2> QED
      BY <1>4, <2>2, <2>3 DEF StartStep
  <1>5. ASSUME NEW i \in Starts, UdhcpcStep(i)
        PROVE  WaitInv' /\ WaitStep
    <2>1. /\ UNCHANGED <<start, stop, waitfor>> /\ dhcp[i] # "none"
          /\ \A j \in Starts : j # i => dhcp'[j] = dhcp[j] /\ (j \in term => j \in term')
      BY <1>0, <1>5 DEF UdhcpcStep, SignalPipe, WritePid, Deconfig, LeaseFail, Bound, HandleTerm,
                        stopVars
    <2>2. start[i] \in {"wait", "write", "done"}
      BY <1>0, <2>1 DEF PidInv
    <2>3. CASE stop = "wait" /\ i = waitfor
      <3>1. i \in term /\ dhcp[i] \in {"deconfig", "select", "bound"}
        BY <2>1, <2>3
      <3>2. \/ HandleTerm(i)
            \/ LeaseFail(i)
        BY <1>5, <3>1 DEF UdhcpcStep, SignalPipe, WritePid, Deconfig, Bound
      <3>3. HandleTerm(i)
        BY <3>1, <3>2 DEF LeaseFail
      <3>4. dhcp'[i] = "none"
        BY <1>0, <3>3 DEF HandleTerm
      <3> QED
        BY <2>1, <2>2, <2>3, <3>4
    <2>4. CASE ~(stop = "wait" /\ i = waitfor)
      BY <2>1, <2>4
    <2> QED
      BY <2>3, <2>4
  <1>6. CASE Begin \/ Start
    <2>1. stop # "wait" /\ stop' # "wait"
      BY <1>0, <1>6 DEF Begin, Start, Spawn, PhaseInv, wlanVars, stopVars
    <2> QED
      BY <2>1
  <1>7. UNCHANGED wlanVars => UNCHANGED <<start, dhcp, term, stop, waitfor>>
    BY DEF wlanVars, procVars, stopVars
  <1> QED
    BY <1>1, <1>2, <1>3, <1>4, <1>5, <1>6, <1>7, NetSteps

(***************************************************************************)
(* The safe half of SuspendEnds, for any number of starts: the loop of     *)
(* wlan stop has no time limit, and needs none.  It always waits for one   *)
(* udhcpc that handles SIGTERM and has it, or that is gone and does not    *)
(* come back under its pid while the loop looks for it.                    *)
(***************************************************************************)
THEOREM WaitCanEnd == Spec => []WaitOpen /\ WaitSteps
  <1>1. Init => WaitInv
    BY DEF Init, WlanInit, WaitInv
  <1>2. (NetAll /\ ScriptTypeOK) /\ WaitInv /\ [Next]_vars => WaitInv' /\ [WaitStep]_vars
    BY WaitKept
  <1>3. (NetAll /\ ScriptTypeOK) /\ WaitInv => WaitOpen
    BY DEF NetAll, PhaseInv, ScriptTypeOK, WaitInv, WaitOpen, Ends
  <1> QED
    BY <1>1, <1>2, <1>3, NetAlways, PTL DEF Spec, WaitSteps

-----------------------------------------------------------------------------

(***************************************************************************)
(* What ifup finds as long as no stop met a start: the stop before has     *)
(* removed ifstate, and the driver is loaded.                              *)
(***************************************************************************)
OnlineInv ==
    (part = "wlan" /\ "start" \notin busy) =>
        /\ (Stopping /\ stop \in {"rmmod", "idle"}) => ~ifstate
        /\ \A i \in Starts : start[i] \notin {"none", "done"} => ~ifstate
        /\ \A i \in Starts : start[i] \in {"wpa", "ifup"} => drv

\* An ifup finds no record of its interface, and the driver, unless a stop met a start.
IfupGoesOn ==
    \A i \in Starts :
        (part = "wlan" /\ start[i] = "ifup" /\ "start" \notin busy) => ~ifstate /\ drv

\* Every step keeps what ifup finds.
LEMMA OnlineStep ==
    ASSUME NetAll, ScriptTypeOK, OnlineInv, [Next]_vars
    PROVE  OnlineInv'
  <1> USE NoStartIsNone DEF OnlineInv
  <1>0. /\ WlanTypeOK /\ PhaseInv /\ SingleInv /\ StoppedInv
        /\ start \in [Starts -> {"none", "insmod", "wpa", "ifup", "wait", "write", "done"}]
    BY DEF NetAll, NetInv, WlanTypeOK
  <1>1. ASSUME StopStep, part = "wlan", UNCHANGED scriptVars
        PROVE  OnlineInv'
    <2>1. CASE StopKill
      BY <1>1, <2>1 DEF StopKill, procVars, scriptVars
    <2>2. CASE StopTerm \/ StopWait \/ StopDown
      BY <1>1, <2>2 DEF StopTerm, StopWait, StopDown, procVars, ifVars, scriptVars
    <2>3. CASE StopRm
      BY <1>1, <2>3 DEF StopRm, ifVars, scriptVars
    <2>4. CASE StopRmmod
      <3>1. stop = "rmmod" /\ Stopping
        BY <1>0, <2>4 DEF StopRmmod, PhaseInv, Stopping
      <3>2. "start" \notin busy => \A i \in Starts : start[i] \in {"none", "done"}
        BY <1>0, <1>1, <3>1 DEF StoppedInv
      <3> QED
        BY <1>1, <2>4, <3>1, <3>2 DEF StopRmmod, procVars, scriptVars
    <2> QED
      BY <1>1, <2>1, <2>2, <2>3, <2>4 DEF StopStep
  <1>2. ASSUME UNCHANGED <<start, ifstate, drv, stop, busy, part>>, Stopping' => Stopping
        PROVE  OnlineInv'
    BY <1>2
  <1>3. ASSUME ScriptStep, UNCHANGED scriptVars
        PROVE  OnlineInv'
    BY <1>2, <1>3 DEF ScriptStep, ZcipClaims, ZcipLinkDown, ZcipAction, KickCat, KickKill, Ifconfig,
                      ifVars, procVars, stopVars, scriptVars, Stopping
  <1>4. ASSUME NEW i \in Starts, StartStep(i), part = "wlan", UNCHANGED scriptVars
        PROVE  OnlineInv'
    <2> SUFFICES ASSUME "start" \notin busy
                 PROVE  OnlineInv'
      BY <1>4 DEF StartStep, Insmod, StartWpa, Ifup, UdhcpcReturns, IfupWrites, stopVars
    <2>1. start[i] \in {"insmod", "wpa", "ifup", "wait", "write"}
      BY <1>4 DEF StartStep, Insmod, StartWpa, Ifup, UdhcpcReturns, IfupWrites
    <2>2. ~Stopping /\ ~ifstate
      BY <1>0, <1>4, <2>1 DEF StoppedInv
    <2>3. \A j \in Starts : j # i => start[j] \in {"none", "done"} /\ start'[j] = start[j]
      BY <1>0, <1>4, <2>1 DEF SingleInv, Active, StartStep, Insmod, StartWpa, Ifup, UdhcpcReturns,
                              IfupWrites
    <2>4. ~Stopping' /\ UNCHANGED <<part, busy>>
      BY <1>4, <2>2 DEF StartStep, Insmod, StartWpa, Ifup, UdhcpcReturns, IfupWrites, stopVars,
                        scriptVars, Stopping
    <2>5. CASE Insmod(i)
      <3>1. drv' /\ ~ifstate'
        BY <2>2, <2>5 DEF Insmod
      <3> QED
        BY <2>4, <3>1
    <2>6. CASE StartWpa(i)
      <3>1. drv' /\ ~ifstate'
        BY <1>4, <2>2, <2>6 DEF StartWpa
      <3> QED
        BY <2>4, <3>1
    <2>7. CASE Ifup(i) \/ UdhcpcReturns(i) \/ IfupWrites(i)
      <3>1. /\ start'[i] \in {"wait", "write", "done"}
            /\ start'[i] # "done" => ~ifstate'
        BY <1>0, <2>2, <2>7 DEF Ifup, UdhcpcReturns, IfupWrites
      <3> QED
        BY <2>3, <2>4, <3>1
    <2> QED
      BY <1>4, <2>5, <2>6, <2>7 DEF StartStep
  <1>5. ASSUME NEW i \in Starts, UdhcpcStep(i), UNCHANGED scriptVars
        PROVE  OnlineInv'
    BY <1>2, <1>5 DEF UdhcpcStep, SignalPipe, WritePid, Deconfig, LeaseFail, Bound, HandleTerm,
                      Ifconfig, ifVars, stopVars, scriptVars, Stopping
  <1>6. CASE Begin
    BY <1>0, <1>6 DEF Begin, Stopping, PhaseInv, ifVars, procVars
  <1>7. CASE Start
    <2>1. stop = "idle" /\ Stopping /\ ~Stopping' /\ part' = part /\ busy' = busy
      BY <1>0, <1>7 DEF Start, Spawn, PhaseInv, Stopping, wlanVars, stopVars
    <2>2. CASE part = "wlan"
      <3>1. PICK i \in Starts : Spawn(i)
        BY <1>7, <2>2 DEF Start
      <3>2. "start" \notin busy => ~ifstate' /\ \A j \in Starts : start'[j] \in {"none", "done", "insmod"}
        BY <1>0, <2>1, <2>2, <3>1 DEF Spawn, StoppedInv
      <3> QED
        BY <2>1, <3>2
    <2>3. CASE part # "wlan"
      BY <2>1, <2>3
    <2> QED
      BY <2>2, <2>3
  <1>8. CASE UNCHANGED wlanVars /\ (UNCHANGED scriptVars \/ Wake \/ Finished \/ AppStore
                                       \/ (~asleep /\ (Save \/ Set \/ Resume \/ Mem \/ Restore)))
    <2>1. (Stopping' => Stopping) /\ part' = part
      BY <1>8 DEF Stopping, Wake, Finished, AppStore, Save, Set, Resume, Mem, Restore,
                  wlanVars, stopVars, scriptVars, vars
    <2> QED
      BY <1>2, <1>8, <2>1 DEF wlanVars, ifVars, procVars, stopVars
  <1> QED
    BY <1>1, <1>3, <1>4, <1>5, <1>6, <1>7, <1>8, NetSteps

(***************************************************************************)
(* The safe half of BackOnline, for any number of starts: the ifup of a    *)
(* start that no stop has met is never refused.  It finds the driver       *)
(* loaded and no ifstate of the time before the sleep, so it runs udhcpc.  *)
(***************************************************************************)
THEOREM IfupIsNotRefused == Spec => []IfupGoesOn
  <1>1. Init => OnlineInv
    BY DEF Init, WlanInit, OnlineInv
  <1>2. (NetAll /\ ScriptTypeOK) /\ OnlineInv /\ [Next]_vars => OnlineInv'
    BY OnlineStep
  <1>3. OnlineInv => IfupGoesOn
    BY DEF OnlineInv, IfupGoesOn
  <1> QED
    BY <1>1, <1>2, <1>3, NetAlways, PTL DEF Spec

-----------------------------------------------------------------------------

\* The interrupt is off only while the work has it to enable, and the sleep can be ended.
IrqInv ==
    /\ irqOn \/ work \in {"queued", "read"}
    /\ pc \in {"mem", "restore"} => resume_en

\* A motion that has not been read can interrupt or has work under way, and can end the sleep.
MotionWaits ==
    line => (irqOn \/ work \in {"queued", "read"}) /\ (asleep => resume_en)

\* A motion is kept until the work reads it.
MotionSteps == [][line => line' \/ work' = "read"]_vars

\* Every step keeps IrqInv, and lets go of a motion only when the work reads it.
LEMMA IrqStep ==
    ASSUME LisAll, IrqInv, [Next]_vars
    PROVE  IrqInv' /\ (line => line' \/ work' = "read")
  <1> USE DEF IrqInv
  <1>1. CASE ~asleep /\ ScriptNext
    <2>1. UNCHANGED irqVars
      BY <1>1 DEF ScriptNext, Begin, Save, Set, Resume, Mem, Restore, Start, Store, lisVars, irqVars
    <2>2. pc' \in {"mem", "restore"} => resume_en'
      BY <1>1 DEF ScriptNext, Begin, Save, Set, Resume, Mem, Restore, Start
    <2> QED
      BY <2>1, <2>2 DEF irqVars
  <1>2. ASSUME Irq \/ WorkRead \/ WorkReport \/ Motion, UNCHANGED scriptVars
        PROVE  IrqInv' /\ (line => line' \/ work' = "read")
    BY <1>2 DEF Irq, WorkRead, WorkReport, Motion, scriptVars
  <1>3. ASSUME UNCHANGED <<irqVars, pc, resume_en>>
        PROVE  IrqInv' /\ (line => line' \/ work' = "read")
    BY <1>3 DEF irqVars
  <1>4. CASE part = "lis" /\ ~asleep /\ AppStore
    BY <1>3, <1>4 DEF AppStore, Store
  <1>5. ASSUME NEW w \in Writers, Lis(StoreWrite(w)) \/ Lis(StoreWriteFails(w))
        PROVE  IrqInv' /\ (line => line' \/ work' = "read")
    BY <1>3, <1>5 DEF Lis, StoreWrite, StoreWriteFails, scriptVars
  <1>6. CASE Wake
    BY <1>3, <1>6 DEF Wake, lisVars
  <1>7. ASSUME UNCHANGED <<lisVars, scriptVars>>
        PROVE  IrqInv' /\ (line => line' \/ work' = "read")
    BY <1>3, <1>7 DEF lisVars, scriptVars
  <1> QED
    BY <1>1, <1>2, <1>4, <1>5, <1>6, <1>7 DEF Next, Net, Lis, Finished, vars

(***************************************************************************)
(* The safe half of MotionReported: a motion is latched until the work has *)
(* read it, and whenever it comes the interrupt is enabled or the work     *)
(* that enables it is under way; the device never sleeps without leave to  *)
(* be woken by it.                                                         *)
(***************************************************************************)
THEOREM MotionIsKept == Spec => []MotionWaits /\ MotionSteps
  <1>1. Init => IrqInv
    BY DEF Init, LisInit, IrqInv
  <1>2. LisAll /\ IrqInv /\ [Next]_vars => IrqInv' /\ [line => line' \/ work' = "read"]_vars
    BY IrqStep
  <1>3. LisAll /\ IrqInv => MotionWaits
    BY DEF LisAll, LisInv, PhaseInv, IrqInv, MotionWaits
  <1> QED
    BY <1>1, <1>2, <1>3, LisInitially, LisStep, PTL DEF Spec, MotionSteps
=============================================================================
