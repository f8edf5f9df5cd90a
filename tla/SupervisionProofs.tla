-------------------------- MODULE SupervisionProofs -------------------------
(* Proofs about the SqueezePlay service and the MSP430 monitor under one daemon, for *)
(* any number of processes and any number of failed reads that is allowed.           *)
EXTENDS Supervision, FiniteSetTheorems, TLAPS

\* The script writes a pid to the file only after a fork has given it one.
EchoInv == step = "echo" => last # 0

\* Type correctness of the service.
LEMMA ServiceTypes == TypeOK /\ EchoInv /\ Next => TypeOK' /\ EchoInv'
  <1> SUFFICES ASSUME TypeOK, EchoInv, Next
               PROVE  TypeOK' /\ EchoInv'
    OBVIOUS
  <1> USE ConstantsOK DEF TypeOK, EchoInv, Pids
  <1>1. CASE \E arg \in {"start", "stop", "stopwdog", "restart"} : Run(arg)
    BY <1>1 DEF Run
  <1>2. CASE Test
    BY <1>2 DEF Test
  <1>3. CASE Fork
    <2>1. last' \in 0..MaxPids
      BY <1>3 DEF Fork
    <2>2. proc' \in [Pids -> {"unused", "jive", "sleep", "ending", "ended"}]
      BY <1>3 DEF Fork
    <2> QED
      BY <1>3, <2>1, <2>2 DEF Fork
  <1>4. CASE Echo
    BY <1>4 DEF Echo
  <1>5. CASE Kill
    BY <1>5 DEF Kill, AfterStop
  <1>6. CASE Rm
    BY <1>6 DEF Rm, AfterStop
  <1>7. ASSUME NEW p \in Pids, ProcessEnds(p)
        PROVE  TypeOK' /\ EchoInv'
    BY <1>7 DEF ProcessEnds
  <1>8. CASE CheckPidfile
    BY <1>8 DEF CheckPidfile
  <1>9. CASE Finished
    BY <1>9 DEF Finished, vars
  <1> QED
    BY <1>1, <1>2, <1>3, <1>4, <1>5, <1>6, <1>7, <1>8, <1>9 DEF Next, Script

\* A running monitor has not missed too many answers, and has counted no more than it missed.
CountInv == mon = "running" => (fails <= MAX_CONSECUTIVE_FAIL_COUNT /\ fails <= missed)

(***************************************************************************)
(* The monitor's pid file.  A file that names an older process, or an      *)
(* exited one, is the trace of a silent chip; a killed one is in the file  *)
(* only until the rm.                                                      *)
(***************************************************************************)
MonPidInv ==
    /\ (monpid = "current" \/ monstep = "echo") =>
        mon = "running" \/ (mon = "exited" /\ silent) \/ (mon = "killed" /\ monstep = "rm")
    /\ monpid = "old" => silent
    /\ (monstep = "fork" /\ monpid = "current") => silent

\* The inductive invariant of the monitor.
MonInv == SuperTypeOK /\ EchoInv /\ CountInv /\ MonPidInv /\ ChipWasSilent

\* The invariant of the MSP430 monitor holds before it is started.
LEMMA MonInit == SuperInit => MonInv
  <1> SUFFICES ASSUME SuperInit PROVE MonInv
    OBVIOUS
  <1> USE ConstantsOK, FailCountOK DEF Pids, SuperInit, Init
  <1>1. silent \in BOOLEAN
    OBVIOUS
  <1>2. SuperTypeOK
    BY <1>1 DEF SuperTypeOK, TypeOK
  <1> QED
    BY <1>2 DEF MonInv, EchoInv, CountInv, MonPidInv, ChipWasSilent

\* The monitor, its script, the chip and the daemon keep the invariant of the monitor.
LEMMA MonStep == MonInv /\ [SuperNext]_superVars => MonInv'
  <1> SUFFICES ASSUME MonInv, [SuperNext]_superVars
               PROVE  MonInv'
    OBVIOUS
  <1> USE FailCountOK DEF MonInv, EchoInv
  <1>1. CASE Next /\ UNCHANGED <<chip, monVars, monScript>>
    <2>1. SuperTypeOK' /\ EchoInv'
      BY <1>1, ServiceTypes DEF SuperTypeOK, monVars, monScript
    <2>2. rebooted' = "monitor" => rebooted = "monitor"
      BY <1>1 DEF Next, Script, Run, Test, Fork, Echo, Kill, Rm, ProcessEnds, CheckPidfile,
                  Finished, vars
    <2> QED
      BY <1>1, <2>1, <2>2 DEF CountInv, MonPidInv, ChipWasSilent, monVars, monScript
  <1>2. ASSUME NEW arg \in {"start", "stop", "restart"}, MonRun(arg)
        PROVE  MonInv'
    BY <1>2 DEF MonRun, SuperTypeOK, TypeOK, CountInv, MonPidInv, ChipWasSilent, Rebooted,
                monVars, vars
  <1>3. CASE MonTest
    BY <1>3 DEF MonTest, SuperTypeOK, TypeOK, CountInv, MonPidInv, ChipWasSilent, Rebooted,
                monVars, vars
  <1>4. CASE MonFork
    BY <1>4 DEF MonFork, SuperTypeOK, TypeOK, CountInv, MonPidInv, ChipWasSilent, Rebooted, vars
  <1>5. CASE MonEcho
    BY <1>5 DEF MonEcho, SuperTypeOK, TypeOK, CountInv, MonPidInv, ChipWasSilent, Rebooted, vars
  <1>6. CASE MonKill
    BY <1>6 DEF MonKill, SuperTypeOK, TypeOK, CountInv, MonPidInv, ChipWasSilent, Rebooted, vars
  <1>7. CASE MonRm
    <2>1. silent' \in BOOLEAN
      BY <1>7 DEF MonRm
    <2> QED
      BY <1>7, <2>1 DEF MonRm, SuperTypeOK, TypeOK, CountInv, MonPidInv, ChipWasSilent,
                        Rebooted, vars
  <1>8. CASE ChipDies
    BY <1>8 DEF ChipDies, SuperTypeOK, TypeOK, CountInv, MonPidInv, ChipWasSilent,
                monVars, monScript, vars
  <1>9. CASE ReadOk
    BY <1>9 DEF ReadOk, SuperTypeOK, TypeOK, CountInv, MonPidInv, ChipWasSilent, Rebooted,
                monScript, vars
  <1>10. CASE ReadFails
    <2>1. silent' \in BOOLEAN
      BY <1>10 DEF ReadFails
    <2>2. /\ fails' \in 0..(MAX_CONSECUTIVE_FAIL_COUNT + 1) /\ fails' <= missed'
          /\ missed' \in 0..(MAX_CONSECUTIVE_FAIL_COUNT + 1)
          /\ mon' \in {"running", "exited"}
          /\ mon' = "running" => fails' <= MAX_CONSECUTIVE_FAIL_COUNT
      BY <1>10 DEF ReadFails, SuperTypeOK, CountInv
    <2>3. mon' = "exited" => silent'
      <3>1. mon' = "exited" => missed' > MAX_CONSECUTIVE_FAIL_COUNT
        BY <1>10, <2>2 DEF ReadFails
      <3> QED
        BY <1>10, <3>1, Zenon DEF ReadFails
    <2>4. SuperTypeOK' /\ EchoInv' /\ CountInv'
      BY <1>10, <2>1, <2>2 DEF ReadFails, SuperTypeOK, TypeOK, CountInv, monScript, vars
    <2>5. MonPidInv' /\ ChipWasSilent'
      BY <1>10, <2>2, <2>3 DEF ReadFails, MonPidInv, ChipWasSilent, Rebooted, monScript, vars
    <2> QED
      BY <2>4, <2>5
  <1>11. CASE CheckMonitor
    BY <1>11 DEF CheckMonitor, SuperTypeOK, TypeOK, CountInv, MonPidInv, ChipWasSilent,
                 monVars, monScript
  <1>12. CASE UNCHANGED superVars
    BY <1>12 DEF SuperTypeOK, TypeOK, CountInv, MonPidInv, ChipWasSilent,
                 superVars, monVars, monScript, vars
  <1> QED
    BY <1>1, <1>2, <1>3, <1>4, <1>5, <1>6, <1>7, <1>8, <1>9, <1>10, <1>11, <1>12
       DEF SuperNext, MonitorNext

\* Type correctness of scripts, processes, monitor and pid files.
THEOREM TypeCorrect == SuperSpec => []SuperTypeOK
  <1>1. MonInv => SuperTypeOK
    BY DEF MonInv
  <1> QED
    BY <1>1, MonInit, MonStep, PTL DEF SuperSpec

(***************************************************************************)
(* The daemon reboots over the monitor's pid file only after the chip has  *)
(* left more requests unanswered in a row than allowed, or in the script's *)
(* window between kill and rm, for any limit.                              *)
(***************************************************************************)
THEOREM ChipIsSilent == SuperSpec => []ChipWasSilent
  <1>1. MonInv => ChipWasSilent
    BY DEF MonInv
  <1> QED
    BY <1>1, MonInit, MonStep, PTL DEF SuperSpec

-----------------------------------------------------------------------------

\* A SqueezePlay is the process in the pid file, or the one about to be written to it.
JiveInv ==
    /\ \A p \in Pids : proc[p] = "jive" => (p = pidfile \/ (step = "echo" /\ p = last))
    /\ step = "echo" => \A p \in Pids : proc[p] = "jive" => p = last
    /\ step \in {"fork", "rm"} => \A p \in Pids : proc[p] # "jive"

(***************************************************************************)
(* How processes come to their end.  Pids above last are unused; a process *)
(* that was killed is in the pid file only until the rm.                   *)
(***************************************************************************)
FateInv ==
    /\ \A p \in Pids : p > last => proc[p] = "unused" /\ fate[p] = "none"
    /\ \A p \in Pids : proc[p] \in {"jive", "sleep"} => fate[p] = "none"
    /\ \A p \in Pids : proc[p] = "ending" => fate[p] = "killed"
    /\ \A p \in Pids : proc[p] = "ended" => fate[p] # "none"
    /\ \A p \in Pids : p <= last => proc[p] # "unused"
    /\ pidfile # NoPid => pidfile <= last /\ (fate[pidfile] = "killed" => step = "rm")
    /\ step = "echo" => last \in Pids /\ fate[last] # "killed"

\* The inductive invariant of the service.
ServiceInv == JiveInv /\ FateInv /\ RebootHasReason

\* The invariant of the service holds before any script has run.
LEMMA ServiceInit == SuperInit => ServiceInv
  BY ConstantsOK DEF SuperInit, Init, ServiceInv, JiveInv, FateInv, RebootHasReason, Pids

\* Each step of the squeezeplay script and of its processes keeps the invariant of the service.
LEMMA ServiceNext == SuperTypeOK /\ ServiceInv /\ Next => ServiceInv'
  <1> SUFFICES ASSUME TypeOK, ServiceInv, Next
               PROVE  ServiceInv'
    BY DEF SuperTypeOK
  <1> USE ConstantsOK DEF TypeOK, Pids, ServiceInv
  <1>1. ASSUME NEW arg \in {"start", "stop", "stopwdog", "restart"}, Run(arg)
        PROVE  ServiceInv'
    BY <1>1 DEF Run, JiveInv, FateInv, RebootHasReason, Rebooted
  <1>2. CASE Test
    BY <1>2 DEF Test, Alive, JiveInv, FateInv, RebootHasReason, Rebooted
  <1>3. CASE Fork
    <2>1. JiveInv'
      BY <1>3 DEF Fork, JiveInv, FateInv
    <2>2. FateInv'
      BY <1>3 DEF Fork, FateInv
    <2> QED
      BY <1>3, <2>1, <2>2 DEF Fork, RebootHasReason, Rebooted
  <1>4. CASE Echo
    BY <1>4 DEF Echo, JiveInv, FateInv, RebootHasReason, Rebooted
  <1>5. CASE Kill
    <2>1. JiveInv'
      BY <1>5 DEF Kill, AfterStop, Alive, JiveInv
    <2>2. FateInv'
      BY <1>5 DEF Kill, AfterStop, Alive, FateInv
    <2> QED
      BY <1>5, <2>1, <2>2 DEF Kill, RebootHasReason, Rebooted
  <1>6. CASE Rm
    BY <1>6 DEF Rm, AfterStop, JiveInv, FateInv, RebootHasReason, Rebooted
  <1>7. ASSUME NEW p \in Pids, ProcessEnds(p)
        PROVE  ServiceInv'
    <2>1. JiveInv'
      BY <1>7 DEF ProcessEnds, JiveInv
    <2>2. FateInv'
      BY <1>7 DEF ProcessEnds, Alive, FateInv
    <2> QED
      BY <1>7, <2>1, <2>2 DEF ProcessEnds, RebootHasReason, Rebooted
  <1>8. CASE CheckPidfile
    <2>1. fate[pidfile] \in {"crashed", "expired"} \/ step = "rm"
      BY <1>8 DEF CheckPidfile, Alive, FateInv
    <2> QED
      BY <1>8, <2>1 DEF CheckPidfile, JiveInv, FateInv, RebootHasReason
  <1>9. CASE Finished
    BY <1>9 DEF Finished, vars, JiveInv, FateInv, RebootHasReason
  <1> QED
    BY <1>1, <1>2, <1>3, <1>4, <1>5, <1>6, <1>7, <1>8, <1>9 DEF Next, Script

\* Of the steps of the monitor, only the daemon's check concerns the service.
LEMMA MonitorSteps == MonitorNext => CheckMonitor \/ UNCHANGED vars
  BY DEF MonitorNext, MonRun, MonTest, MonFork, MonEcho, MonKill, MonRm, ChipDies, ReadOk, ReadFails

\* So does every step of the composition.
LEMMA ServiceStep == SuperTypeOK /\ ServiceInv /\ [SuperNext]_superVars => ServiceInv'
  <1> SUFFICES ASSUME SuperTypeOK, ServiceInv, [SuperNext]_superVars
               PROVE  ServiceInv'
    OBVIOUS
  <1>1. CASE Next
    BY <1>1, ServiceNext
  <1>2. CASE UNCHANGED vars
    BY <1>2 DEF vars, ServiceInv, JiveInv, FateInv, RebootHasReason
  <1>3. CASE CheckMonitor
    BY <1>3 DEF CheckMonitor, ServiceInv, JiveInv, FateInv, RebootHasReason
  <1> QED
    BY <1>1, <1>2, <1>3, MonitorSteps DEF SuperNext, superVars

(***************************************************************************)
(* There are never two SqueezePlays that nobody has told to end, for any   *)
(* number of processes, scripts, crashes and slow exits.                   *)
(***************************************************************************)
THEOREM AtMostOne == SuperSpec => []OneSqueezePlay
  <1>1. ServiceInv => OneSqueezePlay
    <2> SUFFICES ASSUME ServiceInv
                 PROVE  Cardinality(Jives) <= 1
      BY DEF OneSqueezePlay
    <2>1. \A p, q \in Jives : p = q
      BY DEF ServiceInv, JiveInv, Jives
    <2>2. CASE Jives = {}
      BY <2>2, FS_EmptySet
    <2>3. CASE Jives # {}
      <3>1. PICK p \in Jives : TRUE
        BY <2>3
      <3>2. Jives = {p}
        BY <2>1, <3>1
      <3> QED
        <4>1. IsFiniteSet({p}) /\ Cardinality({p}) = 1
          BY FS_Singleton
        <4> QED
          BY <3>2, <4>1
    <2> QED
      BY <2>2, <2>3
  <1> QED
    BY <1>1, TypeCorrect, ServiceInit, ServiceStep, PTL DEF SuperSpec

(***************************************************************************)
(* A reboot over SqueezePlay's pid file has a reason: a crash, the end of  *)
(* the stand-in, or the script's own window between kill and rm.           *)
(***************************************************************************)
THEOREM RebootsHaveReason == SuperSpec => []RebootHasReason
  <1>1. ServiceInv => RebootHasReason
    BY DEF ServiceInv
  <1> QED
    BY <1>1, TypeCorrect, ServiceInit, ServiceStep, PTL DEF SuperSpec

-----------------------------------------------------------------------------

\* The left side of CrashNoticed: SqueezePlay has crashed, and no script is at work.
CrashLeft(p) ==
    fate[p] = "crashed" /\ last = p /\ job \in {"start", "restart"} /\ step = "done"

\* The daemon finds a pid without a process.
PidIsStale == pidfile # NoPid /\ ~Alive(pidfile)

(***************************************************************************)
(* Where the script is tells what is in the pid file: an older process     *)
(* only from the fork to the echo, and no process only after an rm.        *)
(***************************************************************************)
LastInv ==
    /\ pidfile # NoPid => pidfile = last \/ step = "echo"
    /\ (job \in {"start", "restart"} /\ step = "done") => pidfile # NoPid

\* A crash is what happened to a process that has ended.
CrashedInv == \A p \in Pids : fate[p] \in {"crashed", "expired"} => proc[p] = "ended"

\* The inductive invariant of the pid file.
RecordInv == LastInv /\ CrashedInv

\* Every step of the composition keeps what the pid file says of the last process.
LEMMA RecordStep == SuperTypeOK /\ EchoInv /\ FateInv /\ RecordInv /\ [SuperNext]_superVars => RecordInv'
  <1> SUFFICES ASSUME SuperTypeOK, EchoInv, FateInv, RecordInv, [SuperNext]_superVars
               PROVE  RecordInv'
    OBVIOUS
  <1> USE ConstantsOK DEF RecordInv, LastInv, CrashedInv, Pids
  <1>0. TypeOK
    BY DEF SuperTypeOK
  <1>1. ASSUME NEW arg \in {"start", "stop", "stopwdog", "restart"}, Run(arg)
        PROVE  RecordInv'
    BY <1>1 DEF Run
  <1>2. CASE Test
    BY <1>2 DEF Test, Alive
  <1>3. CASE Fork
    <2>1. last + 1 \in Pids /\ proc[last + 1] = "unused" /\ fate[last + 1] = "none"
      BY <1>0, <1>3 DEF Fork, FateInv, TypeOK
    <2> QED
      BY <1>0, <1>3, <2>1 DEF Fork, TypeOK
  <1>4. CASE Echo
    BY <1>0, <1>4 DEF Echo, EchoInv, TypeOK
  <1>5. CASE Kill
    BY <1>0, <1>5 DEF Kill, AfterStop, Alive, TypeOK
  <1>6. CASE Rm
    BY <1>0, <1>6 DEF Rm, AfterStop, TypeOK
  <1>7. ASSUME NEW p \in Pids, ProcessEnds(p)
        PROVE  RecordInv'
    BY <1>0, <1>7 DEF ProcessEnds, Alive, TypeOK
  <1>8. CASE CheckPidfile \/ CheckMonitor
    BY <1>8 DEF CheckPidfile, CheckMonitor
  <1>9. CASE UNCHANGED vars
    BY <1>9 DEF vars
  <1> QED
    BY <1>1, <1>2, <1>3, <1>4, <1>5, <1>6, <1>7, <1>8, <1>9, MonitorSteps
       DEF SuperNext, Next, Script, Finished, superVars

\* After a crash the daemon finds a stale pid.
CrashRecorded == \A p \in Pids : CrashLeft(p) => PidIsStale

\* It is there until the daemon reboots or a script goes to work.
CrashStays ==
    [][\A p \in Pids : CrashLeft(p) => CrashLeft(p)' \/ Rebooted' \/ step' # "done"]_superVars

(***************************************************************************)
(* The safe half of CrashNoticed, for any number of processes: whatever    *)
(* starts, stops and refusals came before, a crash after start or restart  *)
(* leaves a pid file that the daemon's check fails on, and it stays so     *)
(* until the daemon reboots or somebody runs the script.                   *)
(***************************************************************************)
THEOREM CrashIsRecorded == SuperSpec => []CrashRecorded /\ CrashStays
  <1>1. SuperInit => RecordInv
    BY ConstantsOK DEF SuperInit, Init, RecordInv, LastInv, CrashedInv, Pids
  <1>2. RecordInv => CrashRecorded
    BY DEF RecordInv, LastInv, CrashedInv, CrashRecorded, CrashLeft, PidIsStale, Alive
  <1>3. MonInv /\ RecordInv /\ [SuperNext]_superVars
          => [\A p \in Pids : CrashLeft(p) => CrashLeft(p)' \/ Rebooted' \/ step' # "done"]_superVars
    <2> SUFFICES ASSUME MonInv, RecordInv, SuperNext, NEW p \in Pids, CrashLeft(p),
                        ~Rebooted', step' = "done"
                 PROVE  CrashLeft(p)'
      OBVIOUS
    <2>0. proc[p] = "ended" /\ step = "done"
      BY DEF RecordInv, CrashedInv, CrashLeft
    <2>1. CASE \E arg \in {"start", "stop", "stopwdog", "restart"} : Run(arg)
      BY <2>1 DEF Run
    <2>2. ASSUME NEW q \in Pids, ProcessEnds(q)
          PROVE  CrashLeft(p)'
      <3>1. q # p
        BY <2>0, <2>2 DEF ProcessEnds, Alive
      <3> QED
        BY <2>2, <3>1 DEF ProcessEnds, CrashLeft, MonInv, SuperTypeOK, TypeOK
    <2>3. CASE CheckPidfile \/ CheckMonitor
      BY <2>3 DEF CheckPidfile, CheckMonitor, Rebooted
    <2>4. CASE UNCHANGED vars
      BY <2>4 DEF vars, CrashLeft
    <2> QED
      BY <2>0, <2>1, <2>2, <2>3, <2>4, MonitorSteps
         DEF SuperNext, Next, Script, Test, Fork, Echo, Kill, Rm, Finished
  <1>4. MonInv => SuperTypeOK /\ EchoInv
    BY DEF MonInv
  <1>5. ServiceInv => FateInv
    BY DEF ServiceInv
  <1> QED
    BY <1>1, <1>2, <1>3, <1>4, <1>5, RecordStep, MonInit, MonStep, ServiceInit, ServiceStep, PTL
       DEF SuperSpec, CrashStays

-----------------------------------------------------------------------------

\* The left side of DeadChipNoticed, and what it turns into.
ChipLeft == chip = "dead" /\ mon = "running" /\ monpid = "current" /\ monstep = "done"
\* The monitor has exited and left its pid file, which the daemon finds.
MonitorGone == monpid = "current" /\ mon = "exited" /\ monstep = "done"

\* Every read of a dead chip is counted, or is the last one.
CountedStep ==
    /\ ChipLeft => \/ ChipLeft' /\ fails' \in fails..MAX_CONSECUTIVE_FAIL_COUNT
                   \/ MonitorGone' \/ Rebooted' \/ monstep' # "done"
    /\ (ChipLeft /\ (ReadOk \/ ReadFails)) => fails' = fails + 1
    /\ MonitorGone => MonitorGone' \/ Rebooted' \/ monstep' # "done"

\* CountedStep, of every step.
DeadChipCounted == [][CountedStep]_superVars

(***************************************************************************)
(* The safe half of DeadChipNoticed, for any limit: a monitor that reads a *)
(* dead chip counts every read, is never past the limit while it runs, and *)
(* leaves a stale pid file behind that stays until the daemon reboots or   *)
(* somebody runs the monitor's script.                                     *)
(***************************************************************************)
THEOREM DeadChipIsCounted == SuperSpec => DeadChipCounted
  <1>1. MonInv /\ MonInv' /\ [SuperNext]_superVars => [CountedStep]_superVars
    <2> SUFFICES ASSUME MonInv, MonInv', SuperNext
                 PROVE  CountedStep
      OBVIOUS
    <2> USE FailCountOK DEF CountedStep, ChipLeft, MonitorGone
    <2>0. (ChipLeft /\ (ReadOk \/ ReadFails)) => fails' = fails + 1
      BY DEF ReadOk, ReadFails
    <2>1. /\ fails \in Int /\ fails' \in Int
          /\ mon = "running" => fails <= MAX_CONSECUTIVE_FAIL_COUNT
          /\ mon' = "running" => fails' <= MAX_CONSECUTIVE_FAIL_COUNT
      BY DEF MonInv, SuperTypeOK, CountInv
    <2>2. CASE Next /\ UNCHANGED <<chip, monVars, monScript>>
      BY <2>0, <2>1, <2>2 DEF monVars, monScript
    <2>3. CASE MonTest \/ MonFork \/ MonEcho \/ MonKill \/ MonRm
      BY <2>0, <2>3 DEF MonTest, MonFork, MonEcho, MonKill, MonRm
    <2>4. ASSUME NEW arg \in {"start", "stop", "restart"}, MonRun(arg)
          PROVE  monstep' # "done"
      BY <2>4 DEF MonRun
    <2>5. CASE ChipDies
      BY <2>0, <2>1, <2>5 DEF ChipDies, monVars, monScript
    <2>6. CASE ReadOk
      BY <2>0, <2>6 DEF ReadOk
    <2>7. CASE ReadFails
      BY <2>0, <2>1, <2>7 DEF ReadFails, monScript
    <2>8. CASE CheckMonitor
      BY <2>0, <2>8 DEF CheckMonitor, Rebooted
    <2> QED
      BY <2>0, <2>2, <2>3, <2>4, <2>5, <2>6, <2>7, <2>8 DEF SuperNext, MonitorNext
  <1> QED
    BY <1>1, MonInit, MonStep, PTL DEF SuperSpec, DeadChipCounted
=============================================================================
