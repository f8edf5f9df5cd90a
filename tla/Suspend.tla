------------------------------ MODULE Suspend -------------------------------
(***************************************************************************)
(* Suspend and resume: the script /etc/init.d/suspend with the wireless    *)
(* network it stops and starts (Wlan) and the accelerometer whose settings *)
(* it replaces for the time of the sleep (Lis302dl).  One suspend script   *)
(* runs at a time; the start of wlan it leaves in the background goes on   *)
(* while the next one runs, and is frozen while the device sleeps.         *)
(*                                                                         *)
(* Network and accelerometer have nothing in common but the script, so a   *)
(* behaviour follows one of them: the script's other commands only take    *)
(* their place in its sequence.                                            *)
(***************************************************************************)
EXTENDS Wlan, Lis302dl

VARIABLES
    part,      \* what the behaviour follows: wlan, lis
    pc,        \* the script: idle, stop, set, resume, mem, restore, start
    asleep,
    resume_en, \* the accelerometer may wake the device
    saved,     \* the text the script has read
    before,    \* the setting when the script read it (history)
    wrote      \* an application has written since then (history)

scriptVars == <<part, pc, asleep, resume_en, saved, before, wrote>>
vars == <<wlanVars, lisVars, scriptVars>>

Init ==
    /\ WlanInit /\ LisInit
    /\ part \in {"wlan", "lis"} /\ (part = "wlan" => attr = "config")
    /\ pc = "idle" /\ asleep = FALSE /\ resume_en = FALSE
    /\ saved = None /\ before = Default[attr] /\ wrote = FALSE

-----------------------------------------------------------------------------

\* A bound: a suspend that met a start of wlan is the last one.
LastSuspend == "start" \in busy

\* /etc/init.d/suspend is called, and begins with wlan stop.
Begin ==
    /\ pc = "idle" /\ ~LastSuspend
    /\ pc' = "stop"
    /\ stop' = IF part = "wlan" THEN "kill" ELSE stop
    /\ UNCHANGED <<ifVars, procVars, zcipVars, waitfor, busy, wpa, kick, lisVars>>
    /\ UNCHANGED <<part, asleep, resume_en, saved, before, wrote>>

\* CONFIG=`cat config` and so on, when wlan stop has returned.
Save ==
    /\ pc = "stop" /\ stop = "idle"
    /\ pc' = "set" /\ saved' = Shown(data)
    /\ before' = data /\ wrote' = FALSE
    /\ UNCHANGED <<wlanVars, lisVars, part, asleep, resume_en>>

\* echo 4 > duration, echo 20 > threshold.
WakeValue == [duration |-> 4, threshold |-> 20]

Set ==
    /\ pc = "set"
    /\ pc' = "resume"
    /\ IF attr = "config" THEN UNCHANGED lisVars ELSE Store("script", WakeValue[attr])
    /\ UNCHANGED <<wlanVars, part, asleep, resume_en, saved, before, wrote>>

\* echo 1 > resume
Resume ==
    /\ pc = "resume" /\ storing["script"] = None
    /\ pc' = "mem" /\ resume_en' = TRUE
    /\ UNCHANGED <<wlanVars, lisVars, part, asleep, saved, before, wrote>>

\* echo mem > /sys/power/state
Mem ==
    /\ pc = "mem"
    /\ pc' = "restore" /\ asleep' = TRUE
    /\ UNCHANGED <<wlanVars, lisVars, part, resume_en, saved, before, wrote>>

\* jive_pm_enter returns (JiveMgmt).
Wake ==
    /\ asleep
    /\ asleep' = FALSE
    /\ UNCHANGED <<wlanVars, lisVars, part, pc, resume_en, saved, before, wrote>>

\* Faulty variant: the settings are put back to the driver's defaults.
RestoreDefault ==
    /\ pc = "restore"
    /\ pc' = "start" /\ saved' = None
    /\ Store("script", Default[attr])
    /\ UNCHANGED <<wlanVars, part, asleep, resume_en, before, wrote>>

\* echo $CONFIG > config and so on: the driver refuses what it has shown as negative.
Restore ==
    /\ pc = "restore"
    /\ pc' = "start" /\ saved' = None
    /\ Store("script", saved)
    /\ UNCHANGED <<wlanVars, part, asleep, resume_en, before, wrote>>

\* wlan start resume &
Start ==
    /\ pc = "start" /\ storing["script"] = None
    /\ pc' = "idle"
    /\ IF part = "wlan" THEN \E i \in Starts : Spawn(i) ELSE UNCHANGED wlanVars
    /\ UNCHANGED <<lisVars, part, asleep, resume_en, saved, before, wrote>>

\* An application writes to the file.
AppStore ==
    /\ \E v \in AppValues : Store("app", v)
    /\ wrote' = TRUE
    /\ UNCHANGED <<wlanVars, part, pc, asleep, resume_en, saved, before>>

Finished == pc = "idle" /\ LastSuspend /\ UNCHANGED vars

ScriptNext == Begin \/ Save \/ Set \/ Resume \/ Mem \/ Restore \/ Start

\* A step of the network's programs, or of the accelerometer's driver.
Net(A) == part = "wlan" /\ ~asleep /\ A /\ UNCHANGED <<lisVars, scriptVars>>
Lis(A) == part = "lis" /\ ~asleep /\ A /\ UNCHANGED <<wlanVars, scriptVars>>

Next ==
    \/ ~asleep /\ ScriptNext
    \/ Net(StopStep) \/ Net(ScriptStep)
    \/ \E i \in Starts : Net(StartStep(i)) \/ Net(UdhcpcStep(i))
    \/ Lis(Irq) \/ Lis(WorkRead) \/ Lis(WorkReport)
    \/ \E w \in Writers : Lis(StoreWrite(w)) \/ Lis(StoreWriteFails(w))
    \/ part = "lis" /\ ~asleep /\ AppStore
    \/ part = "lis" /\ Motion /\ UNCHANGED <<wlanVars, scriptVars>>
    \/ Wake
    \/ Finished

\* Scripts, begun programs, signals and the work queue make progress; the accelerometer
\* wakes the device.
Spec ==
    /\ Init /\ [][Next]_vars
    /\ WF_vars(~asleep /\ ScriptNext /\ pc # "idle") /\ WF_vars(Net(StopStep))
    /\ WF_vars(Wake /\ line /\ resume_en)
    /\ SF_vars(Lis(Irq \/ WorkRead \/ WorkReport))
    /\ WF_vars(Lis(StoreWrite("script") \/ StoreWriteFails("script"))) /\ WF_vars(Net(KickKill))
    /\ \A i \in Starts :
        /\ WF_vars(Net(StartStep(i)))
        /\ WF_vars(Net(SignalPipe(i) \/ WritePid(i) \/ HandleTerm(i)
                       \/ (dhcp[i] = "deconfig" /\ Deconfig(i))))

-----------------------------------------------------------------------------

\* The variables have the types the scripts and the driver give them.
TypeOK ==
    /\ WlanTypeOK /\ LisTypeOK
    /\ part \in {"wlan", "lis"}
    /\ pc \in {"idle", "stop", "set", "resume", "mem", "restore", "start"}
    /\ asleep \in BOOLEAN /\ resume_en \in BOOLEAN /\ wrote \in BOOLEAN
    /\ saved \in Int \cup {None} /\ before \in 0 .. Word - 1

(***************************************************************************)
(* The device sleeps with the settings for waking up, and has the ones     *)
(* from before when the script has ended, unless an application wrote the  *)
(* file in between or a write to the chip failed.  Threshold and duration  *)
(* come back only if the driver shows them as a number it reads again.     *)
(***************************************************************************)
SettingRestored ==
    (~wrote /\ ~lost /\ \A w \in Writers : storing[w] = None) =>
        /\ pc \in {"idle", "stop", "start"} /\ (attr = "config" \/ Readable(Shown(before)))
            => reg = before % Byte
        /\ asleep /\ attr # "config" => reg = WakeValue[attr]

(***************************************************************************)
(* The device sleeps without its wireless driver, and with nothing left of *)
(* the network, unless a start in the background or zcip was at work when  *)
(* the stop began.                                                         *)
(***************************************************************************)
SleepsStopped ==
    (part = "wlan" /\ asleep /\ busy = {}) =>
        ~drv /\ ~wpa /\ pidfile = NoStart /\ \A i \in Starts : dhcp[i] = "none"

(***************************************************************************)
(* The suspend script reaches the sleep: its wait for udhcpc, which has no *)
(* time limit, ends.                                                       *)
(***************************************************************************)
SuspendEnds == pc = "stop" ~> asleep

(***************************************************************************)
(* After a resume udhcpc runs again, unless the next suspend comes first   *)
(* or the last one met a start that was under way.                         *)
(***************************************************************************)
BackOnline ==
    (part = "wlan" /\ pc = "start" /\ "start" \notin busy)
        ~> (pc = "stop" \/ \E i \in Starts : dhcp[i] \in {"select", "bound"})

(***************************************************************************)
(* A motion is reported, also one that comes while the interrupt is off,   *)
(* while the device falls asleep or while it sleeps.                       *)
(***************************************************************************)
MotionReported == line ~> work = "read"
=============================================================================
