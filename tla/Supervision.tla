----------------------------- MODULE Supervision ----------------------------
(***************************************************************************)
(* What the watchdog daemon of the Radio supervises by pid file: the       *)
(* SqueezePlay service (SqueezePlayService) and the monitor of the MSP430, *)
(* a program that reads the version of the chip's firmware every second    *)
(* and exits when the chip does not answer (monitor_msp430.c), with the    *)
(* script that starts and stops it (monitor_msp430.sh).                    *)
(***************************************************************************)
EXTENDS SqueezePlayService

CONSTANTS
    MAX_CONSECUTIVE_FAIL_COUNT

ASSUME FailCountOK == MAX_CONSECUTIVE_FAIL_COUNT \in Nat

VARIABLES
    chip,      \* the MSP430: works (it may miss a request), dead
    mon,       \* the monitor: none, running, exited, killed
    fails,     \* consecutive_fail_count
    missed,    \* requests the chip did not answer since it last did (history)
    silent,    \* a monitor exited over a silent chip since the last rm (history)
    monpid,    \* /var/run/monitor_msp430.pid: none, current, old
    monjob,    \* the script's argument: start, stop, restart
    monstep    \* its next command: test, fork, echo, kill, rm, done

monVars == <<mon, fails, missed, silent, monpid>>
monScript == <<monjob, monstep>>
superVars == <<vars, chip, monVars, monScript>>

SuperInit ==
    /\ Init
    /\ chip = "works"
    /\ mon = "none" /\ fails = 0 /\ missed = 0 /\ silent = FALSE /\ monpid = "none"
    /\ monjob = "start" /\ monstep = "test"

-----------------------------------------------------------------------------

MonRun(arg) ==
    /\ ~Rebooted /\ monstep = "done"
    /\ monjob' = arg
    /\ monstep' = IF arg = "start" THEN "test" ELSE "kill"
    /\ UNCHANGED <<vars, chip, monVars>>

\* start: refuse if the process in the pid file is there.
MonTest ==
    /\ ~Rebooted /\ monstep = "test"
    /\ monstep' = IF monpid = "current" /\ mon = "running" THEN "done" ELSE "fork"
    /\ UNCHANGED <<vars, chip, monVars, monjob>>

\* monitor_msp430 &; a pid file that is there names an older process.
MonFork ==
    /\ ~Rebooted /\ monstep = "fork"
    /\ monstep' = "echo"
    /\ mon' = "running" /\ fails' = 0
    /\ monpid' = IF monpid = "none" THEN "none" ELSE "old"
    /\ UNCHANGED <<vars, chip, missed, silent, monjob>>

MonEcho ==
    /\ ~Rebooted /\ monstep = "echo"
    /\ monstep' = "done" /\ monpid' = "current"
    /\ UNCHANGED <<vars, chip, mon, fails, missed, silent, monjob>>

\* stop and restart: kill $(cat pid)
MonKill ==
    /\ ~Rebooted /\ monstep = "kill"
    /\ monstep' = IF monpid # "none" THEN "rm" ELSE IF monjob = "restart" THEN "test" ELSE "done"
    /\ mon' = IF monpid = "current" /\ mon = "running" THEN "killed" ELSE mon
    /\ UNCHANGED <<vars, chip, fails, missed, silent, monpid, monjob>>

MonRm ==
    /\ ~Rebooted /\ monstep = "rm"
    /\ monstep' = IF monjob = "restart" THEN "test" ELSE "done"
    /\ monpid' = "none" /\ silent' = FALSE
    /\ UNCHANGED <<vars, chip, mon, fails, missed, monjob>>

-----------------------------------------------------------------------------

\* The chip fails for good.
ChipDies ==
    /\ chip = "works"
    /\ chip' = "dead"
    /\ UNCHANGED <<vars, monVars, monScript>>

\* Faulty variant: an answer does not reset the count.
ReadOkForgetful ==
    /\ ~Rebooted /\ mon = "running" /\ chip = "works"
    /\ missed' = 0
    /\ UNCHANGED <<vars, chip, mon, fails, silent, monpid, monScript>>

\* One round of the monitor, when the chip answers.
ReadOk ==
    /\ ~Rebooted /\ mon = "running" /\ chip = "works"
    /\ fails' = 0 /\ missed' = 0
    /\ UNCHANGED <<vars, chip, mon, silent, monpid, monScript>>

\* Faulty variant: the count stops at its limit.
ReadFailsSaturated ==
    /\ ~Rebooted /\ mon = "running"
    /\ fails' = IF fails < MAX_CONSECUTIVE_FAIL_COUNT THEN fails + 1 ELSE fails
    /\ missed' = IF missed > MAX_CONSECUTIVE_FAIL_COUNT THEN missed ELSE missed + 1
    /\ mon' = IF fails' > MAX_CONSECUTIVE_FAIL_COUNT THEN "exited" ELSE mon
    /\ silent' = (silent \/ (mon' = "exited" /\ missed' > MAX_CONSECUTIVE_FAIL_COUNT))
    /\ UNCHANGED <<vars, chip, monpid, monScript>>

\* One round when it does not.
ReadFails ==
    /\ ~Rebooted /\ mon = "running"
    /\ fails' = fails + 1
    /\ missed' = IF missed > MAX_CONSECUTIVE_FAIL_COUNT THEN missed ELSE missed + 1
    /\ mon' = IF fails' > MAX_CONSECUTIVE_FAIL_COUNT THEN "exited" ELSE mon
    /\ silent' = (silent \/ (mon' = "exited" /\ missed' > MAX_CONSECUTIVE_FAIL_COUNT))
    /\ UNCHANGED <<vars, chip, monpid, monScript>>

\* The daemon's check of the second pid file.
CheckMonitor ==
    /\ ~Rebooted
    /\ monpid = "old" \/ (monpid = "current" /\ mon # "running")
    /\ rebooted' = "monitor"
    /\ UNCHANGED <<pidfile, proc, fate, last, job, step, told, chip, monVars, monScript>>

MonitorNext ==
    \/ \E arg \in {"start", "stop", "restart"} : MonRun(arg)
    \/ MonTest \/ MonFork \/ MonEcho \/ MonKill \/ MonRm
    \/ ChipDies \/ ReadOk \/ ReadFails
    \/ CheckMonitor

SuperNext == (Next /\ UNCHANGED <<chip, monVars, monScript>>) \/ MonitorNext

\* The daemon checks every 5 s; the monitor reads every second.
SuperSpec ==
    /\ SuperInit /\ [][SuperNext]_superVars
    /\ WF_superVars(CheckPidfile /\ UNCHANGED <<chip, monVars, monScript>>)
    /\ WF_superVars(CheckMonitor)
    /\ WF_superVars(ReadOk \/ ReadFails)

-----------------------------------------------------------------------------

\* The variables have the types the programs and scripts give them.
SuperTypeOK ==
    /\ TypeOK
    /\ chip \in {"works", "dead"}
    /\ mon \in {"none", "running", "exited", "killed"}
    /\ fails \in 0..(MAX_CONSECUTIVE_FAIL_COUNT + 1)
    /\ missed \in 0..(MAX_CONSECUTIVE_FAIL_COUNT + 1)
    /\ silent \in BOOLEAN
    /\ monpid \in {"none", "current", "old"}
    /\ monjob \in {"start", "stop", "restart"}
    /\ monstep \in {"test", "fork", "echo", "kill", "rm", "done"}

(***************************************************************************)
(* A reboot because of the monitor's pid file has a reason: the chip left  *)
(* more requests unanswered in a row than allowed.  A monitor the script   *)
(* has killed only matters in the script's own window between kill and rm. *)
(***************************************************************************)
ChipWasSilent ==
    rebooted = "monitor" => (silent \/ monstep = "rm")

(***************************************************************************)
(* A dead MSP430 is noticed: the device reboots, unless somebody uses the  *)
(* script of the monitor first.                                            *)
(***************************************************************************)
DeadChipNoticed ==
    (chip = "dead" /\ mon = "running" /\ monpid = "current" /\ monstep = "done")
        ~> (Rebooted \/ monstep # "done")
=============================================================================
