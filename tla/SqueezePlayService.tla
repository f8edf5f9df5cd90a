------------------------- MODULE SqueezePlayService -------------------------
(***************************************************************************)
(* The init script that starts and stops SqueezePlay                       *)
(* (base-files/files/squeezeplay) and the pid file through which the       *)
(* watchdog daemon supervises it (pidfile in watchdog.conf).               *)
(*                                                                         *)
(* One script runs at a time; its commands interleave with the daemon's    *)
(* checks and with the life of the processes: SqueezePlay may crash, needs *)
(* time to end after kill, and the sleep that stands in for it ends after  *)
(* its hour.                                                               *)
(***************************************************************************)
EXTENDS Integers, FiniteSets

CONSTANTS
    NoPid,     \* no pid file
    MaxPids    \* processes started in one behaviour

ASSUME ConstantsOK == MaxPids \in Nat \ {0} /\ NoPid \notin 1..MaxPids

Pids == 1..MaxPids

VARIABLES
    pidfile,   \* /var/run/squeezeplay.pid
    proc,      \* what each process is: unused, jive, sleep, ending, ended
    fate,      \* how it ended or will end (history)
    last,      \* the last pid handed out
    job,       \* the script's argument, and what it has still to do
    step,      \* the next command of the script
    told,      \* the exit status of the last start
    rebooted   \* the process whose end made the daemon reboot: no, squeezeplay, monitor

vars == <<pidfile, proc, fate, last, job, step, told, rebooted>>

Init ==
    /\ pidfile = NoPid
    /\ proc = [p \in Pids |-> "unused"]
    /\ fate = [p \in Pids |-> "none"]
    /\ last = 0
    /\ job = "start"
    /\ step = "test"
    /\ told = "none"
    /\ rebooted = "no"

Alive(p) == p # NoPid /\ proc[p] \in {"jive", "sleep", "ending"}

Rebooted == rebooted # "no"

Jives == {p \in Pids : proc[p] = "jive"}

-----------------------------------------------------------------------------

\* Somebody runs the script: stop, stopwdog and restart begin alike.
Run(arg) ==
    /\ ~Rebooted /\ step = "done"
    /\ job' = arg
    /\ step' = IF arg = "start" THEN "test" ELSE "kill"
    /\ UNCHANGED <<pidfile, proc, fate, last, told, rebooted>>

\* Faulty variant: start does not look at the process.
TestNothing ==
    /\ ~Rebooted /\ step = "test"
    /\ told' = "started" /\ step' = "fork"
    /\ UNCHANGED <<pidfile, proc, fate, last, job, rebooted>>

\* start: refuse if the process in the pid file is there.
Test ==
    /\ ~Rebooted /\ step = "test"
    /\ IF Alive(pidfile)
       THEN told' = "running" /\ step' = "done"
       ELSE told' = "started" /\ step' = "fork"
    /\ UNCHANGED <<pidfile, proc, fate, last, job, rebooted>>

\* /usr/bin/jive & of start, /bin/sleep 1h & of stopwdog.
Fork ==
    /\ ~Rebooted /\ step = "fork" /\ last < MaxPids
    /\ last' = last + 1
    /\ proc' = [proc EXCEPT ![last + 1] = IF job = "stopwdog" THEN "sleep" ELSE "jive"]
    /\ step' = "echo"
    /\ UNCHANGED <<pidfile, fate, job, told, rebooted>>

\* echo $! > /var/run/squeezeplay.pid
Echo ==
    /\ ~Rebooted /\ step = "echo"
    /\ pidfile' = last
    /\ step' = "done"
    /\ UNCHANGED <<proc, fate, last, job, told, rebooted>>

\* What follows the removal of the pid file.
AfterStop == CASE job = "stop" -> "done" [] job = "stopwdog" -> "fork" [] OTHER -> "test"

\* kill $(cat pid): SIGTERM, which jive takes some time to obey.
Kill ==
    /\ ~Rebooted /\ step = "kill"
    /\ IF pidfile = NoPid
       THEN step' = AfterStop /\ UNCHANGED <<proc, fate>>
       ELSE /\ step' = "rm"
            /\ IF Alive(pidfile)
               THEN /\ proc' = [proc EXCEPT ![pidfile] = "ending"]
                    /\ fate' = [fate EXCEPT ![pidfile] = "killed"]
               ELSE UNCHANGED <<proc, fate>>
    /\ UNCHANGED <<pidfile, last, job, told, rebooted>>

\* Faulty variant: the pid file is left behind.
RmNothing ==
    /\ ~Rebooted /\ step = "rm"
    /\ step' = AfterStop
    /\ UNCHANGED <<pidfile, proc, fate, last, job, told, rebooted>>

\* rm squeezeplay.pid (and .wdog)
Rm ==
    /\ ~Rebooted /\ step = "rm"
    /\ pidfile' = NoPid
    /\ step' = AfterStop
    /\ UNCHANGED <<proc, fate, last, job, told, rebooted>>

Script ==
    \/ Test \/ Fork \/ Echo \/ Kill \/ Rm
    \/ \E arg \in {"start", "stop", "stopwdog", "restart"} : Run(arg)

-----------------------------------------------------------------------------

\* A killed process ends; jive crashes; the hour of the sleep is over.
ProcessEnds(p) ==
    /\ ~Rebooted /\ Alive(p)
    /\ proc' = [proc EXCEPT ![p] = "ended"]
    /\ fate' = [fate EXCEPT ![p] = IF proc[p] = "jive" THEN "crashed"
                                   ELSE IF proc[p] = "sleep" THEN "expired" ELSE @]
    /\ UNCHANGED <<pidfile, last, job, step, told, rebooted>>

\* Faulty variant: repair.sh exits with 0, and the daemon takes it as repaired.
CheckPidfileRepaired ==
    /\ ~Rebooted
    /\ pidfile # NoPid /\ ~Alive(pidfile)
    /\ UNCHANGED vars

(***************************************************************************)
(* The daemon checks the pid file: a missing file is reported but is no    *)
(* failure, a pid without a process is, and repair.sh hands the failure    *)
(* back to the daemon, which reboots.                                      *)
(***************************************************************************)
CheckPidfile ==
    /\ ~Rebooted
    /\ pidfile # NoPid /\ ~Alive(pidfile)
    /\ rebooted' = "squeezeplay"
    /\ UNCHANGED <<pidfile, proc, fate, last, job, step, told>>

Finished == (Rebooted \/ last = MaxPids) /\ UNCHANGED vars

Next ==
    \/ Script
    \/ \E p \in Pids : ProcessEnds(p)
    \/ CheckPidfile
    \/ Finished

\* The daemon checks every 5 s, with realtime priority.
Spec == Init /\ [][Next]_vars /\ WF_vars(CheckPidfile)

-----------------------------------------------------------------------------

\* The variables have the types the script and the daemon give them.
TypeOK ==
    /\ pidfile \in Pids \cup {NoPid}
    /\ proc \in [Pids -> {"unused", "jive", "sleep", "ending", "ended"}]
    /\ fate \in [Pids -> {"none", "killed", "crashed", "expired"}]
    /\ last \in 0..MaxPids
    /\ job \in {"start", "stop", "stopwdog", "restart"}
    /\ step \in {"test", "fork", "echo", "kill", "rm", "done"}
    /\ told \in {"none", "started", "running"}
    /\ rebooted \in {"no", "squeezeplay", "monitor"}

(***************************************************************************)
(* There are never two SqueezePlays that nobody has told to end, whatever  *)
(* sequence of start, stop, stopwdog and restart is run.                   *)
(***************************************************************************)
OneSqueezePlay == Cardinality(Jives) <= 1

(***************************************************************************)
(* A reboot has a reason: the supervised process crashed or its stand-in   *)
(* expired.  A process the script has killed only matters in the script's  *)
(* own window between kill and rm.                                         *)
(***************************************************************************)
RebootHasReason ==
    rebooted = "squeezeplay" => (fate[pidfile] \in {"crashed", "expired"} \/ step = "rm")

(***************************************************************************)
(* A crash of a SqueezePlay that start or restart left running is noticed: *)
(* it ends in a reboot unless somebody runs the script first.              *)
(***************************************************************************)
CrashNoticed ==
    \A p \in Pids :
        (fate[p] = "crashed" /\ last = p /\ job \in {"start", "restart"} /\ step = "done")
            ~> (Rebooted \/ step # "done")
=============================================================================
