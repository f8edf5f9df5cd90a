------------------------------ MODULE Watchdog ------------------------------
(***************************************************************************)
(* The semaphore monitor that watchdog-semaphore.patch adds to the         *)
(* watchdog daemon, and the client library it ships as examples/sem_ping.c.*)
(*                                                                         *)
(* A System V semaphore set holds pairs: the even semaphore is 1 while the *)
(* pair is free and 0 while a client is monitored (active), the odd one    *)
(* counts the check intervals the client has left.  The daemon creates the *)
(* set and then sets the even semaphores one by one; each check interval   *)
(* check_semaphore walks over the set and takes one from each count.       *)
(* semctl and semop are atomic, the walk and the initialisation are not.   *)
(*                                                                         *)
(* Time is abstracted to what the defaults guarantee: a client that runs   *)
(* pings once a second, the daemon checks every 5 s, so every running      *)
(* client pings between two checks.                                        *)
(***************************************************************************)
EXTENDS Integers, FiniteSets

CONSTANTS
    Clients,      \* processes that use sem_ping.c
    NumPairs,     \* NUM_SEMS / 2: pairs in the set the daemon creates
    ClientPairs,  \* pairs in the set a client creates: semget(key, 10)
    MaxCount,     \* most intervals a keepalive asks for
    CountCap,     \* bound on a count: SEMVMX in the kernel
    MaxRestarts   \* bound on the daemon's restarts

ASSUME ConstantsOK ==
    /\ NumPairs \in Nat \ {0}
    /\ ClientPairs \in 1..(NumPairs - 1)
    /\ MaxCount \in Nat \ {0}
    /\ CountCap \in Nat /\ MaxCount <= CountCap
    /\ MaxRestarts \in Nat

PairIds == 0..(NumPairs - 1)

VARIABLES
    size,      \* pairs in the semaphore set; 0: there is none
    active,    \* the even semaphores
    count,     \* the odd semaphores
    wpc,       \* where the daemon is
    semid,     \* semid # -1
    sem,       \* sem_num / 2, of the initialisation and of the walk
    restarts,  \* how often the daemon was started again
    rebooted,  \* the daemon has shut the system down
    cpc,       \* where each client is
    slot,      \* the pair each client probes or holds
    nowayout,  \* its nowayout argument
    pinged     \* clients that pinged since the last check ended

dvars == <<wpc, semid, sem, restarts, rebooted>>
cvars == <<cpc, slot, nowayout>>
vars  == <<size, active, count, dvars, cvars, pinged>>

Init ==
    /\ size = 0
    /\ active = [p \in PairIds |-> 0]
    /\ count = [p \in PairIds |-> 0]
    /\ wpc = "open"
    /\ semid = FALSE
    /\ sem = 0
    /\ restarts = 0
    /\ rebooted = FALSE
    /\ cpc = [c \in Clients |-> "new"]
    /\ slot = [c \in Clients |-> 0]
    /\ nowayout \in [Clients -> BOOLEAN]
    /\ pinged = {}

Running(c) == cpc[c] = "run"
At(c, where) == ~rebooted /\ cpc[c] = where
\* Clients whose pair stays active although they no longer ping.
Lost(c) == cpc[c] \in {"hung", "dead"}

-----------------------------------------------------------------------------

\* Faulty variant: a restarted daemon initialises the set again.
SemOpenReinit ==
    /\ wpc = "open"
    /\ IF size = NumPairs
       THEN wpc' = "setval" /\ semid' = TRUE
       ELSE wpc' = "create" /\ UNCHANGED semid
    /\ UNCHANGED <<size, active, count, sem, restarts, rebooted, cvars, pinged>>

\* semget(semkey, NUM_SEMS, 0): fails on a missing or a smaller set.
SemOpen ==
    /\ wpc = "open"
    /\ IF size = NumPairs
       THEN wpc' = "sleep" /\ semid' = TRUE
       ELSE wpc' = "create" /\ UNCHANGED semid
    /\ UNCHANGED <<size, active, count, sem, restarts, rebooted, cvars, pinged>>

\* semget(semkey, NUM_SEMS, IPC_CREAT): fails if a client was first.
SemCreate ==
    /\ wpc = "create"
    /\ IF size = 0
       THEN size' = NumPairs /\ semid' = TRUE /\ wpc' = "setval"
       ELSE wpc' = "sleep" /\ UNCHANGED <<size, semid>>
    /\ sem' = 0
    /\ UNCHANGED <<active, count, restarts, rebooted, cvars, pinged>>

\* semctl(semid, sem_num, SETVAL, 1), one turn of the loop.
SetVal ==
    /\ wpc = "setval"
    /\ active' = [active EXCEPT ![sem] = 1]
    /\ sem' = IF sem + 1 = NumPairs THEN 0 ELSE sem + 1
    /\ wpc' = IF sem + 1 = NumPairs THEN "sleep" ELSE wpc
    /\ UNCHANGED <<size, count, semid, restarts, rebooted, cvars, pinged>>

\* check_semaphore without a set: it returns at once.
CheckNothing ==
    /\ wpc = "sleep" /\ ~semid
    /\ pinged' = {}
    /\ UNCHANGED <<size, active, count, dvars, cvars>>

\* The main loop calls check_semaphore.
CheckStart ==
    /\ wpc = "sleep" /\ semid
    /\ \A c \in Clients : Running(c) => c \in pinged
    /\ sem' = 0
    /\ wpc' = "getval"
    /\ UNCHANGED <<size, active, count, semid, restarts, rebooted, cvars, pinged>>

\* sem_num after one turn: the loop header and the last line both add 2.
NextSem == sem + 2

Advance ==
    IF NextSem < NumPairs
    THEN sem' = NextSem /\ wpc' = "getval" /\ UNCHANGED pinged
    ELSE sem' = 0 /\ wpc' = "sleep" /\ pinged' = {}

\* active = semctl(semid, sem_num, GETVAL).
GetVal ==
    /\ wpc = "getval"
    /\ IF active[sem] = 0
       THEN wpc' = "semop" /\ UNCHANGED <<sem, pinged>>
       ELSE Advance
    /\ UNCHANGED <<size, active, count, semid, restarts, rebooted, cvars>>

\* Faulty variant: EAGAIN is logged like any other error.
SemOpNoFailure ==
    /\ wpc = "semop"
    /\ count' = IF count[sem] > 0 THEN [count EXCEPT ![sem] = @ - 1] ELSE count
    /\ Advance
    /\ UNCHANGED <<size, active, semid, restarts, rebooted, cvars>>

\* semop(sem_num + 1, -1, IPC_NOWAIT), or EAGAIN: ENOCHANGE, and do_check
\* shuts the system down.
SemOp ==
    /\ wpc = "semop"
    /\ IF count[sem] > 0
       THEN /\ count' = [count EXCEPT ![sem] = @ - 1]
            /\ Advance
            /\ UNCHANGED rebooted
       ELSE /\ rebooted' = TRUE
            /\ wpc' = "down"
            /\ UNCHANGED <<count, sem, pinged>>
    /\ UNCHANGED <<size, active, semid, restarts, cvars>>

\* The daemon is killed outside its initialisation and started again; the set outlives it.
Restart ==
    /\ ~rebooted
    /\ wpc \notin {"open", "create", "setval"}
    /\ restarts < MaxRestarts
    /\ restarts' = restarts + 1
    /\ wpc' = "open" /\ semid' = FALSE /\ sem' = 0 /\ pinged' = {}
    /\ UNCHANGED <<size, active, count, rebooted, cvars>>

Daemon ==
    \/ SemOpen \/ SemCreate \/ SetVal
    \/ CheckNothing \/ CheckStart \/ GetVal \/ SemOp

-----------------------------------------------------------------------------

\* watchdog_sem_get: semget(key, 10, IPC_CREAT).
ClientOpen(c) ==
    /\ At(c, "new")
    /\ size' = IF size = 0 THEN ClientPairs ELSE size
    /\ cpc' = [cpc EXCEPT ![c] = "get"]
    /\ slot' = [slot EXCEPT ![c] = 0]
    /\ UNCHANGED <<active, count, dvars, nowayout, pinged>>

\* Faulty variant: without the second operation of sops.
ClientGetNoInterval(c) ==
    LET p == slot[c]
    IN  /\ At(c, "get")
        /\ IF p >= size
           THEN cpc' = [cpc EXCEPT ![c] = "failed"] /\ UNCHANGED <<active, slot, pinged>>
           ELSE IF active[p] = 0
           THEN slot' = [slot EXCEPT ![c] = p + 1] /\ UNCHANGED <<active, cpc, pinged>>
           ELSE /\ active' = [active EXCEPT ![p] = @ - 1]
                /\ cpc' = [cpc EXCEPT ![c] = "run"]
                /\ pinged' = pinged \cup {c}
                /\ UNCHANGED slot
        /\ UNCHANGED <<size, count, dvars, nowayout>>

\* One turn of its loop: take the pair and give it one interval, both or
\* neither; EAGAIN tries the next pair, EFBIG gives up.
ClientGet(c) ==
    LET p == slot[c]
    IN  /\ At(c, "get")
        /\ IF p >= size
           THEN cpc' = [cpc EXCEPT ![c] = "failed"] /\ UNCHANGED <<active, count, slot, pinged>>
           ELSE IF active[p] = 0
           THEN slot' = [slot EXCEPT ![c] = p + 1] /\ UNCHANGED <<active, count, cpc, pinged>>
           ELSE /\ count[p] < CountCap
                /\ active' = [active EXCEPT ![p] = @ - 1]
                /\ count' = [count EXCEPT ![p] = @ + 1]
                /\ cpc' = [cpc EXCEPT ![c] = "run"]
                /\ pinged' = pinged \cup {c}
                /\ UNCHANGED slot
        /\ UNCHANGED <<size, dvars, nowayout>>

\* watchdog_sem_keepalive(wdog_id, n).
Keepalive(c, n) ==
    /\ At(c, "run")
    /\ count' = [count EXCEPT ![slot[c]] = n]
    /\ pinged' = pinged \cup {c}
    /\ UNCHANGED <<size, active, dvars, cvars>>

\* The process ends: SEM_UNDO frees the pair unless nowayout was given.
ClientExit(c) ==
    /\ At(c, "run")
    /\ IF nowayout[c]
       THEN cpc' = [cpc EXCEPT ![c] = "dead"] /\ UNCHANGED active
       ELSE /\ cpc' = [cpc EXCEPT ![c] = "new"]
            /\ active' = [active EXCEPT ![slot[c]] = @ + 1]
    /\ UNCHANGED <<size, count, dvars, slot, nowayout, pinged>>

\* The process keeps running and stops pinging.
ClientHang(c) ==
    /\ At(c, "run")
    /\ cpc' = [cpc EXCEPT ![c] = "hung"]
    /\ UNCHANGED <<size, active, count, dvars, slot, nowayout, pinged>>

ClientStep(c) ==
    \/ ClientOpen(c) \/ ClientGet(c) \/ ClientExit(c) \/ ClientHang(c)
    \/ \E n \in 1..MaxCount : Keepalive(c, n)

Halted == rebooted /\ UNCHANGED vars

Next ==
    \/ Daemon
    \/ \E c \in Clients : ClientStep(c)
    \/ Restart
    \/ Halted

Spec == Init /\ [][Next]_vars

(***************************************************************************)
(* The daemon runs with realtime priority, and a running client pings:     *)
(* both take a step they can take for ever.                                *)
(***************************************************************************)
Fairness ==
    /\ WF_vars(Daemon)
    /\ \A c \in Clients : WF_vars(c \notin pinged /\ \E n \in 1..MaxCount : Keepalive(c, n))

FairSpec == Spec /\ Fairness

-----------------------------------------------------------------------------

\* The variables have the types the code gives them.
TypeOK ==
    /\ size \in {0, ClientPairs, NumPairs}
    /\ active \in [PairIds -> {0, 1}]
    /\ count \in [PairIds -> 0..CountCap]
    /\ wpc \in {"open", "create", "setval", "sleep", "getval", "semop", "down"}
    /\ semid \in BOOLEAN
    /\ sem \in PairIds
    /\ restarts \in 0..MaxRestarts
    /\ rebooted \in BOOLEAN
    /\ cpc \in [Clients -> {"new", "get", "run", "hung", "dead", "failed"}]
    /\ slot \in [Clients -> 0..NumPairs]
    /\ nowayout \in [Clients -> BOOLEAN]
    /\ pinged \in SUBSET Clients

Holds(c) == Running(c) \/ Lost(c)

(***************************************************************************)
(* No two clients share a pair, and a held pair stays active: neither the  *)
(* one-by-one initialisation of the set nor a restart of the daemon frees  *)
(* a pair that watchdog_sem_get has handed out.                            *)
(***************************************************************************)
PairsExclusive ==
    \A c \in Clients : Holds(c) =>
        /\ active[slot[c]] = 0
        /\ \A d \in Clients \ {c} : Holds(d) => slot[d] # slot[c]

(***************************************************************************)
(* check_semaphore reads the active flag and takes from the count in two   *)
(* calls while clients come and go; still the system is only shut down     *)
(* when a client really hangs or died under nowayout.                      *)
(***************************************************************************)
NoFalseReboot == rebooted => \E c \in Clients : Lost(c)

(***************************************************************************)
(* A client on a pair check_semaphore visits that stops pinging leads to a *)
(* reboot, however many clients ping and restart meanwhile.                *)
(***************************************************************************)
MonitoredReboots ==
    \A c \in Clients : (Lost(c) /\ slot[c] % 2 = 0) ~> rebooted

(***************************************************************************)
(* "If nowayout is true the watchdog remain active when the process exits, *)
(* causing a reboot" (watchdog_sem_get).                                   *)
(***************************************************************************)
NowayoutReboots == \A c \in Clients : cpc[c] = "dead" ~> rebooted

=============================================================================
