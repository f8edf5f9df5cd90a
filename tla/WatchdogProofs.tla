--------------------------- MODULE WatchdogProofs ---------------------------
(* Proofs about the semaphore monitor for any number of clients, pairs and restarts. *)
EXTENDS Watchdog, TLAPS

(***************************************************************************)
(* Where the pairs come from.  A set that is missing or was made by a      *)
(* client has no free pair, so nobody holds one; while the daemon sets up  *)
(* its own set, the pairs it has not come to are still taken and unheld.   *)
(***************************************************************************)
SetUpInv ==
    /\ size # NumPairs => \A p \in PairIds : active[p] = 0
    /\ size # NumPairs => \A c \in Clients : ~Holds(c)
    /\ wpc = "setval" =>
        /\ size = NumPairs
        /\ \A p \in PairIds : p >= sem => active[p] = 0
        /\ \A c \in Clients : Holds(c) => slot[c] < sem

\* PairsExclusive, with the range of a held pair.
HeldInv ==
    \A c \in Clients : Holds(c) =>
        /\ slot[c] \in PairIds
        /\ active[slot[c]] = 0
        /\ \A d \in Clients \ {c} : Holds(d) => slot[d] # slot[c]

\* The inductive invariant of the pairs.
PairsInv == TypeOK /\ SetUpInv /\ HeldInv

\* No client holds a pair before the set exists.
LEMMA PairsInit == Init => PairsInv
  <1> SUFFICES ASSUME Init PROVE PairsInv
    OBVIOUS
  <1> USE ConstantsOK DEF Init, PairIds
  <1>1. semid \in BOOLEAN /\ rebooted \in BOOLEAN
    OBVIOUS
  <1>2. TypeOK
    BY <1>1 DEF TypeOK
  <1>3. SetUpInv /\ HeldInv
    BY DEF SetUpInv, HeldInv, Holds, Running, Lost
  <1> QED
    BY <1>2, <1>3 DEF PairsInv

\* The daemon's steps keep every pair with its holder.
LEMMA PairsDaemon == ASSUME PairsInv, Daemon \/ Restart PROVE PairsInv'
  <1> USE ConstantsOK DEF PairsInv, PairIds
  <1>1. CASE SemOpen
    <2>1. semid' \in BOOLEAN
      BY <1>1 DEF SemOpen, TypeOK
    <2>2. TypeOK'
      BY <1>1, <2>1 DEF SemOpen, TypeOK, cvars
    <2>3. SetUpInv' /\ HeldInv'
      BY <1>1 DEF SemOpen, SetUpInv, HeldInv, Holds, Running, Lost, cvars
    <2> QED
      BY <2>2, <2>3
  <1>2. CASE SemCreate
    <2>1. semid' \in BOOLEAN
      BY <1>2 DEF SemCreate, TypeOK
    <2>2. TypeOK'
      BY <1>2, <2>1 DEF SemCreate, TypeOK, cvars
    <2>3. \A c \in Clients : Holds(c)' <=> Holds(c)
      BY <1>2 DEF SemCreate, Holds, Running, Lost, cvars
    <2>4. SetUpInv' /\ HeldInv'
      BY <1>2, <2>3 DEF SemCreate, TypeOK, SetUpInv, HeldInv, cvars
    <2> QED
      BY <2>2, <2>4
  <1>3. CASE SetVal
    <2>0. sem' \in PairIds /\ (wpc' = "setval" => sem' = sem + 1)
      BY <1>3 DEF SetVal, TypeOK
    <2>1. TypeOK'
      BY <1>3, <2>0 DEF SetVal, TypeOK, cvars
    <2>2. \A c \in Clients : Holds(c)' <=> Holds(c)
      BY <1>3 DEF SetVal, Holds, Running, Lost, cvars
    <2>3. SetUpInv'
      <3>1. size' = NumPairs
        BY <1>3 DEF SetVal, SetUpInv
      <3>2. ASSUME wpc' = "setval", NEW p \in PairIds, p >= sem'
            PROVE  active'[p] = 0
        BY <1>3, <2>0, <3>2 DEF SetVal, TypeOK, SetUpInv
      <3>3. ASSUME wpc' = "setval", NEW c \in Clients, Holds(c)
            PROVE  slot'[c] < sem'
        <4>1. slot[c] < sem /\ slot'[c] = slot[c]
          BY <1>3, <3>3 DEF SetVal, SetUpInv, cvars
        <4> QED
          BY <2>0, <3>3, <4>1 DEF TypeOK
      <3> QED
        BY <2>2, <3>1, <3>2, <3>3 DEF SetUpInv
    <2>4. HeldInv'
      BY <1>3, <2>2 DEF SetVal, TypeOK, SetUpInv, HeldInv, cvars
    <2> QED
      BY <2>1, <2>3, <2>4
  <1>4. CASE CheckNothing \/ CheckStart
    BY <1>4 DEF CheckNothing, CheckStart, TypeOK, SetUpInv, HeldInv, Holds, Running, Lost,
                dvars, cvars
  <1>5. CASE GetVal
    <2>1. TypeOK'
      BY <1>5 DEF GetVal, Advance, NextSem, TypeOK, cvars
    <2>2. SetUpInv' /\ HeldInv'
      BY <1>5 DEF GetVal, Advance, SetUpInv, HeldInv, Holds, Running, Lost, cvars
    <2> QED
      BY <2>1, <2>2
  <1>6. CASE SemOp
    <2>1. rebooted' \in BOOLEAN
      BY <1>6 DEF SemOp, TypeOK
    <2>2. TypeOK'
      <3>1. count' \in [PairIds -> 0..CountCap]
        BY <1>6 DEF SemOp, TypeOK
      <3>2. /\ sem' \in PairIds /\ pinged' \in SUBSET Clients
            /\ wpc' \in {"getval", "sleep", "down"}
        BY <1>6 DEF SemOp, Advance, NextSem, TypeOK
      <3> QED
        BY <1>6, <2>1, <3>1, <3>2 DEF SemOp, TypeOK, cvars
    <2>3. SetUpInv' /\ HeldInv'
      BY <1>6 DEF SemOp, Advance, SetUpInv, HeldInv, Holds, Running, Lost, cvars
    <2> QED
      BY <2>2, <2>3
  <1>7. CASE Restart
    <2>1. semid' \in BOOLEAN
      BY <1>7 DEF Restart
    <2>2. TypeOK'
      BY <1>7, <2>1 DEF Restart, TypeOK, cvars
    <2>3. SetUpInv' /\ HeldInv'
      BY <1>7 DEF Restart, SetUpInv, HeldInv, Holds, Running, Lost, cvars
    <2> QED
      BY <2>2, <2>3
  <1> QED
    BY <1>1, <1>2, <1>3, <1>4, <1>5, <1>6, <1>7 DEF Daemon

\* A client takes only a free pair, and gives back only its own.
LEMMA PairsClient ==
  ASSUME PairsInv, NEW c \in Clients, ClientStep(c)
  PROVE  PairsInv'
  <1> USE ConstantsOK DEF PairsInv, PairIds
  <1>1. CASE ClientOpen(c)
    BY <1>1 DEF ClientOpen, At, TypeOK, SetUpInv, HeldInv, Holds, Running, Lost, dvars
  <1>2. CASE ClientGet(c)
    <2>1. CASE slot[c] >= size \/ active[slot[c]] = 0
      <3>1. TypeOK'
        <4>1. slot' \in [Clients -> 0..NumPairs]
          <5>1. slot[c] \in 0..NumPairs /\ (~(slot[c] >= size) => slot[c] + 1 \in 0..NumPairs)
            BY DEF TypeOK
          <5>2. slot' = slot \/ (~(slot[c] >= size) /\ slot' = [slot EXCEPT ![c] = slot[c] + 1])
            BY <1>2, <2>1 DEF ClientGet
          <5> QED
            BY <5>1, <5>2 DEF TypeOK
        <4>2. cpc' \in [Clients -> {"new", "get", "run", "hung", "dead", "failed"}]
          BY <1>2, <2>1 DEF ClientGet, TypeOK
        <4> QED
          BY <1>2, <2>1, <4>1, <4>2 DEF ClientGet, TypeOK, dvars
      <3>2. \A d \in Clients : (Holds(d)' <=> Holds(d)) /\ (Holds(d) => slot'[d] = slot[d])
        BY <1>2, <2>1 DEF ClientGet, At, TypeOK, Holds, Running, Lost
      <3>3. SetUpInv' /\ HeldInv'
        BY <1>2, <2>1, <3>2 DEF ClientGet, TypeOK, SetUpInv, HeldInv, dvars
      <3> QED
        BY <3>1, <3>3
    <2>2. CASE ~(slot[c] >= size \/ active[slot[c]] = 0)
      <3> DEFINE p == slot[c]
      <3>1. p \in PairIds /\ p < size /\ active[p] = 1 /\ size = NumPairs /\ ~Holds(c)
        BY <1>2, <2>2 DEF ClientGet, At, TypeOK, SetUpInv, Holds, Running, Lost
      <3>2. \A d \in Clients : Holds(d) => slot[d] # p
        BY <3>1 DEF HeldInv
      <3>3. /\ active' = [active EXCEPT ![p] = 0]
            /\ count' = [count EXCEPT ![p] = @ + 1] /\ count[p] < CountCap
            /\ cpc' = [cpc EXCEPT ![c] = "run"]
            /\ pinged' = pinged \cup {c}
            /\ UNCHANGED <<size, slot, wpc, semid, sem, restarts, rebooted, nowayout>>
        BY <1>2, <2>2, <3>1 DEF ClientGet, dvars, TypeOK
      <3>4. TypeOK'
        BY <3>1, <3>3 DEF TypeOK
      <3>5. \A d \in Clients : Holds(d)' <=> (Holds(d) \/ d = c)
        BY <3>3 DEF Holds, Running, Lost, TypeOK
      <3>6. SetUpInv'
        BY <3>1, <3>3, <3>5 DEF SetUpInv, TypeOK
      <3>7. HeldInv'
        BY <3>1, <3>2, <3>3, <3>5 DEF HeldInv, TypeOK
      <3> QED
        BY <3>4, <3>6, <3>7
    <2> QED
      BY <2>1, <2>2
  <1>3. CASE ClientExit(c)
    <2>1. Holds(c) /\ slot[c] \in PairIds /\ active[slot[c]] = 0
      BY <1>3 DEF ClientExit, At, HeldInv, Holds, Running
    <2>2. size = NumPairs
      BY <2>1 DEF SetUpInv
    <2>3. TypeOK'
      <3>1. /\ cpc' \in [Clients -> {"new", "get", "run", "hung", "dead", "failed"}]
            /\ active' \in [PairIds -> {0, 1}]
        <4>1. CASE nowayout[c]
          BY <1>3, <4>1 DEF ClientExit, TypeOK
        <4>2. CASE ~nowayout[c]
          <5>1. active' = [active EXCEPT ![slot[c]] = 1] /\ cpc' = [cpc EXCEPT ![c] = "new"]
            BY <1>3, <2>1, <4>2 DEF ClientExit
          <5> QED
            BY <5>1 DEF TypeOK
        <4> QED
          BY <4>1, <4>2
      <3> QED
        BY <1>3, <3>1 DEF ClientExit, TypeOK, dvars
    <2>4. \A d \in Clients : Holds(d)' => Holds(d)
      BY <1>3 DEF ClientExit, At, Holds, Running, Lost, TypeOK
    <2>5. SetUpInv'
      BY <1>3, <2>1, <2>2, <2>4 DEF ClientExit, At, SetUpInv, TypeOK, dvars
    <2>6. HeldInv'
      <3>1. CASE nowayout[c]
        BY <1>3, <2>4, <3>1 DEF ClientExit, HeldInv
      <3>2. CASE ~nowayout[c]
        <4>1. ~Holds(c)'
          BY <1>3, <3>2 DEF ClientExit, Holds, Running, Lost, TypeOK
        <4> QED
          BY <1>3, <2>1, <2>4, <3>2, <4>1 DEF ClientExit, HeldInv, TypeOK
      <3> QED
        BY <3>1, <3>2
    <2> QED
      BY <2>3, <2>5, <2>6
  <1>4. CASE ClientHang(c)
    BY <1>4 DEF ClientHang, At, TypeOK, SetUpInv, HeldInv, Holds, Running, Lost, dvars
  <1>5. CASE \E n \in 1..MaxCount : Keepalive(c, n)
    BY <1>5 DEF Keepalive, At, TypeOK, SetUpInv, HeldInv, Holds, Running, Lost, dvars, cvars
  <1> QED
    BY <1>1, <1>2, <1>3, <1>4, <1>5 DEF ClientStep

\* The daemon and every client keep the invariant of the pairs.
LEMMA PairsStep == PairsInv /\ [Next]_vars => PairsInv'
  <1> SUFFICES ASSUME PairsInv, [Next]_vars
               PROVE  PairsInv'
    OBVIOUS
  <1>1. CASE Daemon \/ Restart
    BY <1>1, PairsDaemon
  <1>2. ASSUME NEW c \in Clients, ClientStep(c)
        PROVE  PairsInv'
    BY <1>2, PairsClient
  <1>3. CASE UNCHANGED vars
    BY <1>3 DEF vars, dvars, cvars, PairsInv, TypeOK, SetUpInv, HeldInv, Holds, Running, Lost
  <1> QED
    BY <1>1, <1>2, <1>3 DEF Next, Halted

\* Type correctness of daemon, clients and semaphore set.
THEOREM TypeCorrect == Spec => []TypeOK
  <1>1. PairsInv => TypeOK
    BY DEF PairsInv
  <1> QED
    BY <1>1, PairsInit, PairsStep, PTL DEF Spec

(***************************************************************************)
(* No two clients ever share a pair and a held pair stays active, for any  *)
(* number of clients and pairs, whoever creates the set and however often  *)
(* the daemon is started again.                                            *)
(***************************************************************************)
THEOREM Exclusive == Spec => []PairsExclusive
  <1>1. PairsInv => PairsExclusive
    BY DEF PairsInv, HeldInv, PairsExclusive
  <1> QED
    BY <1>1, PairsInit, PairsStep, PTL DEF Spec

-----------------------------------------------------------------------------

\* The daemon walks over the set.
Walking == wpc \in {"getval", "semop"}

\* The daemon has a set only if it is a full one that it has set up.
OwnSetInv ==
    /\ semid => size = NumPairs
    /\ (Walking \/ wpc = "setval") => semid

\* Every pair the set-up has come to is free or held by somebody.
TakenInv ==
    \A p \in PairIds :
        (size = NumPairs /\ active[p] = 0 /\ (wpc = "setval" => p < sem))
            => \E c \in Clients : Holds(c) /\ slot[c] = p

(***************************************************************************)
(* The intervals a running client has left.  Between two checks a client   *)
(* that pinged has one; during a check every running client has one as     *)
(* long as the walk has not passed its pair.                               *)
(***************************************************************************)
CountInv ==
    \A c \in Clients : Running(c) =>
        /\ (c \in pinged /\ wpc \notin {"getval", "semop", "down"}) => count[slot[c]] > 0
        /\ (Walking /\ slot[c] >= sem) => count[slot[c]] > 0

\* Between the two calls of a turn the pair has an interval left, or a lost client.
TurnInv ==
    wpc = "semop" => (count[sem] > 0 \/ \E c \in Clients : Lost(c) /\ slot[c] = sem)

\* The inductive invariant of a reboot.
RebootInv == OwnSetInv /\ TakenInv /\ CountInv /\ TurnInv /\ NoFalseReboot

\* Nothing is counted down before the set exists.
LEMMA RebootInit == Init => RebootInv
  BY ConstantsOK DEF Init, RebootInv, OwnSetInv, TakenInv, CountInv, TurnInv, NoFalseReboot,
                     Walking, Holds, Running, Lost, PairIds

\* The daemon's steps: the walk only meets an empty count where a client is lost.
LEMMA RebootDaemon ==
  ASSUME PairsInv, RebootInv, Daemon \/ Restart
  PROVE  RebootInv'
  <1> USE ConstantsOK DEF RebootInv, PairIds
  <1>0. TypeOK
    BY DEF PairsInv
  <1>1. CASE SemOpen
    BY <1>0, <1>1 DEF SemOpen, OwnSetInv, TakenInv, CountInv, TurnInv, NoFalseReboot, Walking,
                      Holds, Running, Lost, cvars
  <1>2. CASE SemCreate
    BY <1>0, <1>2 DEF SemCreate, OwnSetInv, TakenInv, CountInv, TurnInv, NoFalseReboot, Walking,
                      Holds, Running, Lost, cvars, TypeOK
  <1>3. CASE SetVal
    <2>1. \A c \in Clients : (Holds(c)' <=> Holds(c)) /\ slot'[c] = slot[c]
      BY <1>3 DEF SetVal, Holds, Running, Lost, cvars
    <2>2. TakenInv'
      <3> SUFFICES ASSUME NEW p \in PairIds, active'[p] = 0, wpc' = "setval" => p < sem'
                   PROVE  \E c \in Clients : Holds(c)' /\ slot'[c] = p
        BY DEF TakenInv
      <3>1. p # sem /\ active[p] = 0 /\ p < sem
        BY <1>0, <1>3 DEF SetVal, TypeOK
      <3>2. size = NumPairs
        BY <1>3 DEF SetVal, PairsInv, SetUpInv
      <3> QED
        BY <2>1, <3>1, <3>2 DEF TakenInv
    <2>3. OwnSetInv' /\ CountInv' /\ TurnInv' /\ NoFalseReboot'
      BY <1>0, <1>3 DEF SetVal, OwnSetInv, CountInv, TurnInv, NoFalseReboot, Walking,
                        Running, Lost, cvars
    <2> QED
      BY <2>2, <2>3
  <1>4. CASE CheckNothing
    BY <1>0, <1>4 DEF CheckNothing, OwnSetInv, TakenInv, CountInv, TurnInv, NoFalseReboot, Walking,
                      Holds, Running, Lost, dvars, cvars
  <1>5. CASE CheckStart
    <2>1. CountInv'
      BY <1>0, <1>5 DEF CheckStart, CountInv, Walking, Running, cvars
    <2> QED
      BY <1>0, <1>5, <2>1 DEF CheckStart, OwnSetInv, TakenInv, TurnInv, NoFalseReboot, Walking,
                              Holds, Running, Lost, cvars
  <1>6. CASE GetVal
    <2>1. size = NumPairs /\ semid
      BY <1>6 DEF GetVal, OwnSetInv, Walking
    <2>2. TurnInv'
      <3> SUFFICES ASSUME wpc' = "semop"
                   PROVE  count'[sem'] > 0 \/ \E c \in Clients : Lost(c)' /\ slot'[c] = sem'
        BY DEF TurnInv
      <3>1. active[sem] = 0 /\ sem' = sem /\ count' = count /\ slot' = slot /\ cpc' = cpc
        BY <1>6 DEF GetVal, Advance, cvars
      <3>2. PICK c \in Clients : Holds(c) /\ slot[c] = sem
        BY <1>0, <1>6, <2>1, <3>1 DEF GetVal, TakenInv, TypeOK
      <3>3. CASE Running(c)
        BY <1>0, <1>6, <3>1, <3>2, <3>3 DEF GetVal, CountInv, Walking, TypeOK
      <3>4. CASE Lost(c)
        BY <3>1, <3>2, <3>4 DEF Lost
      <3> QED
        BY <3>2, <3>3, <3>4 DEF Holds
    <2>3. CountInv'
      BY <1>0, <1>6 DEF GetVal, Advance, NextSem, CountInv, Walking, Running, cvars, TypeOK
    <2> QED
      BY <1>0, <1>6, <2>1, <2>2, <2>3 DEF GetVal, Advance, OwnSetInv, TakenInv, NoFalseReboot,
                                          Holds, Running, Lost, cvars
  <1>7. CASE SemOp
    <2>1. CountInv'
      BY <1>0, <1>7 DEF SemOp, Advance, NextSem, CountInv, Walking, Running, cvars, TypeOK,
                        PairsInv, HeldInv, Holds
    <2>2. NoFalseReboot'
      BY <1>0, <1>7 DEF SemOp, TurnInv, NoFalseReboot, Lost, cvars, TypeOK
    <2> QED
      BY <1>0, <1>7, <2>1, <2>2 DEF SemOp, Advance, OwnSetInv, TakenInv, TurnInv, Walking,
                                    Holds, Running, Lost, cvars
  <1>8. CASE Restart
    BY <1>0, <1>8 DEF Restart, OwnSetInv, TakenInv, CountInv, TurnInv, NoFalseReboot, Walking,
                      Holds, Running, Lost, cvars
  <1> QED
    BY <1>1, <1>2, <1>3, <1>4, <1>5, <1>6, <1>7, <1>8 DEF Daemon

\* A client's steps: whoever takes a pair brings an interval with it.
LEMMA RebootClient ==
  ASSUME PairsInv, RebootInv, NEW c \in Clients, ClientStep(c)
  PROVE  RebootInv'
  <1> USE ConstantsOK DEF RebootInv, PairIds
  <1>0. TypeOK /\ HeldInv /\ SetUpInv
    BY DEF PairsInv
  <1>1. CASE ClientOpen(c)
    <2>1. \A d \in Clients : (cpc'[d] = cpc[d] /\ slot'[d] = slot[d])
                             \/ (d = c /\ ~Holds(d) /\ ~Holds(d)')
      BY <1>0, <1>1 DEF ClientOpen, At, Holds, Running, Lost, TypeOK
    <2> QED
      BY <1>0, <1>1, <2>1 DEF ClientOpen, OwnSetInv, TakenInv, CountInv, TurnInv, NoFalseReboot,
                              Walking, Holds, Running, Lost, dvars, TypeOK
  <1>2. CASE ClientGet(c)
    <2>1. CASE slot[c] >= size \/ active[slot[c]] = 0
      <3>1. \A d \in Clients : (cpc'[d] = cpc[d] /\ slot'[d] = slot[d])
                               \/ (d = c /\ ~Holds(d) /\ ~Holds(d)')
        BY <1>0, <1>2, <2>1 DEF ClientGet, At, Holds, Running, Lost, TypeOK
      <3> QED
        BY <1>0, <1>2, <2>1, <3>1 DEF ClientGet, OwnSetInv, TakenInv, CountInv, TurnInv,
                                 NoFalseReboot, Walking, Holds, Running, Lost, dvars
    <2>2. CASE ~(slot[c] >= size \/ active[slot[c]] = 0)
      <3> DEFINE p == slot[c]
      <3>1. p \in PairIds /\ active[p] = 1 /\ count[p] \in Nat
        BY <1>0, <1>2, <2>2 DEF ClientGet, At, TypeOK
      <3>2. /\ active' = [active EXCEPT ![p] = 0]
            /\ count' = [count EXCEPT ![p] = @ + 1]
            /\ cpc' = [cpc EXCEPT ![c] = "run"] /\ cpc[c] = "get"
            /\ pinged' = pinged \cup {c}
            /\ UNCHANGED <<size, slot, wpc, semid, sem, rebooted>>
        BY <1>2, <2>2, <3>1 DEF ClientGet, At, dvars
      <3>3. \A d \in Clients \ {c} : cpc'[d] = cpc[d]
        BY <3>2
      <3>4. \A q \in PairIds : count'[q] >= count[q] /\ (q # p => active'[q] = active[q])
        BY <1>0, <3>1, <3>2 DEF TypeOK
      <3>5. cpc'[c] = "run" /\ count'[p] > 0
        BY <1>0, <3>1, <3>2 DEF TypeOK
      <3>6. TakenInv'
        BY <1>0, <3>1, <3>2, <3>3, <3>4, <3>5 DEF TakenInv, Holds, Running, Lost
      <3>7. CountInv'
        <4> SUFFICES ASSUME NEW d \in Clients, Running(d)'
                     PROVE  /\ (d \in pinged' /\ wpc' \notin {"getval", "semop", "down"})
                                   => count'[slot'[d]] > 0
                            /\ (Walking' /\ slot'[d] >= sem') => count'[slot'[d]] > 0
          BY DEF CountInv
        <4>1. CASE d = c
          BY <3>2, <3>5, <4>1
        <4>2. CASE d # c
          <5>1. Running(d) /\ slot[d] \in PairIds
            BY <1>0, <3>3, <4>2 DEF Running, HeldInv, Holds
          <5>2. count'[slot[d]] >= count[slot[d]] /\ count[slot[d]] \in Nat /\ count'[slot[d]] \in Int
            BY <1>0, <3>1, <3>2, <3>4, <5>1 DEF TypeOK
          <5> QED
            BY <3>2, <4>2, <5>1, <5>2 DEF CountInv, Walking
        <4> QED
          BY <4>1, <4>2
      <3>8. TurnInv'
        <4> SUFFICES ASSUME wpc = "semop"
                     PROVE  count'[sem] > 0 \/ \E d \in Clients : Lost(d)' /\ slot[d] = sem
          BY <3>2 DEF TurnInv
        <4>1. sem \in PairIds /\ count[sem] \in Nat /\ count'[sem] \in Int
          BY <1>0, <3>1, <3>2 DEF TypeOK
        <4>2. \A d \in Clients : Lost(d) => Lost(d)'
          BY <3>2, <3>3 DEF Lost
        <4> QED
          BY <3>4, <4>1, <4>2 DEF TurnInv
      <3>9. OwnSetInv' /\ NoFalseReboot'
        BY <3>2, <3>3 DEF OwnSetInv, NoFalseReboot, Walking, Lost
      <3> QED
        BY <3>6, <3>7, <3>8, <3>9
    <2> QED
      BY <2>1, <2>2
  <1>3. CASE ClientExit(c)
    <2>1. \A d \in Clients \ {c} : cpc'[d] = cpc[d]
      BY <1>0, <1>3 DEF ClientExit, TypeOK
    <2>2. /\ UNCHANGED <<size, count, wpc, semid, sem, rebooted, slot, pinged>>
          /\ cpc[c] = "run" /\ cpc'[c] \in {"dead", "new"}
      BY <1>0, <1>3 DEF ClientExit, At, TypeOK, dvars
    <2>3. TakenInv'
      <3>1. CASE nowayout[c]
        BY <1>0, <1>3, <2>1, <2>2, <3>1 DEF ClientExit, TakenInv, Holds, Running, Lost, TypeOK
      <3>2. CASE ~nowayout[c]
        <4>1. active' = [active EXCEPT ![slot[c]] = 1] /\ slot[c] \in PairIds
          BY <1>0, <1>3, <2>2, <3>2 DEF ClientExit, HeldInv, Holds, Running
        <4> QED
          BY <1>0, <2>1, <2>2, <4>1 DEF TakenInv, Holds, Running, Lost, TypeOK
      <3> QED
        BY <3>1, <3>2
    <2> QED
      BY <1>0, <2>1, <2>2, <2>3 DEF OwnSetInv, CountInv, TurnInv, NoFalseReboot, Walking,
                                   Running, Lost
  <1>4. CASE ClientHang(c)
    <2>1. /\ UNCHANGED <<size, active, count, wpc, semid, sem, rebooted, slot, pinged>>
          /\ cpc[c] = "run" /\ cpc'[c] = "hung" /\ \A d \in Clients \ {c} : cpc'[d] = cpc[d]
      BY <1>0, <1>4 DEF ClientHang, At, TypeOK, dvars
    <2> QED
      BY <1>0, <2>1 DEF OwnSetInv, TakenInv, CountInv, TurnInv, NoFalseReboot, Walking,
                        Holds, Running, Lost
  <1>5. ASSUME NEW n \in 1..MaxCount, Keepalive(c, n)
        PROVE  RebootInv'
    <2>1. /\ UNCHANGED <<size, active, wpc, semid, sem, rebooted, slot, cpc>>
          /\ Holds(c) /\ slot[c] \in PairIds
          /\ count' = [count EXCEPT ![slot[c]] = n] /\ pinged' = pinged \cup {c}
      BY <1>0, <1>5 DEF Keepalive, At, HeldInv, Holds, Running, dvars, cvars
    <2>2. CountInv'
      BY <1>0, <2>1 DEF CountInv, Walking, Running, TypeOK, HeldInv, Holds
    <2>3. TurnInv'
      BY <1>0, <2>1 DEF TurnInv, Lost, TypeOK
    <2> QED
      BY <2>1, <2>2, <2>3 DEF OwnSetInv, TakenInv, NoFalseReboot, Walking, Holds, Running, Lost
  <1> QED
    BY <1>1, <1>2, <1>3, <1>4, <1>5 DEF ClientStep

\* The daemon and every client keep the invariant of the reboot.
LEMMA RebootStep == PairsInv /\ RebootInv /\ [Next]_vars => RebootInv'
  <1> SUFFICES ASSUME PairsInv, RebootInv, [Next]_vars
               PROVE  RebootInv'
    OBVIOUS
  <1>1. CASE Daemon \/ Restart
    BY <1>1, RebootDaemon
  <1>2. ASSUME NEW c \in Clients, ClientStep(c)
        PROVE  RebootInv'
    BY <1>2, RebootClient
  <1>3. CASE UNCHANGED vars
    BY <1>3 DEF vars, dvars, cvars, RebootInv, OwnSetInv, TakenInv, CountInv, TurnInv,
                NoFalseReboot, Walking, Holds, Running, Lost
  <1> QED
    BY <1>1, <1>2, <1>3 DEF Next, Halted

(***************************************************************************)
(* The system is shut down only over a client that hangs or has died under *)
(* nowayout, although check_semaphore reads the flag and takes from the    *)
(* count in two calls while clients come, ping, exit and are replaced.     *)
(***************************************************************************)
THEOREM RebootsHaveCause == Spec => []NoFalseReboot
  <1>1. RebootInv => NoFalseReboot
    BY DEF RebootInv
  <1> QED
    BY <1>1, PairsInit, PairsStep, RebootInit, RebootStep, PTL DEF Spec

-----------------------------------------------------------------------------

\* The walk only visits every other pair.
EvenInv == Walking => sem % 2 = 0

\* Only a client on a pair that the walk visits can be the cause of a reboot.
VisitedCause == rebooted => \E c \in Clients : Lost(c) /\ slot[c] % 2 = 0

\* Every step keeps the walk on even pairs, and the cause of a reboot.
LEMMA EvenStep ==
  ASSUME PairsInv, RebootInv, EvenInv, VisitedCause, [Next]_vars
  PROVE  EvenInv' /\ VisitedCause'
  <1> USE DEF EvenInv, VisitedCause, Walking
  <1>0. sem \in Nat /\ NumPairs \in Nat /\ TypeOK
    BY ConstantsOK DEF PairsInv, TypeOK, PairIds
  <1>1. CASE SemOpen \/ SemCreate \/ SetVal \/ CheckNothing \/ CheckStart \/ Restart
    BY <1>1 DEF SemOpen, SemCreate, SetVal, CheckNothing, CheckStart, Restart, Lost, dvars, cvars
  <1>2. CASE GetVal
    BY <1>0, <1>2 DEF GetVal, Advance, NextSem, Lost, cvars
  <1>3. CASE SemOp
    BY <1>0, <1>3 DEF SemOp, Advance, NextSem, RebootInv, TurnInv, Lost, cvars
  <1>4. ASSUME NEW c \in Clients, ClientStep(c)
        PROVE  EvenInv' /\ VisitedCause'
    <2>1. UNCHANGED <<wpc, sem, rebooted>> /\ ~rebooted
      BY <1>4 DEF ClientStep, ClientOpen, ClientGet, ClientExit, ClientHang, Keepalive, At, dvars
    <2> QED
      BY <2>1
  <1>5. CASE UNCHANGED vars
    BY <1>5 DEF vars, dvars, cvars, Lost
  <1> QED
    BY <1>1, <1>2, <1>3, <1>4, <1>5 DEF Next, Daemon, Halted

(***************************************************************************)
(* What NowayoutReboots runs into, for any number of clients and pairs:    *)
(* check_semaphore steps over every other pair, so a client that hangs or  *)
(* dies on an odd one is never the cause of a reboot.                      *)
(***************************************************************************)
THEOREM OddPairsIgnored == Spec => []VisitedCause
  <1>1. Init => EvenInv /\ VisitedCause
    BY DEF Init, EvenInv, VisitedCause, Walking
  <1>2. PairsInv /\ RebootInv /\ EvenInv /\ VisitedCause /\ [Next]_vars
          => (EvenInv /\ VisitedCause)'
    BY EvenStep
  <1> QED
    BY <1>1, <1>2, PairsInit, PairsStep, RebootInit, RebootStep, PTL DEF Spec

(***************************************************************************)
(* A lost client stays lost on its pair and nobody adds to its intervals.  *)
(***************************************************************************)
StaysLost(c) ==
    /\ Lost(c)' /\ slot'[c] = slot[c]
    /\ count'[slot[c]] <= count[slot[c]]

\* The walk has not left the pair of c, which is one that it visits.
Ahead(c) == Walking /\ sem <= slot[c] /\ slot[c] % 2 = 0

\* The walk comes no further than the pair of c without taking one of its intervals.
Visited(c) ==
    Ahead(c) => \/ Ahead(c)'
                \/ count'[slot[c]] = count[slot[c]] - 1
                \/ rebooted' \/ restarts' # restarts

\* Both, of every step and every lost client.
LostRunsOut == [][\A c \in Clients : Lost(c) => StaysLost(c) /\ Visited(c)]_vars

\* A step that leaves the daemon, the client and its intervals alone.
LEMMA LostKept ==
  ASSUME PairsInv, NEW c \in Clients, Lost(c),
         cpc'[c] = cpc[c], slot'[c] = slot[c], count'[slot[c]] = count[slot[c]]
  PROVE  StaysLost(c)
  <1>1. slot[c] \in PairIds
    BY DEF PairsInv, HeldInv, Holds
  <1>2. count[slot[c]] \in Int
    BY <1>1, ConstantsOK DEF PairsInv, TypeOK
  <1> QED
    BY <1>2 DEF StaysLost, Lost

\* Two even pairs are at least two apart.
LEMMA EvenGap ==
  ASSUME NEW i \in Nat, NEW j \in Nat, i % 2 = 0, j % 2 = 0, i <= j, i # j
  PROVE  i + 2 <= j
  OBVIOUS

\* The daemon visits the pair of a lost client on every walk.
LEMMA LostDaemon ==
  ASSUME PairsInv, EvenInv, NEW c \in Clients, Lost(c), Daemon \/ Restart
  PROVE  StaysLost(c) /\ Visited(c)
  <1>0. /\ slot[c] \in PairIds /\ active[slot[c]] = 0 /\ count[slot[c]] \in Nat
        /\ sem \in PairIds /\ PairIds \subseteq Nat /\ NumPairs \in Nat
        /\ slot[c] < NumPairs
    BY ConstantsOK DEF PairsInv, HeldInv, Holds, TypeOK, PairIds
  <1>1. CASE SemOpen \/ SemCreate \/ SetVal \/ CheckNothing \/ CheckStart
    <2>1. UNCHANGED <<count, cpc, slot>> /\ ~Walking
      BY <1>1 DEF SemOpen, SemCreate, SetVal, CheckNothing, CheckStart, cvars, Walking
    <2> QED
      BY <2>1, LostKept DEF Visited, Ahead
  <1>2. CASE GetVal
    <2>1. UNCHANGED <<count, cpc, slot>> /\ wpc = "getval"
      BY <1>2 DEF GetVal, cvars
    <2>2. Visited(c)
      <3> SUFFICES ASSUME Ahead(c) PROVE Ahead(c)'
        BY DEF Visited
      <3>1. CASE active[sem] = 0
        BY <1>2, <2>1, <3>1 DEF GetVal, Ahead, Walking
      <3>2. CASE active[sem] # 0
        <4>1. sem # slot[c] /\ sem <= slot[c] /\ slot[c] % 2 = 0 /\ sem % 2 = 0
          BY <1>0, <3>2 DEF Ahead, EvenInv
        <4>2. NextSem <= slot[c] /\ NextSem < NumPairs
          <5>1. sem \in Nat /\ slot[c] \in Nat
            BY <1>0
          <5>2. sem + 2 <= slot[c]
            BY <4>1, <5>1, EvenGap
          <5> QED
            BY <1>0, <5>1, <5>2 DEF NextSem
        <4> QED
          BY <1>2, <2>1, <3>2, <4>1, <4>2 DEF GetVal, Advance, Ahead, Walking
      <3> QED
        BY <3>1, <3>2
    <2> QED
      BY <2>1, <2>2, LostKept
  <1>3. CASE SemOp
    <2>1. UNCHANGED <<cpc, slot>> /\ wpc = "semop"
      BY <1>3 DEF SemOp, cvars
    <2>2. CASE sem = slot[c]
      <3>1. CASE count[sem] > 0
        <4>1. count'[slot[c]] = count[slot[c]] - 1
          BY <1>0, <1>3, <2>2, <3>1 DEF SemOp, PairsInv, TypeOK
        <4> QED
          BY <1>0, <2>1, <4>1 DEF StaysLost, Visited, Lost
      <3>2. CASE ~(count[sem] > 0)
        <4>1. rebooted' /\ count' = count
          BY <1>3, <3>2 DEF SemOp
        <4> QED
          BY <2>1, <4>1, LostKept DEF Visited
      <3> QED
        BY <3>1, <3>2
    <2>3. CASE sem # slot[c]
      <3>1. count'[slot[c]] = count[slot[c]]
        BY <1>0, <1>3, <2>3 DEF SemOp, PairsInv, TypeOK
      <3>2. Visited(c)
        <4> SUFFICES ASSUME Ahead(c), ~rebooted' PROVE Ahead(c)'
          BY DEF Visited
        <4>1. sem <= slot[c] /\ slot[c] % 2 = 0 /\ sem % 2 = 0
          BY DEF Ahead, EvenInv
        <4>2. NextSem <= slot[c] /\ NextSem < NumPairs
          <5>1. sem \in Nat /\ slot[c] \in Nat
            BY <1>0
          <5>2. sem + 2 <= slot[c]
            BY <2>3, <4>1, <5>1, EvenGap
          <5> QED
            BY <1>0, <5>1, <5>2 DEF NextSem
        <4> QED
          BY <1>3, <2>1, <4>1, <4>2 DEF SemOp, Advance, Ahead, Walking
      <3> QED
        BY <2>1, <3>1, <3>2, LostKept
    <2> QED
      BY <2>2, <2>3
  <1>4. CASE Restart
    <2>1. UNCHANGED <<cpc, slot, count>> /\ restarts' = restarts + 1 /\ restarts \in Int
      BY <1>4, ConstantsOK DEF Restart, cvars, PairsInv, TypeOK
    <2> QED
      BY <2>1, LostKept DEF Visited
  <1> QED
    BY <1>1, <1>2, <1>3, <1>4 DEF Daemon

\* No client, old or new, adds to the intervals of a lost one.
LEMMA LostClient ==
  ASSUME PairsInv, NEW c \in Clients, Lost(c), NEW d \in Clients, ClientStep(d)
  PROVE  StaysLost(c) /\ Visited(c)
  <1>0. /\ slot[c] \in PairIds /\ active[slot[c]] = 0 /\ Holds(c) /\ TypeOK
    BY DEF PairsInv, HeldInv, Holds
  <1>1. UNCHANGED <<wpc, sem>>
    BY DEF ClientStep, ClientOpen, ClientGet, ClientExit, ClientHang, Keepalive, dvars
  <1>2. cpc[d] \in {"new", "get", "run"} /\ d # c
    BY DEF ClientStep, ClientOpen, ClientGet, ClientExit, ClientHang, Keepalive, At, Lost
  <1>3. cpc'[c] = cpc[c] /\ slot'[c] = slot[c]
    BY <1>0, <1>2 DEF ClientStep, ClientOpen, ClientGet, ClientExit, ClientHang, Keepalive,
                      TypeOK, cvars
  <1>4. count'[slot[c]] = count[slot[c]]
    <2>1. CASE ClientGet(d)
      BY <1>0, <2>1 DEF ClientGet, TypeOK
    <2>2. ASSUME NEW n \in 1..MaxCount, Keepalive(d, n)
          PROVE  count'[slot[c]] = count[slot[c]]
      <3>1. slot[d] # slot[c]
        BY <1>0, <1>2, <2>2 DEF Keepalive, At, PairsInv, HeldInv, Holds, Running
      <3> QED
        BY <1>0, <2>2, <3>1 DEF Keepalive, TypeOK
    <2>3. CASE ClientOpen(d) \/ ClientExit(d) \/ ClientHang(d)
      BY <2>3 DEF ClientOpen, ClientExit, ClientHang
    <2> QED
      BY <2>1, <2>2, <2>3 DEF ClientStep
  <1>5. Visited(c)
    BY <1>1, <1>3 DEF Visited, Ahead, Walking
  <1> QED
    BY <1>3, <1>4, <1>5, LostKept

(***************************************************************************)
(* The safe half of MonitoredReboots, for any number of clients, pairs and *)
(* restarts: once a client is lost on a pair that check_semaphore visits,  *)
(* its intervals only go down, and every walk takes one or shuts down; no  *)
(* ping, no exit and no new client of the library gives it another.        *)
(***************************************************************************)
THEOREM LostClientsRunOut == Spec => LostRunsOut
  <1>1. Init => EvenInv /\ VisitedCause
    BY DEF Init, EvenInv, VisitedCause, Walking
  <1>2. PairsInv /\ RebootInv /\ EvenInv /\ VisitedCause /\ [Next]_vars
          => (EvenInv /\ VisitedCause)'
    BY EvenStep
  <1>3. PairsInv /\ EvenInv /\ [Next]_vars
          => [\A c \in Clients : Lost(c) => StaysLost(c) /\ Visited(c)]_vars
    <2> SUFFICES ASSUME PairsInv, EvenInv, Next, NEW c \in Clients, Lost(c), vars' # vars
                 PROVE  StaysLost(c) /\ Visited(c)
      OBVIOUS
    <2> QED
      BY LostDaemon, LostClient DEF Next, Halted
  <1> QED
    BY <1>1, <1>2, <1>3, PairsInit, PairsStep, RebootInit, RebootStep, PTL DEF Spec, LostRunsOut
=============================================================================
