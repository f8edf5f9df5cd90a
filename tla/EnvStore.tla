------------------------------ MODULE EnvStore ------------------------------
(***************************************************************************)
(* What the pair of environment sectors promises to its users: one         *)
(* environment, which a command replaces as a whole or not at all.  A      *)
(* command never changes a write-once variable and never stores more than  *)
(* the environment can hold.  Once the device has failed nothing more is   *)
(* promised.                                                               *)
(***************************************************************************)
EXTENDS Integers, Sequences, FiniteSets

CONSTANTS Names, Once, Values, NoValue, Default, Capacity, MaxPairs

VARIABLES
    env,      \* the environment a boot would load
    damaged   \* an MTD operation has failed

Envs     == [Names -> Values \cup {NoValue}]
Pairs    == Names \X (Values \cup {NoValue})
Requests == UNION {[1..n -> Pairs] : n \in 1..MaxPairs}

Defined(e) == {n \in Names : e[n] # NoValue}

\* What a request asks for: the last pair naming a variable decides it.
Requested(e, q) ==
    [n \in Names |->
        LET hits == {i \in DOMAIN q : q[i][1] = n}
        IN  IF hits = {} THEN e[n]
            ELSE q[CHOOSE i \in hits : \A j \in hits : j <= i][2]]

\* f has every write-once variable that e has.
Keeps(e, f) == \A n \in Once : e[n] # NoValue => f[n] = e[n]

Fits(e) == Cardinality(Defined(e)) <= Capacity

Init == env = Default /\ damaged = FALSE

Set(q) ==
    /\ ~damaged /\ UNCHANGED damaged
    /\ env' = Requested(env, q)
    /\ Keeps(env, env')
    /\ Fits(env')

Fail == damaged' = TRUE /\ env' \in Envs

Next == Fail \/ \E q \in Requests : Set(q)

Spec == Init /\ [][Next]_<<env, damaged>>
=============================================================================
