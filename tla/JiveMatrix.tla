----------------------------- MODULE JiveMatrix -----------------------------
(***************************************************************************)
(* The keyboard matrix driver drivers/char/jive/jive_matrix.c.             *)
(*                                                                         *)
(* At rest all rows are driven low and the lines (GPF3 to GPF6) are        *)
(* interrupt inputs; an edge on one of them makes matrix_irq turn all      *)
(* lines into plain inputs and start the timer.  matrix_scan drives the    *)
(* rows one after the other, reads the lines, debounces over the last      *)
(* samples, reports the changes, and either starts the timer again or      *)
(* returns the lines, one by one, to interrupt.                            *)
(*                                                                         *)
(* The scan is a softirq: keys move between any two of its steps, and an   *)
(* interrupt runs before its next step.  A line that is a plain input      *)
(* raises no interrupt.  Driving a single row changes the level of a line  *)
(* as a key does, so a scan can interrupt itself.                          *)
(***************************************************************************)
EXTENDS Integers

CONSTANTS
    NumRows,    \* KEY_OUTPUT lines
    NumLines,   \* KEY_INPUT lines
    Samples,    \* ARRAY_SIZE(state)
    Unknown     \* positions with KEY_UNKNOWN in keymap

Rows  == 0..(NumRows - 1)
Lines == 0..(NumLines - 1)
Keys  == Rows \X Lines
Slots == 0..(Samples - 1)
keymap == Keys \ Unknown

ASSUME ConstantsOK ==
    /\ NumRows \in Nat \ {0}
    /\ NumLines \in Nat \ {0}
    /\ Samples \in Nat \ {0}
    /\ Unknown \subseteq Keys

VARIABLES
    held,        \* keys that are physically down
    drive,       \* rows driven low
    mode,        \* line -> "int" (SFN2) or "input"
    pend,        \* lines with an interrupt that matrix_irq has not handled
    timer,       \* matrix_timer is pending
    spc,         \* where matrix_scan is
    i,           \* its loop variable, and the line it returns next
    index,
    state,       \* the last samples
    last_state,
    reported,    \* the keys the input layer takes to be down
    seen         \* history: in how many consecutive scans a key was down

kvars == <<held>>
pvars == <<drive, mode, pend>>
svars == <<spc, i, index, state, last_state>>
vars  == <<kvars, pvars, timer, svars, reported, seen>>

Init ==
    /\ held = {}
    /\ drive = Rows
    /\ mode = [l \in Lines |-> "int"]
    /\ pend = {}
    /\ timer = FALSE
    /\ spc = "idle"
    /\ i = 0
    /\ index = 0
    /\ state = [s \in Slots |-> {}]
    /\ last_state = {}
    /\ reported = {}
    /\ seen = [k \in Keys |-> 0]

Level(l, rows, down) == \E r \in rows : <<r, l>> \in down

Edges(rows, down) ==
    {l \in Lines : mode[l] = "int" /\ Level(l, rows, down) # Level(l, drive, held)}

-----------------------------------------------------------------------------

\* A key moves, or bounces.
Press(k) ==
    /\ k \notin held
    /\ held' = held \cup {k}
    /\ pend' = pend \cup Edges(drive, held')
    /\ UNCHANGED <<drive, mode, timer, svars, reported, seen>>

Release(k) ==
    /\ k \in held
    /\ held' = held \ {k}
    /\ pend' = pend \cup Edges(drive, held')
    /\ UNCHANGED <<drive, mode, timer, svars, reported, seen>>

matrix_irq(l) ==
    /\ l \in pend
    /\ pend' = pend \ {l}
    /\ mode' = [x \in Lines |-> "input"]
    /\ timer' = TRUE
    /\ UNCHANGED <<held, drive, svars, reported, seen>>

-----------------------------------------------------------------------------

\* Faulty variant: > for >= in the test of the index.
ScanStartOffByOne ==
    /\ spc = "idle" /\ timer /\ pend = {}
    /\ timer' = FALSE
    /\ index' = IF index + 1 > Samples THEN 0 ELSE index + 1
    /\ state' = [state EXCEPT ![index'] = {}]
    /\ i' = 0
    /\ spc' = "sample"
    /\ UNCHANGED <<held, pvars, last_state, reported, seen>>

\* Faulty variant: the slot is not cleared.
ScanStartNoReset ==
    /\ spc = "idle" /\ timer /\ pend = {}
    /\ timer' = FALSE
    /\ index' = IF index + 1 >= Samples THEN 0 ELSE index + 1
    /\ i' = 0
    /\ spc' = "sample"
    /\ UNCHANGED <<held, pvars, state, last_state, reported, seen>>

\* The timer fires; index advances.
ScanStart ==
    /\ spc = "idle" /\ timer /\ pend = {}
    /\ timer' = FALSE
    /\ index' = IF index + 1 >= Samples THEN 0 ELSE index + 1
    /\ state' = [state EXCEPT ![index'] = {}]
    /\ i' = 0
    /\ spc' = "sample"
    /\ UNCHANGED <<held, pvars, last_state, reported, seen>>

\* Drive row i alone and read the lines.
SampleRow ==
    /\ spc = "sample" /\ pend = {}
    /\ drive' = {i}
    /\ pend' = Edges(drive', held)
    /\ state' = [state EXCEPT ![index] = @ \cup {k \in held : k[1] = i}]
    /\ i' = i + 1
    /\ spc' = IF i + 1 = NumRows THEN "report" ELSE "sample"
    /\ UNCHANGED <<held, mode, timer, index, last_state, reported, seen>>

Debounced == {k \in Keys : \A s \in Slots : k \in state[s]}

\* Keys whose bit changed and that have a key code.
Changed(now) == {k \in keymap : (k \in now) # (k \in last_state)}

\* What the input layer holds after the changes are reported.
Deliver(now) == {k \in Keys : IF k \in Changed(now) THEN k \in now ELSE k \in reported}

\* What is the same in the variants of Report.
ReportRest ==
    /\ spc = "report" /\ pend = {}
    /\ drive' = Rows
    /\ pend' = Edges(Rows, held)
    /\ seen' = [k \in Keys |-> IF k \notin state[index] THEN 0
                               ELSE IF seen[k] < Samples THEN seen[k] + 1 ELSE Samples]
    /\ i' = 0
    /\ UNCHANGED <<held, mode, index, state>>

\* Faulty variant: the debounce loop starts at 1.
ReportSkipsSample ==
    LET now == {k \in Keys : \A s \in Slots \ {0} : k \in state[s]}
    IN  /\ ReportRest
        /\ reported' = Deliver(now)
        /\ last_state' = now
        /\ IF state[index] # {}
           THEN timer' = TRUE /\ spc' = "idle"
           ELSE spc' = "return" /\ UNCHANGED timer

\* Faulty variant: scan again only while the samples disagree.
ReportStopsWhenStable ==
    /\ ReportRest
    /\ reported' = Deliver(Debounced)
    /\ last_state' = Debounced
    /\ IF state[index] # Debounced
       THEN timer' = TRUE /\ spc' = "idle"
       ELSE spc' = "return" /\ UNCHANGED timer

\* All rows low again, debounce, report, and decide how to go on.
Report ==
    /\ ReportRest
    /\ reported' = Deliver(Debounced)
    /\ last_state' = Debounced
    /\ IF state[index] # {}
       THEN timer' = TRUE /\ spc' = "idle"
       ELSE spc' = "return" /\ UNCHANGED timer

\* Return one line to interrupt.
ReturnLine ==
    /\ spc = "return" /\ pend = {}
    /\ mode' = [mode EXCEPT ![i] = "int"]
    /\ i' = IF i + 1 = NumLines THEN 0 ELSE i + 1
    /\ spc' = IF i + 1 = NumLines THEN "idle" ELSE "return"
    /\ UNCHANGED <<held, drive, pend, timer, index, state, last_state, reported, seen>>

matrix_scan == ScanStart \/ SampleRow \/ Report \/ ReturnLine

Next ==
    \/ \E k \in Keys : Press(k) \/ Release(k)
    \/ \E l \in Lines : matrix_irq(l)
    \/ matrix_scan

Spec == Init /\ [][Next]_vars

\* The kernel runs pending interrupts and expired timers.
FairSpec ==
    /\ Spec
    /\ \A l \in Lines : WF_vars(matrix_irq(l))
    /\ WF_vars(matrix_scan)

-----------------------------------------------------------------------------

\* The variables have the types the driver and the input layer give them.
TypeOK ==
    /\ held \in SUBSET Keys
    /\ drive \in SUBSET Rows
    /\ mode \in [Lines -> {"int", "input"}]
    /\ pend \in SUBSET Lines
    /\ timer \in BOOLEAN
    /\ spc \in {"idle", "sample", "report", "return"}
    /\ i \in Nat
    /\ (spc = "sample" => i \in Rows) /\ (spc = "return" => i \in Lines)
    /\ index \in Slots
    /\ state \in [Slots -> SUBSET Keys]
    /\ last_state \in SUBSET Keys
    /\ reported \in SUBSET Keys
    /\ seen \in [Keys -> 0..Samples]

\* No scan runs or is due, and no interrupt is on its way.
Quiet == spc = "idle" /\ ~timer /\ pend = {}

(***************************************************************************)
(* The driver neither goes deaf nor leaves a key stuck: when no scan is    *)
(* due every line is an interrupt input, also when matrix_irq ran between  *)
(* two of the cfgpin calls that return the lines, and the input layer      *)
(* (which repeats keys by itself, EV_REP) takes every key to be up.        *)
(***************************************************************************)
QuietIsReady == Quiet => (\A l \in Lines : mode[l] = "int") /\ reported = {}

(***************************************************************************)
(* Debouncing: between scans a key is reported down exactly if it was down *)
(* in each of the last Samples scans, whatever older samples the array     *)
(* still holds from before the driver was quiet.                           *)
(***************************************************************************)
DebounceExact ==
    spc \in {"idle", "return"} =>
        \A k \in keymap : k \in reported <=> seen[k] = Samples

(***************************************************************************)
(* Once a scan is due, a key that is down is reported, unless it is        *)
(* released first; a reported key that is released is reported up, unless  *)
(* it is pressed again first.                                              *)
(***************************************************************************)
KeysReported ==
    \A k \in keymap :
        /\ (timer /\ k \in held) ~> (k \in reported \/ k \notin held)
        /\ (k \in reported /\ k \notin held) ~> (k \notin reported \/ k \in held)
=============================================================================
