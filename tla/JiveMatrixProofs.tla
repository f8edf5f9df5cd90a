-------------------------- MODULE JiveMatrixProofs --------------------------
(* Proofs about the keyboard matrix for any number of rows, lines and samples. *)
EXTENDS JiveMatrix, TLAPS

\* Type correctness of every reachable state of the matrix driver.
THEOREM TypeCorrect == Spec => []TypeOK
  <1> USE ConstantsOK DEF Slots, Rows, Lines
  <1>1. Init => TypeOK
    <2> SUFFICES ASSUME Init PROVE TypeOK
      OBVIOUS
    <2>1. timer \in BOOLEAN
      BY DEF Init
    <2>2. index \in Slots /\ i \in Nat /\ seen \in [Keys -> 0..Samples]
      BY DEF Init
    <2>3. mode \in [Lines -> {"int", "input"}] /\ state \in [Slots -> SUBSET Keys]
      BY DEF Init
    <2> QED
      BY <2>1, <2>2, <2>3 DEF Init, TypeOK
  <1>2. TypeOK /\ [Next]_vars => TypeOK'
    <2> SUFFICES ASSUME TypeOK, [Next]_vars
                 PROVE  TypeOK'
      OBVIOUS
    <2> USE DEF TypeOK
    <2>1. ASSUME NEW k \in Keys, Press(k) \/ Release(k)
          PROVE  TypeOK'
      BY <2>1 DEF Press, Release, Edges, svars
    <2>2. ASSUME NEW l \in Lines, matrix_irq(l)
          PROVE  TypeOK'
      BY <2>2 DEF matrix_irq, svars
    <2>3. CASE ScanStart
      <3>1. timer' \in BOOLEAN
        BY <2>3 DEF ScanStart
      <3>2. index' \in Slots
        BY <2>3 DEF ScanStart
      <3> QED
        BY <2>3, <3>1, <3>2 DEF ScanStart, pvars
    <2>4. CASE SampleRow
      BY <2>4 DEF SampleRow, Edges
    <2>5. CASE Report
      <3>1. timer' \in BOOLEAN
        BY <2>5 DEF Report
      <3>2. seen' \in [Keys -> 0..Samples]
        <4>1. \A k \in Keys : seen[k] \in 0..Samples
          OBVIOUS
        <4> QED
          BY <2>5, <4>1 DEF Report, ReportRest
      <3>3. reported' \in SUBSET Keys /\ last_state' \in SUBSET Keys
        BY <2>5 DEF Report, Deliver, Debounced
      <3>4. pend' \in SUBSET Lines /\ drive' \in SUBSET Rows
        BY <2>5 DEF Report, ReportRest, Edges
      <3>5. spc' \in {"idle", "return"} /\ i' = 0
        BY <2>5 DEF Report, ReportRest
      <3> QED
        BY <2>5, <3>1, <3>2, <3>3, <3>4, <3>5 DEF Report, ReportRest
    <2>6. CASE ReturnLine
      BY <2>6 DEF ReturnLine
    <2>7. CASE UNCHANGED vars
      BY <2>7 DEF vars, kvars, pvars, svars
    <2> QED
      BY <2>1, <2>2, <2>3, <2>4, <2>5, <2>6, <2>7 DEF Next, matrix_scan
  <1> QED
    BY <1>1, <1>2, PTL DEF Spec

-----------------------------------------------------------------------------

(***************************************************************************)
(* Until an interrupt starts the timer again, the lines matrix_scan has    *)
(* returned stay interrupt inputs.                                         *)
(***************************************************************************)
LinesInv ==
    ~timer =>
        /\ spc = "idle" => \A l \in Lines : mode[l] = "int"
        /\ spc = "return" => \A l \in Lines : l < i => mode[l] = "int"

\* The scan that returns the lines has found no key down.
KeysInv ==
    /\ \A k \in keymap : k \in reported <=> k \in last_state
    /\ reported \subseteq keymap
    /\ spc = "return" => last_state = {}
    /\ spc = "idle" /\ ~timer => last_state = {}

\* LinesInv is preserved by every step.
LEMMA LinesStep == TypeOK /\ LinesInv /\ [Next]_vars => LinesInv'
  <1> SUFFICES ASSUME TypeOK, LinesInv, [Next]_vars
               PROVE  LinesInv'
    OBVIOUS
  <1> USE ConstantsOK DEF LinesInv, TypeOK, Lines
  <1>1. ASSUME NEW k \in Keys, Press(k) \/ Release(k)
        PROVE  LinesInv'
    BY <1>1 DEF Press, Release, svars
  <1>2. ASSUME NEW l \in Lines, matrix_irq(l)
        PROVE  LinesInv'
    BY <1>2 DEF matrix_irq
  <1>3. CASE ScanStart
    BY <1>3 DEF ScanStart
  <1>4. CASE SampleRow
    BY <1>4 DEF SampleRow
  <1>5. CASE Report
    BY <1>5 DEF Report, ReportRest
  <1>6. CASE ReturnLine
    BY <1>6 DEF ReturnLine
  <1>7. CASE UNCHANGED vars
    BY <1>7 DEF vars, kvars, pvars, svars
  <1> QED
    BY <1>1, <1>2, <1>3, <1>4, <1>5, <1>6, <1>7 DEF Next, matrix_scan

\* KeysInv is preserved by every step: what is debounced was in the last sample.
LEMMA KeysStep == TypeOK /\ KeysInv /\ [Next]_vars => KeysInv'
  <1> SUFFICES ASSUME TypeOK, KeysInv, [Next]_vars
               PROVE  KeysInv'
    OBVIOUS
  <1> USE ConstantsOK DEF KeysInv, TypeOK
  <1>1. ASSUME NEW k \in Keys, Press(k) \/ Release(k)
        PROVE  KeysInv'
    BY <1>1 DEF Press, Release, svars
  <1>2. ASSUME NEW l \in Lines, matrix_irq(l)
        PROVE  KeysInv'
    BY <1>2 DEF matrix_irq, svars
  <1>3. CASE ScanStart
    BY <1>3 DEF ScanStart
  <1>4. CASE SampleRow
    BY <1>4 DEF SampleRow
  <1>5. CASE Report
    <2>1. Debounced \subseteq state[index]
      BY DEF Debounced
    <2>2. keymap \subseteq Keys
      BY DEF keymap
    <2>3. reported' = {k \in Keys : IF k \in Changed(Debounced) THEN k \in Debounced
                                                                ELSE k \in reported}
      BY <1>5 DEF Report, Deliver
    <2>4. \A k \in keymap : k \in reported' <=> k \in last_state'
      BY <1>5, <2>2, <2>3 DEF Report, Changed
    <2>5. reported' \subseteq keymap
      BY <2>3 DEF Changed
    <2>6. spc' = "idle" => timer'
      BY <1>5 DEF Report, ReportRest
    <2>7. spc' = "return" => last_state' = {}
      BY <1>5, <2>1 DEF Report, ReportRest
    <2> QED
      BY <2>4, <2>5, <2>6, <2>7
  <1>6. CASE ReturnLine
    BY <1>6 DEF ReturnLine
  <1>7. CASE UNCHANGED vars
    BY <1>7 DEF vars, kvars, pvars, svars
  <1> QED
    BY <1>1, <1>2, <1>3, <1>4, <1>5, <1>6, <1>7 DEF Next, matrix_scan

(***************************************************************************)
(* The driver is never deaf and leaves no key stuck: when no scan is due,  *)
(* every line can interrupt and every key is reported up.                  *)
(***************************************************************************)
THEOREM QuietIsSafe == Spec => []QuietIsReady
  <1>1. Init => LinesInv /\ KeysInv
    BY DEF Init, LinesInv, KeysInv
  <1>2. TypeOK /\ LinesInv /\ KeysInv /\ [Next]_vars => (LinesInv /\ KeysInv)'
    BY LinesStep, KeysStep
  <1>3. LinesInv /\ KeysInv => QuietIsReady
    <2> SUFFICES ASSUME LinesInv, KeysInv, Quiet
                 PROVE  (\A l \in Lines : mode[l] = "int") /\ reported = {}
      BY DEF QuietIsReady
    <2> QED
      BY DEF LinesInv, KeysInv, Quiet
  <1> QED
    BY <1>1, <1>2, <1>3, TypeCorrect, PTL DEF Spec

-----------------------------------------------------------------------------

\* How many scans ago slot s was filled, counting the scan of slot index as 0.
Age(s) == IF s <= index THEN index - s ELSE index - s + Samples

\* Between scans: the seen[k] youngest samples hold k, and the next one does not.
RingFull ==
    \A k \in Keys :
        /\ \A s \in Slots : Age(s) < seen[k] => k \in state[s]
        /\ seen[k] < Samples => \E s \in Slots : Age(s) = seen[k] /\ k \notin state[s]

\* During a scan: the same for the samples before the one that is being taken.
RingPart ==
    \A k \in Keys :
        /\ \A s \in Slots \ {index} : Age(s) - 1 < seen[k] => k \in state[s]
        /\ seen[k] < Samples - 1 =>
               \E s \in Slots \ {index} : Age(s) - 1 = seen[k] /\ k \notin state[s]

\* The ring between scans and during one, and what was debounced from it.
RingInv ==
    /\ spc \in {"idle", "return"} => RingFull
    /\ spc \in {"sample", "report"} => RingPart
    /\ spc \in {"idle", "return"} => \A k \in Keys : k \in last_state <=> seen[k] = Samples

\* The ages of the slots are the numbers below Samples.
LEMMA AgeBound ==
  ASSUME TypeOK, NEW s \in Slots
  PROVE  Age(s) \in 0..(Samples - 1) /\ (Age(s) = 0 <=> s = index)
  BY ConstantsOK DEF Age, Slots, TypeOK

\* When index advances every older sample ages by one and the oldest is dropped.
LEMMA StartRing ==
  ASSUME TypeOK, RingInv, ScanStart
  PROVE  RingInv'
  <1> USE ConstantsOK DEF TypeOK
  <1>1. RingFull /\ spc' = "sample" /\ seen' = seen /\ index' \in Slots
    BY DEF RingInv, ScanStart, Slots
  <1>2. \A s \in Slots \ {index'} : state'[s] = state[s]
    BY DEF ScanStart
  <1>3. \A s \in Slots \ {index'} : Age(s)' - 1 = Age(s)
    BY DEF Age, ScanStart, Slots
  <1>4. Age(index') = Samples - 1
    BY DEF Age, ScanStart, Slots
  <1>5. RingPart'
    <2> SUFFICES ASSUME NEW k \in Keys
                 PROVE  /\ \A s \in Slots \ {index'} : Age(s)' - 1 < seen[k] => k \in state'[s]
                        /\ seen[k] < Samples - 1 =>
                              \E s \in Slots \ {index'} : Age(s)' - 1 = seen[k] /\ k \notin state'[s]
      BY <1>1 DEF RingPart
    <2>1. \A s \in Slots \ {index'} : Age(s)' - 1 < seen[k] => k \in state'[s]
      BY <1>1, <1>2, <1>3 DEF RingFull
    <2>2. ASSUME seen[k] < Samples - 1
          PROVE  \E s \in Slots \ {index'} : Age(s)' - 1 = seen[k] /\ k \notin state'[s]
      <3>0. seen[k] \in 0..Samples
        OBVIOUS
      <3>1. PICK s \in Slots : Age(s) = seen[k] /\ k \notin state[s]
        BY <1>1, <2>2, <3>0 DEF RingFull
      <3>2. s # index'
        BY <1>4, <2>2, <3>0, <3>1
      <3> QED
        BY <1>2, <1>3, <3>1, <3>2
    <2> QED
      BY <2>1, <2>2
  <1> QED
    BY <1>1, <1>5 DEF RingInv

\* The finished sample becomes the youngest one, and the AND over the array is seen = Samples.
LEMMA ReportRing ==
  ASSUME TypeOK, RingInv, Report
  PROVE  RingInv'
  <1> USE ConstantsOK DEF TypeOK
  <1>1. /\ RingPart /\ spc' \in {"idle", "return"}
        /\ index' = index /\ state' = state /\ last_state' = Debounced
        /\ seen' = [k \in Keys |-> IF k \notin state[index] THEN 0
                               ELSE IF seen[k] < Samples THEN seen[k] + 1 ELSE Samples]
    BY DEF RingInv, Report, ReportRest
  <1>2. \A s \in Slots : Age(s)' = Age(s)
    BY <1>1 DEF Age
  <1>3. ASSUME NEW k \in Keys
        PROVE  /\ \A s \in Slots : Age(s) < seen'[k] => k \in state[s]
               /\ seen'[k] < Samples => \E s \in Slots : Age(s) = seen'[k] /\ k \notin state[s]
    <2>0. seen[k] \in 0..Samples /\ index \in Slots /\ Age(index) = 0
      BY AgeBound
    <2>a. \A s \in Slots : Age(s) \in 0..(Samples - 1)
      BY AgeBound
    <2>1. CASE k \notin state[index]
      BY <1>1, <2>0, <2>1, <2>a
    <2>2. CASE k \in state[index]
      <3>1. seen'[k] = IF seen[k] < Samples THEN seen[k] + 1 ELSE Samples
        BY <1>1, <2>2
      <3>2. ASSUME NEW s \in Slots, Age(s) < seen'[k]
            PROVE  k \in state[s]
        <4>1. CASE s = index
          BY <2>2, <4>1
        <4>2. CASE s # index
          <5>1. Age(s) - 1 < seen[k]
            BY <2>0, <2>a, <3>1, <3>2
          <5> QED
            BY <1>1, <4>2, <5>1 DEF RingPart
        <4> QED
          BY <4>1, <4>2
      <3>3. ASSUME seen'[k] < Samples
            PROVE  \E s \in Slots : Age(s) = seen'[k] /\ k \notin state[s]
        <4>1. seen'[k] = seen[k] + 1 /\ seen[k] < Samples - 1
          BY <2>0, <3>1, <3>3
        <4>2. PICK s \in Slots \ {index} : Age(s) - 1 = seen[k] /\ k \notin state[s]
          BY <1>1, <4>1 DEF RingPart
        <4>3. Age(s) = seen'[k]
          BY <2>0, <2>a, <4>1, <4>2
        <4> QED
          BY <4>2, <4>3
      <3> QED
        BY <3>2, <3>3
    <2> QED
      BY <2>1, <2>2
  <1>4. RingFull'
    BY <1>1, <1>2, <1>3 DEF RingFull
  <1>5. ASSUME NEW k \in Keys
        PROVE  k \in last_state' <=> seen'[k] = Samples
    <2>1. seen'[k] \in 0..Samples
      <3>1. seen[k] \in 0..Samples
        OBVIOUS
      <3> QED
        BY <1>1, <3>1
    <2>2. \A s \in Slots : Age(s) \in 0..(Samples - 1)
      BY AgeBound
    <2>3. CASE seen'[k] = Samples
      <3>1. \A s \in Slots : k \in state[s]
        BY <1>3, <2>2, <2>3
      <3> QED
        BY <1>1, <2>3, <3>1 DEF Debounced
    <2>4. CASE seen'[k] # Samples
      <3>1. seen'[k] < Samples
        BY <2>1, <2>4
      <3>2. \E s \in Slots : k \notin state[s]
        BY <1>3, <3>1
      <3> QED
        BY <1>1, <2>4, <3>2 DEF Debounced
    <2> QED
      BY <2>3, <2>4
  <1> QED
    BY <1>1, <1>4, <1>5 DEF RingInv

\* RingInv is preserved by every step.
LEMMA RingStep == TypeOK /\ RingInv /\ [Next]_vars => RingInv'
  <1> SUFFICES ASSUME TypeOK, RingInv, [Next]_vars
               PROVE  RingInv'
    OBVIOUS
  <1>1. ASSUME NEW k \in Keys, Press(k) \/ Release(k)
        PROVE  RingInv'
    BY <1>1 DEF RingInv, RingFull, RingPart, Age, Press, Release, svars
  <1>2. ASSUME NEW l \in Lines, matrix_irq(l)
        PROVE  RingInv'
    BY <1>2 DEF RingInv, RingFull, RingPart, Age, matrix_irq, svars
  <1>3. CASE ScanStart
    BY <1>3, StartRing
  <1>4. CASE SampleRow
    <2>1. RingPart /\ spc' \in {"sample", "report"} /\ UNCHANGED <<index, seen>>
      BY <1>4 DEF RingInv, SampleRow
    <2>2. \A s \in Slots \ {index} : state'[s] = state[s] /\ Age(s)' = Age(s)
      BY <1>4 DEF SampleRow, TypeOK, Age
    <2>3. RingPart'
      BY <2>1, <2>2 DEF RingPart
    <2> QED
      BY <2>1, <2>3 DEF RingInv
  <1>5. CASE Report
    BY <1>5, ReportRing
  <1>6. CASE ReturnLine
    BY <1>6 DEF RingInv, RingFull, RingPart, Age, ReturnLine
  <1>7. CASE UNCHANGED vars
    BY <1>7 DEF RingInv, RingFull, RingPart, Age, vars, kvars, pvars, svars
  <1> QED
    BY <1>1, <1>2, <1>3, <1>4, <1>5, <1>6, <1>7 DEF Next, matrix_scan

(***************************************************************************)
(* Debouncing is exact for any number of samples: between scans a key is   *)
(* reported down exactly if it was down in each of the last Samples scans. *)
(***************************************************************************)
THEOREM Debouncing == Spec => []DebounceExact
  <1>1. Init => RingInv /\ KeysInv
    <2> SUFFICES ASSUME Init PROVE RingInv
      BY DEF Init, KeysInv
    <2>1. 0 \in Slots /\ Age(0) = 0
      BY ConstantsOK DEF Init, Slots, Age
    <2>2. \A s \in Slots : Age(s) \in Nat
      BY ConstantsOK DEF Init, Slots, Age
    <2>3. RingFull
      BY <2>1, <2>2 DEF Init, RingFull
    <2>4. \A k \in Keys : k \notin last_state /\ seen[k] # Samples
      BY ConstantsOK DEF Init
    <2> QED
      BY <2>3, <2>4 DEF Init, RingInv
  <1>2. TypeOK /\ RingInv /\ KeysInv /\ [Next]_vars => (RingInv /\ KeysInv)'
    BY RingStep, KeysStep
  <1>3. RingInv /\ KeysInv => DebounceExact
    BY DEF RingInv, KeysInv, DebounceExact, keymap
  <1> QED
    BY <1>1, <1>2, <1>3, TypeCorrect, PTL DEF Spec

-----------------------------------------------------------------------------

\* A scan runs or is due.
ScanDue == timer \/ spc \in {"sample", "report"}

\* Until the next scan is due, the last one found every key up.
SeenInv == ~ScanDue => \A k \in Keys : seen[k] = 0

\* A key that the last scan found down, or that is reported down, has a scan to come.
KeysWatched == \A k \in Keys : (k \in reported \/ seen[k] > 0) => ScanDue

(***************************************************************************)
(* A step that leaves no scan to come ends a scan that found every key up, *)
(* and has reported every key up.                                          *)
(***************************************************************************)
GiveUp == (ScanDue /\ ~ScanDue') => (spc = "report" /\ state[index] = {} /\ reported' = {})

\* GiveUp, of every step.
ScansGoOn == [][GiveUp]_vars

\* SeenInv is preserved by every step.
LEMMA SeenStep == TypeOK /\ SeenInv /\ [Next]_vars => SeenInv'
  <1> SUFFICES ASSUME TypeOK, SeenInv, [Next]_vars
               PROVE  SeenInv'
    OBVIOUS
  <1> USE DEF SeenInv, ScanDue, TypeOK
  <1>1. ASSUME NEW k \in Keys, Press(k) \/ Release(k)
        PROVE  SeenInv'
    BY <1>1 DEF Press, Release, svars
  <1>2. ASSUME NEW l \in Lines, matrix_irq(l)
        PROVE  SeenInv'
    BY <1>2 DEF matrix_irq
  <1>3. CASE ScanStart
    BY <1>3 DEF ScanStart
  <1>4. CASE SampleRow
    BY <1>4 DEF SampleRow
  <1>5. CASE Report
    BY <1>5 DEF Report, ReportRest
  <1>6. CASE ReturnLine
    BY <1>6 DEF ReturnLine
  <1>7. CASE UNCHANGED vars
    BY <1>7 DEF vars, kvars, pvars, svars
  <1> QED
    BY <1>1, <1>2, <1>3, <1>4, <1>5, <1>6, <1>7 DEF Next, matrix_scan

(***************************************************************************)
(* What KeysReported needs beside fairness: the driver scans on, whatever  *)
(* interrupts fall into the scan, as long as a key is on its way to the    *)
(* input layer or is reported down, and it only gives up scanning after a  *)
(* scan that found all keys up.                                            *)
(***************************************************************************)
THEOREM KeysAreWatched == Spec => []KeysWatched /\ ScansGoOn
  <1>1. Init => SeenInv /\ KeysInv
    BY DEF Init, SeenInv, KeysInv
  <1>2. TypeOK /\ SeenInv /\ KeysInv /\ [Next]_vars => (SeenInv /\ KeysInv)'
    BY SeenStep, KeysStep
  <1>3. TypeOK /\ SeenInv /\ KeysInv => KeysWatched
    BY DEF TypeOK, SeenInv, KeysInv, KeysWatched, ScanDue
  <1>4. TypeOK /\ KeysInv /\ KeysInv' /\ [Next]_vars => [GiveUp]_vars
    <2> SUFFICES ASSUME TypeOK, KeysInv, KeysInv', Next, ScanDue, ~ScanDue'
                 PROVE  spc = "report" /\ state[index] = {} /\ reported' = {}
      BY DEF GiveUp
    <2> USE DEF ScanDue
    <2>1. Report
      <3>1. ~ScanStart /\ ~SampleRow
        BY DEF ScanStart, SampleRow
      <3>2. ~ReturnLine
        BY DEF ReturnLine
      <3>3. \A k \in Keys : ~Press(k) /\ ~Release(k)
        BY DEF Press, Release, svars
      <3>4. \A l \in Lines : ~matrix_irq(l)
        BY DEF matrix_irq
      <3> QED
        BY <3>1, <3>2, <3>3, <3>4 DEF Next, matrix_scan
    <2>2. state[index] = {} /\ spc' = "return"
      BY <2>1 DEF Report
    <2> QED
      BY <2>1, <2>2 DEF Report, ReportRest, KeysInv
  <1> QED
    BY <1>1, <1>2, <1>3, <1>4, TypeCorrect, PTL DEF Spec, ScansGoOn
=============================================================================
