--------------------------- MODULE JiveWheelProofs --------------------------
(* Proofs about the scroll wheel driver, for any wrap of jiffies, any width of the  *)
(* button's shift register and any speed of the wheel.                              *)
EXTENDS JiveWheel, TLAPS

\* The remainder of a counter is in the range of the counter.
LEMMA ModRange ==
    ASSUME NEW a \in Int, NEW n \in Nat \ {0}
    PROVE  a % n \in 0..(n - 1)
  OBVIOUS

\* A scan shifts the register within its width.
LEMMA ShiftType ==
    ASSUME last_button \in SUBSET (0..(ButtonBits - 1))
    PROVE  ShiftButton \in SUBSET (0..(ButtonBits - 1))
  BY ConstantsOK DEF ShiftButton

\* The position at which the wheel has the levels ab.
PosOf(ab) == CASE ab = 3 -> 0 [] ab = 1 -> 1 [] ab = 0 -> 2 [] ab = 2 -> 3

\* The four pairs of levels stand for the four positions, one for one.
LEMMA PosOfAB ==
    /\ \A ab \in 0..3 : PosOf(ab) \in 0..3 /\ AB(PosOf(ab)) = ab
    /\ \A p \in 0..3 : AB(p) \in 0..3 /\ PosOf(AB(p)) = p
  BY DEF PosOf, AB

\* Ahead measures from the one position that has the levels.
LEMMA AheadIs ==
    ASSUME NEW q \in Int, NEW ab \in 0..3
    PROVE  Ahead(q, ab) = (q - PosOf(ab)) % 4
  <1>1. \A p \in 0..3 : AB(p) = ab => p = PosOf(ab)
    BY PosOfAB
  <1>2. (CHOOSE p \in 0..3 : AB(p) = ab) = PosOf(ab)
    BY <1>1, PosOfAB
  <1> QED
    BY <1>2 DEF Ahead

(***************************************************************************)
(* The decoder is a quadrature decoder: the switch over the two last       *)
(* levels finds a pulse exactly if the wheel is one position away from the *)
(* levels taken over last, and in its direction.                           *)
(***************************************************************************)
LEMMA PulseIs ==
    ASSUME NEW q \in 0..3, NEW ab \in 0..3
    PROVE  Pulse(AB(q) * 4 + ab) = LET d == (q - PosOf(ab)) % 4
                                   IN  IF d = 1 THEN 1 ELSE IF d = 3 THEN -1 ELSE 0
  <1>1. CASE q = 0
    BY <1>1 DEF Pulse, AB, PosOf
  <1>2. CASE q = 1
    BY <1>2 DEF Pulse, AB, PosOf
  <1>3. CASE q = 2
    BY <1>3 DEF Pulse, AB, PosOf
  <1>4. CASE q = 3
    BY <1>4 DEF Pulse, AB, PosOf
  <1> QED
    BY <1>1, <1>2, <1>3, <1>4

-----------------------------------------------------------------------------

\* The wheel is no further from where the last scan found it than it made pulses.
StepInv == step \in -moves..moves

\* The state after jive_wheel_probe has its types.
LEMMA InitTypes == Init => TypeOK /\ StepInv
  <1> SUFFICES ASSUME Init PROVE TypeOK /\ StepInv
    OBVIOUS
  <1>1. btn \in BOOLEAN /\ timer \in BOOLEAN /\ key \in BOOLEAN /\ synced \in BOOLEAN /\ fast \in BOOLEAN
    BY DEF Init
  <1> QED
    BY <1>1, ConstantsOK DEF Init, TypeOK, StepInv, NoLine, PULSES_PER_DETENT

\* A scan keeps the types; the history of the wheel is bounded as the wheel is.
LEMMA ScanTypes == TypeOK /\ wheel_scan => TypeOK'
  <1> SUFFICES ASSUME TypeOK, wheel_scan PROVE TypeOK'
    OBVIOUS
  <1> USE ConstantsOK
  <1>1. /\ UNCHANGED <<at, btn, mode, pend>>
        /\ ret' \in 0..NoLine
        /\ step' = 0 /\ moves' = 0
        /\ ups' \in 0..KeyBits
        /\ idle' \in 0..IdleCap
    BY DEF wheel_scan, TypeOK, Later, NoLine, pvars
  <1>2. timer' \in BOOLEAN
    BY DEF wheel_scan, ScanAgain
  <1>3. key' \in BOOLEAN
    BY DEF wheel_scan, TypeOK
  <1>4. synced' \in BOOLEAN
    BY Zenon DEF wheel_scan
  <1>5. fast' \in BOOLEAN
    BY ZenonT(30) DEF wheel_scan
  <1>6. last_button' \in SUBSET (0..(ButtonBits - 1))
    BY ShiftType DEF wheel_scan, TypeOK
  <1>7. jiffies' \in 0..(Wrap - 1)
    <2>1. (jiffies + 1) % Wrap \in 0..(Wrap - 1)
      BY ModRange DEF TypeOK
    <2> QED
      BY <2>1 DEF wheel_scan
  <1>8. click_jiffies' \in 0..(Wrap - 1)
    <2>1. click_jiffies' = jiffies' \/ click_jiffies' = click_jiffies
      BY DEF wheel_scan
    <2> QED
      BY <1>7, <2>1 DEF TypeOK
  <1>9. lastAB' \in 0..3
    BY PosOfAB DEF wheel_scan, NewAB, TypeOK
  <1> DEFINE pulse == Pulse(AB(at) * 4 + lastAB)
             lag == Ahead(at, NewAB(AB(at), pulse))
  <1>10. pulse \in -1..1
    BY PulseIs DEF TypeOK
  <1>11. pos' \in -PULSES_PER_DETENT..PULSES_PER_DETENT
    <2>1. \/ pos' = 0 \/ pos' = Detent(0) \/ pos' = Detent(pos + pulse)
      BY DEF wheel_scan
    <2>2. pos + pulse \in Int
      BY <1>10 DEF TypeOK
    <2> HIDE DEF pulse
    <2> QED
      BY <2>1, <2>2 DEF Detent, PULSES_PER_DETENT
  <1>12. lag \in 0..3
    <2>1. lag = Ahead(at, lastAB')
      BY DEF wheel_scan
    <2>2. lag = (at - PosOf(lastAB')) % 4
      BY <1>9, <2>1, AheadIs DEF TypeOK
    <2>3. at - PosOf(lastAB') \in Int
      BY <1>9, PosOfAB DEF TypeOK
    <2> HIDE DEF lag
    <2> QED
      BY <2>2, <2>3
  <1>13. turned' \in Int
    <2>1. (IF synced THEN turned + step ELSE pos + pulse) \in Int
      BY <1>10 DEF TypeOK
    <2>2. \/ turned' = lag
          \/ turned' = (IF synced THEN turned + step ELSE pos + pulse) % 4
          \/ turned' = (IF synced THEN turned + step ELSE pos + pulse)
      BY DEF wheel_scan
    <2> HIDE DEF pulse, lag
    <2> QED
      BY <1>12, <2>1, <2>2
  <1> QED
    BY <1>1, <1>2, <1>3, <1>4, <1>5, <1>6, <1>7, <1>8, <1>9, <1>11, <1>13 DEF TypeOK

\* Every step of the driver, its interrupt, the wheel and the button keeps the types.
LEMMA TypesStep == TypeOK /\ StepInv /\ [Next]_vars => TypeOK' /\ StepInv'
  <1> SUFFICES ASSUME TypeOK, StepInv, [Next]_vars PROVE TypeOK' /\ StepInv'
    OBVIOUS
  <1> USE ConstantsOK DEF StepInv, dvars, hvars, pvars
  <1>1. ASSUME NEW d \in {1, -1}, Rotate(d)
        PROVE  TypeOK' /\ StepInv'
    <2>1. at' \in 0..3
      BY <1>1, ModRange DEF Rotate, TypeOK
    <2>2. step' \in -moves'..moves' /\ moves' \in 0..MaxMoves
      BY <1>1 DEF Rotate, TypeOK
    <2>3. pend' \in SUBSET Lines
      BY <1>1 DEF Rotate, Raise, LineOf, Lines, TypeOK
    <2> QED
      BY <1>1, <2>1, <2>2, <2>3 DEF Rotate, TypeOK
  <1>2. CASE Button
    <2>1. btn' \in BOOLEAN
      BY <1>2 DEF Button
    <2>2. pend' \in SUBSET Lines
      BY <1>2 DEF Button, Raise, Lines, TypeOK
    <2> QED
      BY <1>2, <2>1, <2>2 DEF Button, TypeOK
  <1>3. ASSUME NEW l \in Lines, wheel_irq(l)
        PROVE  TypeOK' /\ StepInv'
    <2>1. timer' \in BOOLEAN
      BY <1>3 DEF wheel_irq
    <2> QED
      BY <1>3, <2>1 DEF wheel_irq, TypeOK
  <1>4. CASE Tick
    <2>1. (jiffies + 1) % Wrap \in 0..(Wrap - 1)
      BY ModRange DEF TypeOK
    <2> QED
      BY <1>4, <2>1 DEF Tick, Later, TypeOK
  <1>5. CASE wheel_scan
    <2>1. step' = 0 /\ moves' = 0
      BY <1>5 DEF wheel_scan
    <2> QED
      BY <1>5, <2>1, ScanTypes
  <1>6. CASE ReturnLine
    BY <1>6 DEF ReturnLine, NoLine, Lines, TypeOK
  <1>7. CASE UNCHANGED vars
    BY <1>7 DEF vars, TypeOK
  <1> QED
    BY <1>1, <1>2, <1>3, <1>4, <1>5, <1>6, <1>7 DEF Next

\* Type correctness of the driver: position and registers stay in their ranges.
THEOREM TypeCorrect == Spec => []TypeOK
  BY InitTypes, TypesStep, PTL DEF Spec

-----------------------------------------------------------------------------

(***************************************************************************)
(* The register and the scans: the most recent 1 among the bits of the key *)
(* report is as old as the last scan that saw the button down.             *)
(***************************************************************************)
ShiftInv ==
    /\ \A b \in last_button : b < KeyBits => b >= ups
    /\ ups < KeyBits => ups \in last_button

\* Without a timer the register is empty and the lines returned so far are interrupt inputs.
LinesInv ==
    ~timer => /\ last_button = {}
              /\ \A l \in Lines : l < ret => mode[l] = "int"

\* The inductive invariant of the button.
ButtonInv == ShiftInv /\ LinesInv /\ ReleaseDebounced

\* The key report sees a 1 exactly if the button was down in one of the last KeyBits scans.
LEMMA MaskIs ==
    ASSUME TypeOK, ShiftInv
    PROVE  last_button \cap KeyMask # {} <=> ups < KeyBits
  BY ConstantsOK DEF TypeOK, ShiftInv, KeyMask

\* A scan shifts the age of the samples.
LEMMA ShiftScan == TypeOK /\ ShiftInv /\ wheel_scan => ShiftInv'
  <1> SUFFICES ASSUME TypeOK, ShiftInv, wheel_scan PROVE ShiftInv'
    OBVIOUS
  <1> USE ConstantsOK
  <1>1. /\ last_button' = ShiftButton
        /\ ups' = IF btn THEN 0 ELSE IF ups < KeyBits THEN ups + 1 ELSE ups
    BY DEF wheel_scan
  <1>2. CASE btn
    BY <1>1, <1>2 DEF ShiftButton, ShiftInv, TypeOK
  <1>3. CASE ~btn
    BY <1>1, <1>3 DEF ShiftButton, ShiftInv, TypeOK
  <1> QED
    BY <1>2, <1>3

\* Scans, interrupts and moves of the button keep the invariant of the shift register.
LEMMA ButtonStep == TypeOK /\ ButtonInv /\ [Next]_vars => ButtonInv'
  <1> SUFFICES ASSUME TypeOK, ButtonInv, [Next]_vars PROVE ButtonInv'
    OBVIOUS
  <1> USE DEF ButtonInv
  <1>1. CASE wheel_scan
    <2>1. TypeOK' /\ ShiftInv'
      BY <1>1, ScanTypes, ShiftScan
    <2>2. ReleaseDebounced'
      <3>1. last_button' \cap KeyMask # {} <=> ups' < KeyBits
        BY <2>1, ConstantsOK DEF TypeOK, ShiftInv, KeyMask
      <3>2. CASE last_button' \cap KeyMask # last_button \cap KeyMask
        <4>1. key' <=> last_button' \cap KeyMask # {}
          BY <1>1, <3>2 DEF wheel_scan
        <4> QED
          BY <3>1, <4>1 DEF ReleaseDebounced
      <3>3. CASE last_button' \cap KeyMask = last_button \cap KeyMask
        <4>1. key' = key
          BY <1>1, <3>3 DEF wheel_scan
        <4> QED
          BY <3>1, <3>3, <4>1, MaskIs DEF ReleaseDebounced
      <3> QED
        BY <3>2, <3>3
    <2>3. LinesInv'
      <3>1. ~timer' => last_button' = {} /\ ret' = 0
        BY <1>1 DEF wheel_scan, ScanAgain
      <3> QED
        BY <3>1 DEF LinesInv, Lines
    <2> QED
      BY <2>1, <2>2, <2>3
  <1>2. CASE ReturnLine
    BY <1>2 DEF ReturnLine, dvars, hvars, TypeOK, NoLine, Lines, ShiftInv, LinesInv, ReleaseDebounced
  <1>3. ASSUME NEW l \in Lines, wheel_irq(l)
        PROVE  ButtonInv'
    BY <1>3 DEF wheel_irq, dvars, hvars, ShiftInv, LinesInv, ReleaseDebounced
  <1>4. CASE UNCHANGED <<last_button, ups, key, timer, ret, mode>>
    BY <1>4 DEF ShiftInv, LinesInv, ReleaseDebounced
  <1>5. (\E d \in {1, -1} : Rotate(d)) \/ Button \/ Tick \/ UNCHANGED vars
            => UNCHANGED <<last_button, ups, key, timer, ret, mode>>
    BY DEF Rotate, Button, Tick, vars, dvars, hvars, pvars
  <1> QED
    BY <1>1, <1>2, <1>3, <1>4, <1>5 DEF Next

\* The shift register starts empty.
LEMMA ButtonInit == Init => ButtonInv
  BY ConstantsOK DEF Init, ButtonInv, ShiftInv, LinesInv, ReleaseDebounced

(***************************************************************************)
(* The release of the button is debounced, for any width of the register   *)
(* and of the mask that fits in it.                                        *)
(***************************************************************************)
THEOREM Debounced == Spec => []ReleaseDebounced
  <1>1. ButtonInv => ReleaseDebounced
    BY DEF ButtonInv
  <1> QED
    BY <1>1, TypeCorrect, ButtonInit, ButtonStep, PTL DEF Spec

(***************************************************************************)
(* When no scan is due every line is an interrupt input and the button is  *)
(* reported up, wherever wheel_irq interrupts the return of the lines.     *)
(***************************************************************************)
THEOREM NeverDeaf == Spec => []QuietIsReady
  <1>1. TypeOK /\ ButtonInv => QuietIsReady
    BY DEF ButtonInv, ShiftInv, LinesInv, ReleaseDebounced, QuietIsReady, Quiet, NoLine, Lines, TypeOK
  <1> QED
    BY <1>1, TypeCorrect, ButtonInit, ButtonStep, PTL DEF Spec

-----------------------------------------------------------------------------

(***************************************************************************)
(* What the decoder has not counted yet is how far the wheel is ahead of   *)
(* the levels it took over last.  Neither part is inductive alone: that a  *)
(* slow wheel is counted exactly needs the position to be known modulo a   *)
(* cycle, which is what the fast wheel keeps.                              *)
(***************************************************************************)
CountInv == TurnsCounted /\ FastTurnsLoseCycles

\* Nothing is counted and nothing is pending at the start.
LEMMA CountInit == Init => CountInv
  BY DEF Init, CountInv, TurnsCounted, FastTurnsLoseCycles

\* A pulse of the wheel adds to what is pending, by the levels it leaves on the two lines.
LEMMA CountRotate ==
    ASSUME TypeOK, CountInv, NEW d \in {1, -1}, Rotate(d)
    PROVE  CountInv'
  <1> USE DEF Rotate, dvars
  <1>1. TurnsCounted'
    BY DEF CountInv, TurnsCounted
  <1>2. FastTurnsLoseCycles'
    <2> SUFFICES ASSUME synced PROVE (turned - pos) % 4 = Ahead(at' - step', lastAB)
      BY DEF FastTurnsLoseCycles
    <2> DEFINE l == PosOf(lastAB)
    <2>1. l \in 0..3
      BY PosOfAB DEF TypeOK
    <2>2. at' \in Int /\ step' \in Int /\ at \in Int /\ step \in Int
      BY DEF TypeOK
    <2>3. Ahead(at - step, lastAB) = (at - step - l) % 4
      BY <2>2, AheadIs DEF TypeOK
    <2>4. Ahead(at' - step', lastAB) = (at' - step' - l) % 4
      BY <2>2, AheadIs DEF TypeOK
    <2> HIDE DEF l
    <2>5. (at' - step' - l) % 4 = (at - step - l) % 4
      BY <2>1, <2>2
    <2> QED
      BY <2>3, <2>4, <2>5 DEF CountInv, FastTurnsLoseCycles
  <1> QED
    BY <1>1, <1>2 DEF CountInv

\* wheel_scan counts what is pending, or misses whole cycles of a fast wheel.
LEMMA CountScan == TypeOK /\ CountInv /\ wheel_scan => CountInv'
  <1> SUFFICES ASSUME TypeOK, CountInv, wheel_scan PROVE CountInv'
    OBVIOUS
  <1> DEFINE pulse == Pulse(AB(at) * 4 + lastAB)
             l == PosOf(lastAB)
             d == (at - l) % 4
             lag == Ahead(at, lastAB')
             sync == IF synced THEN turned + step ELSE pos + pulse
             Reset == pos' = 0 /\ turned' = lag /\ fast' = (lag # 0)
             Goes == /\ pos' = pos + pulse
                     /\ fast' = (fast \/ (synced /\ step \notin -1..1))
                     /\ turned' = IF fast' THEN sync % 4 ELSE sync
  <1>1. l \in 0..3 /\ AB(l) = lastAB /\ d \in 0..3
    <2>1. l \in 0..3 /\ AB(l) = lastAB
      BY PosOfAB DEF TypeOK
    <2>2. at - l \in Int
      BY <2>1 DEF TypeOK
    <2> HIDE DEF l
    <2> QED
      BY <2>1, <2>2
  <1>2. pulse = IF d = 1 THEN 1 ELSE IF d = 3 THEN -1 ELSE 0
    BY PulseIs DEF TypeOK
  <1>3. /\ lastAB' = IF pulse # 0 THEN AB(at) ELSE lastAB
        /\ at' = at /\ step' = 0
        /\ synced' = (synced \/ AB(at) = lastAB \/ pulse # 0)
    BY DEF wheel_scan, NewAB
  <1>4. lag = IF pulse # 0 THEN 0 ELSE d
    <2>1. CASE pulse # 0
      <3>1. lag = (at - PosOf(AB(at))) % 4
        <4>1. AB(at) \in 0..3 /\ at \in Int
          BY PosOfAB DEF TypeOK
        <4>2. lag = Ahead(at, AB(at))
          BY <1>3, <2>1
        <4> QED
          BY <4>1, <4>2, AheadIs
      <3>2. PosOf(AB(at)) = at
        BY PosOfAB DEF TypeOK
      <3> QED
        BY <2>1, <3>1, <3>2 DEF TypeOK
    <2>2. CASE pulse = 0
      BY <1>3, <2>2, AheadIs DEF TypeOK
    <2> QED
      BY <2>1, <2>2
  <1>5. Reset \/ Goes
    BY DEF wheel_scan, NewAB, Detent
  <1>6. FastTurnsLoseCycles' <=> (synced' => (turned' - pos') % 4 = lag)
    <2>1. at' - step' = at
      BY <1>3 DEF TypeOK
    <2> QED
      BY <2>1 DEF FastTurnsLoseCycles
  <1>7. /\ turned \in Int /\ pos \in Int /\ step \in Int /\ at \in Int
        /\ synced => (turned - pos) % 4 = (at - step - l) % 4
        /\ (synced /\ ~fast) => pos = turned
    <2>1. Ahead(at - step, lastAB) = (at - step - l) % 4
      BY AheadIs DEF TypeOK
    <2> QED
      BY <2>1 DEF TypeOK, CountInv, TurnsCounted, FastTurnsLoseCycles
  <1>8. (~synced /\ synced') => lag = 0
    <2>1. AB(at) = lastAB => at = l
      BY PosOfAB DEF TypeOK
    <2>2. at = l => d = 0
      BY <1>1
    <2> QED
      BY <1>3, <1>4, <2>1, <2>2
  <1> HIDE DEF pulse, l, d, lag
  <1>9. CASE Reset
    <2>1. lag \in 0..3
      BY <1>1, <1>4
    <2>2. (turned' - pos') % 4 = lag
      BY <1>9, <2>1
    <2>3. ~fast' => pos' = turned'
      BY <1>9
    <2> QED
      BY <1>6, <2>2, <2>3 DEF CountInv, TurnsCounted
  <1>10. CASE Goes /\ synced
    <2>1. ~fast' => ~fast /\ step \in -1..1
      BY <1>10
    <2>2. (turned + step - pos - pulse) % 4 = lag
      BY <1>1, <1>2, <1>4, <1>7, <1>10 DEF d
    <2>3. (turned' - pos') % 4 = lag
      BY <1>2, <1>7, <1>10, <2>2
    <2>4. ~fast' => pulse = step
      BY <1>1, <1>2, <1>7, <1>10, <2>1 DEF d
    <2>5. ~fast' => pos' = turned'
      BY <1>7, <1>10, <2>1, <2>4
    <2> QED
      BY <1>6, <2>3, <2>5 DEF CountInv, TurnsCounted
  <1>11. CASE Goes /\ ~synced
    <2>1. (turned' - pos') % 4 = 0
      BY <1>2, <1>7, <1>11
    <2>2. ~fast' => pos' = turned'
      BY <1>11
    <2> QED
      BY <1>6, <1>8, <1>11, <2>1, <2>2 DEF CountInv, TurnsCounted
  <1> QED
    BY <1>5, <1>9, <1>10, <1>11

\* Every step keeps the account of the pulses.
LEMMA CountStep == TypeOK /\ CountInv /\ [Next]_vars => CountInv'
  <1> SUFFICES ASSUME TypeOK, CountInv, [Next]_vars PROVE CountInv'
    OBVIOUS
  <1>1. ASSUME NEW d \in {1, -1}, Rotate(d)
        PROVE  CountInv'
    BY <1>1, CountRotate
  <1>2. CASE wheel_scan
    BY <1>2, CountScan
  <1>3. CASE UNCHANGED <<at, lastAB, pos, step, synced, turned, fast>>
    BY <1>3 DEF CountInv, TurnsCounted, FastTurnsLoseCycles
  <1>4. Button \/ (\E l \in Lines : wheel_irq(l)) \/ Tick \/ ReturnLine \/ UNCHANGED vars
            => UNCHANGED <<at, lastAB, pos, step, synced, turned, fast>>
    BY DEF Button, wheel_irq, Tick, ReturnLine, vars, dvars, hvars
  <1> QED
    BY <1>1, <1>2, <1>3, <1>4 DEF Next

(***************************************************************************)
(* Quadrature decoding is exact for a wheel that goes no further than one  *)
(* pulse between two scans, from any position of the wheel at the start    *)
(* and across periods without scans, for any number of pulses.             *)
(***************************************************************************)
THEOREM SlowTurnsExact == Spec => []TurnsCounted
  <1>1. CountInv => TurnsCounted
    BY DEF CountInv
  <1> QED
    BY <1>1, TypeCorrect, CountInit, CountStep, PTL DEF Spec

(***************************************************************************)
(* However fast the wheel turns, the count is only wrong by whole          *)
(* quadrature cycles, but for an impossible state not yet taken over.      *)
(***************************************************************************)
THEOREM FastTurnsModulo == Spec => []FastTurnsLoseCycles
  <1>1. CountInv => FastTurnsLoseCycles
    BY DEF CountInv
  <1> QED
    BY <1>1, TypeCorrect, CountInit, CountStep, PTL DEF Spec
=============================================================================
