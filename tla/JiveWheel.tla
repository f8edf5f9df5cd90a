----------------------------- MODULE JiveWheel ------------------------------
(***************************************************************************)
(* The scroll wheel driver drivers/char/jive/jive_wheel.c: two quadrature  *)
(* lines (GPG4, GPG5) and the centre button (GPF7).                        *)
(*                                                                         *)
(* As in the matrix driver an edge makes wheel_irq turn the lines into     *)
(* plain inputs and start the timer; wheel_scan samples, reports, and      *)
(* either starts the timer again or returns the lines to interrupt.  With  *)
(* HZ = 200 both mod_timer calls ask for the current jiffy, so the timer   *)
(* fires with the next tick and every tick of a scanning driver is a scan. *)
(*                                                                         *)
(* ARRAY_SIZE(state) is 1: the quadrature lines are not debounced, and     *)
(* state and index carry nothing from one scan to the next.  last_button,  *)
(* an unsigned int, is written as the set of its bits that are 1.          *)
(***************************************************************************)
EXTENDS Integers

CONSTANTS
    Wrap,        \* jiffies is counted modulo Wrap (2^32)
    HalfSecond,  \* HZ/2
    BootTicks,   \* jiffies starts at -BootTicks (INITIAL_JIFFIES: -300*HZ)
    ButtonBits,  \* width of last_button (32)
    KeyBits,     \* bits of it that the key report looks at (0xFF: 8)
    MaxMoves,    \* bound on the pulses between two scans
    IdleCap      \* bound on the history variable idle

ASSUME ConstantsOK ==
    /\ Wrap \in Nat \ {0} /\ HalfSecond \in 1..(Wrap - 1) /\ BootTicks \in 1..(Wrap - 1)
    /\ ButtonBits \in Nat \ {0} /\ KeyBits \in 1..ButtonBits
    /\ MaxMoves \in Nat /\ IdleCap \in Nat \ {0}

PULSES_PER_DETENT == 2

Lines == 0..2

VARIABLES
    at,           \* position of the wheel, modulo a quadrature cycle
    btn,          \* the centre button is physically down
    mode,         \* line -> "int" (SFN2) or "input"
    pend,         \* lines with an interrupt that wheel_irq has not handled
    timer,        \* wheel_timer is pending
    ret,          \* the line wheel_scan returns to interrupt next, or none
    jiffies,
    click_jiffies,
    lastAB,
    pos,
    last_button,
    key,          \* KEY_RIGHT as the input layer takes it to be
    step,         \* history: where the wheel went since the last scan
    moves,        \* history: pulses since the last scan
    synced,       \* history: lastAB has been the wheel's position
    turned,       \* history: net pulses since pos was last set to 0
    fast,         \* history: too fast for the scans since then; turned is modulo a cycle
    ups,          \* history: consecutive scans with the button up
    idle          \* history: ticks since a pulse or since the button was down

pvars == <<mode, pend>>
hvars == <<step, moves, synced, turned, fast, ups>>
dvars == <<click_jiffies, lastAB, pos, last_button, key>>
vars  == <<at, btn, pvars, timer, ret, jiffies, dvars, hvars, idle>>

NoLine == 3

Init ==
    /\ at \in 0..3
    /\ btn = FALSE
    /\ mode = [l \in Lines |-> "int"]
    /\ pend = {}
    /\ timer = FALSE
    /\ ret = NoLine
    /\ jiffies = Wrap - BootTicks
    /\ click_jiffies = 0
    /\ lastAB = 0
    /\ pos = 0
    /\ last_button = {}
    /\ key = FALSE
    /\ step = 0 /\ moves = 0 /\ synced = FALSE /\ turned = 0 /\ fast = FALSE
    /\ ups = KeyBits
    /\ idle = IdleCap

\* The levels of the two lines, in the order of clockwise rotation.
AB(p) == CASE p = 0 -> 3 [] p = 1 -> 1 [] p = 2 -> 0 [] p = 3 -> 2

\* The line that changes between two neighbouring positions.
LineOf(p, q) == IF {AB(p), AB(q)} \in {{0, 1}, {2, 3}} THEN 0 ELSE 1

Raise(l) == IF mode[l] = "int" THEN {l} ELSE {}

-----------------------------------------------------------------------------

\* The wheel moves by one pulse, clockwise or not.
Rotate(d) ==
    /\ moves < MaxMoves
    /\ at' = (at + d) % 4
    /\ pend' = pend \cup Raise(LineOf(at, at'))
    /\ step' = step + d /\ moves' = moves + 1
    /\ idle' = 0
    /\ UNCHANGED <<btn, mode, timer, ret, jiffies, dvars, synced, turned, fast, ups>>

\* The button goes down or up.
Button ==
    /\ btn' = ~btn
    /\ pend' = pend \cup Raise(2)
    /\ idle' = 0
    /\ UNCHANGED <<at, mode, timer, ret, jiffies, dvars, hvars>>

wheel_irq(l) ==
    /\ l \in pend
    /\ pend' = pend \ {l}
    /\ mode' = [x \in Lines |-> "input"]
    /\ timer' = TRUE
    /\ UNCHANGED <<at, btn, ret, jiffies, dvars, hvars, idle>>

-----------------------------------------------------------------------------

\* A button that is held is activity.
Later(n) == IF btn THEN 0 ELSE IF n < IdleCap THEN n + 1 ELSE n

\* A tick while no scan is due.
Tick ==
    /\ ret = NoLine /\ ~timer /\ pend = {}
    /\ jiffies' = (jiffies + 1) % Wrap
    /\ idle' = Later(idle)
    /\ UNCHANGED <<at, btn, pvars, timer, ret, dvars, hvars>>

\* Faulty variant: two labels of the switch are swapped.
PulseSwapped(ABCD) ==
    CASE ABCD \in {1, 8, 7, 13} -> 1 [] ABCD \in {11, 4, 2, 14} -> -1 [] OTHER -> 0

\* What the switch over the two last levels adds to pos.
Pulse(ABCD) ==
    CASE ABCD \in {1, 8, 7, 14} -> 1 [] ABCD \in {11, 4, 2, 13} -> -1 [] OTHER -> 0

\* How far the wheel, found at q, is ahead of levels ab, modulo a cycle.
Ahead(q, ab) == (q - (CHOOSE p \in 0..3 : AB(p) = ab)) % 4

\* Faulty variant: an impossible state is taken over, too.
NewABAlways(ab, pulse) == ab

\* lastAB after a scan; an impossible state leaves it alone.
NewAB(ab, pulse) == IF pulse # 0 THEN ab ELSE lastAB

\* Faulty variant: the old samples are not shifted out.
ShiftButtonSticky == last_button \cup (IF btn THEN {0} ELSE {})

\* button: the sample shifted in, the oldest one shifted out.
ShiftButton ==
    {b + 1 : b \in last_button \ {ButtonBits - 1}} \cup (IF btn THEN {0} ELSE {})

\* 0xFF
KeyMask == 0..(KeyBits - 1)

\* Faulty variant: scanning only depends on the wheel.
ScanAgainWheelOnly(now, click, button) == now < (click + HalfSecond) % Wrap

\* "scan until 0.5 seconds of inactiviy", in unsigned arithmetic.
ScanAgain(now, click, button) ==
    now < (click + HalfSecond) % Wrap \/ button # {}

\* pos after a detent has been reported, if it has gone far enough.
Detent(p) ==
    IF p > PULSES_PER_DETENT \/ p < -PULSES_PER_DETENT THEN 0 ELSE p

\* The timer fires with a tick; everything up to the decision to go on.
wheel_scan ==
    LET now    == (jiffies + 1) % Wrap
        ab     == AB(at)
        pulse  == Pulse(ab * 4 + lastAB)
        button == ShiftButton
        change == button \cap KeyMask # last_button \cap KeyMask
        moved  == IF change THEN 0 ELSE pos + pulse
        click  == IF pulse # 0 THEN now ELSE click_jiffies
        again  == ScanAgain(now, click, button)
        lag    == Ahead(at, NewAB(ab, pulse))
        reset  == ~again \/ change \/ Detent(moved) # moved
        sync   == IF synced THEN turned + step ELSE pos + pulse
    IN  /\ ret = NoLine /\ timer /\ pend = {}
        /\ jiffies' = now
        /\ lastAB' = NewAB(ab, pulse)
        /\ click_jiffies' = click
        /\ key' = IF change THEN button \cap KeyMask # {} ELSE key
        /\ last_button' = button
        /\ pos' = IF again THEN Detent(moved) ELSE 0
        /\ timer' = again
        /\ ret' = IF again THEN NoLine ELSE 0
        /\ synced' = (synced \/ ab = lastAB \/ pulse # 0)
        /\ fast' = IF reset THEN lag # 0 ELSE fast \/ (synced /\ step \notin -1..1)
        /\ turned' = IF reset THEN lag ELSE IF fast' THEN sync % 4 ELSE sync
        /\ ups' = IF btn THEN 0 ELSE IF ups < KeyBits THEN ups + 1 ELSE ups
        /\ step' = 0 /\ moves' = 0
        /\ idle' = Later(idle)
        /\ UNCHANGED <<at, btn, pvars>>

\* Return one line to interrupt.
ReturnLine ==
    /\ ret # NoLine /\ pend = {}
    /\ mode' = [mode EXCEPT ![ret] = "int"]
    /\ ret' = ret + 1
    /\ UNCHANGED <<at, btn, pend, timer, jiffies, dvars, hvars, idle>>

Next ==
    \/ Rotate(1) \/ Rotate(-1)
    \/ Button
    \/ \E l \in Lines : wheel_irq(l)
    \/ Tick
    \/ wheel_scan
    \/ ReturnLine

Spec == Init /\ [][Next]_vars

-----------------------------------------------------------------------------

\* The variables have the types the driver and the input layer give them.
TypeOK ==
    /\ at \in 0..3 /\ btn \in BOOLEAN
    /\ mode \in [Lines -> {"int", "input"}] /\ pend \in SUBSET Lines
    /\ timer \in BOOLEAN /\ ret \in 0..NoLine
    /\ jiffies \in 0..(Wrap - 1) /\ click_jiffies \in 0..(Wrap - 1)
    /\ lastAB \in 0..3
    /\ pos \in -PULSES_PER_DETENT..PULSES_PER_DETENT
    /\ last_button \in SUBSET (0..(ButtonBits - 1))
    /\ key \in BOOLEAN
    /\ step \in -MaxMoves..MaxMoves /\ moves \in 0..MaxMoves
    /\ synced \in BOOLEAN /\ turned \in Int /\ fast \in BOOLEAN
    /\ ups \in 0..KeyBits /\ idle \in 0..IdleCap

\* No scan runs or is due, and no interrupt is on its way.
Quiet == ret = NoLine /\ ~timer /\ pend = {}

(***************************************************************************)
(* When no scan is due every line is an interrupt input and the centre     *)
(* button is reported up: the driver is neither deaf nor is KEY_RIGHT      *)
(* stuck (the input layer repeats it, EV_REP), although wheel_irq may run  *)
(* between the cfgpin calls of wheel_scan.                                 *)
(***************************************************************************)
QuietIsReady == Quiet => (\A l \in Lines : mode[l] = "int") /\ ~key

(***************************************************************************)
(* The release of the button is debounced: between scans KEY_RIGHT is      *)
(* reported up exactly if the button was up in the last KeyBits scans.     *)
(***************************************************************************)
ReleaseDebounced == key <=> ups < KeyBits

(***************************************************************************)
(* Quadrature decoding is exact: a wheel that goes no further than one     *)
(* pulse between two scans is counted as it turned, also when it changes   *)
(* its direction and across the periods without scans.                     *)
(***************************************************************************)
TurnsCounted == (synced /\ ~fast) => pos = turned

(***************************************************************************)
(* However fast the wheel turns, the count is only ever wrong by whole     *)
(* quadrature cycles, but for the pulses of an impossible state that the   *)
(* decoder has not taken over yet.                                         *)
(***************************************************************************)
FastTurnsLoseCycles == synced => (turned - pos) % 4 = Ahead(at - step, lastAB)

(***************************************************************************)
(* "scan until 0.5 seconds of inactiviy": half a second after the last     *)
(* pulse or the release of the button, and the scans in which its samples  *)
(* are shifted out, the driver no longer scans.                            *)
(***************************************************************************)
ScanEnds == timer => idle <= HalfSecond + ButtonBits + 1
=============================================================================
