--------------------------- MODULE JiveMgmtProofs ---------------------------
(* Proofs about the management driver and the sleep loop, for any battery levels and *)
(* any hours at which the device falls asleep.                                       *)
EXTENDS JiveMgmt, TLAPS

\* The conversions of the RTC agree on the hours of a day.
LEMMA BcdHours ==
    ASSUME NEW h \in 0..23
    PROVE  /\ Bcd2Bin(Bin2Bcd(h)) = h
           /\ (h + 1) % 24 \in 0..23
           /\ Alarm(h) = Bin2Bcd((h + 1) % 24)
  <1>1. Bcd2Bin(Bin2Bcd(h)) = h
    BY DEF Bcd2Bin, Bin2Bcd
  <1> QED
    BY <1>1 DEF Alarm

\* The sum of the samples.
LEMMA SumIs ==
    ASSUME NEW v \in [1..N_BATTERY_SAMPLES -> Int]
    PROVE  Sum(v) = v[1] + v[2] + v[3] + v[4] + v[5] + v[6]
  <1> DEFINE Body(f) == [i \in 0..6 |-> IF i = 0 THEN 0 ELSE f[i - 1] + v[i]]
             part == [i \in 0..6 |-> IF i = 0 THEN 0 ELSE IF i = 1 THEN v[1]
                        ELSE IF i = 2 THEN v[1] + v[2] ELSE IF i = 3 THEN v[1] + v[2] + v[3]
                        ELSE IF i = 4 THEN v[1] + v[2] + v[3] + v[4]
                        ELSE IF i = 5 THEN v[1] + v[2] + v[3] + v[4] + v[5]
                        ELSE v[1] + v[2] + v[3] + v[4] + v[5] + v[6]]
             sum == CHOOSE f : f = Body(f)
  <1>1. part = Body(part)
    <2>1. \A i \in 0..6 : part[i] = IF i = 0 THEN 0 ELSE part[i - 1] + v[i]
      BY DEF N_BATTERY_SAMPLES
    <2> QED
      BY <2>1
  <1>2. sum = Body(sum)
    BY <1>1
  <1>3. Sum(v) = sum[6]
    BY DEF Sum, N_BATTERY_SAMPLES
  <1> HIDE DEF sum
  <1>4. /\ sum[0] = 0 /\ sum[1] = sum[0] + v[1] /\ sum[2] = sum[1] + v[2] /\ sum[3] = sum[2] + v[3]
        /\ sum[4] = sum[3] + v[4] /\ sum[5] = sum[4] + v[5] /\ sum[6] = sum[5] + v[6]
    BY <1>2
  <1> QED
    BY <1>3, <1>4 DEF N_BATTERY_SAMPLES

(***************************************************************************)
(* get_battery drops one odd sample out of its six, whether it is too high *)
(* or too low.                                                             *)
(***************************************************************************)
LEMMA OldSampleDropped ==
    ASSUME NEW first \in Nat, NEW b \in Nat
    PROVE  GetBattery([i \in 1..N_BATTERY_SAMPLES |-> IF i = 1 THEN first ELSE b]) = b
  <1> DEFINE v == [i \in 1..N_BATTERY_SAMPLES |-> IF i = 1 THEN first ELSE b]
             samples == {v[i] : i \in 1..N_BATTERY_SAMPLES}
             least == CHOOSE x \in samples : \A y \in samples : x <= y
             greatest == CHOOSE x \in samples : \A y \in samples : x >= y
  <1>1. Sum(v) = first + 5 * b
    <2>1. v \in [1..N_BATTERY_SAMPLES -> Int]
      OBVIOUS
    <2>2. v[1] = first /\ v[2] = b /\ v[3] = b /\ v[4] = b /\ v[5] = b /\ v[6] = b
      BY DEF N_BATTERY_SAMPLES
    <2> HIDE DEF v
    <2>3. Sum(v) = v[1] + v[2] + v[3] + v[4] + v[5] + v[6]
      BY <2>1, SumIs
    <2> QED
      BY <2>2, <2>3
  <1>2. samples = {first, b}
    <2>1. v[1] = first /\ v[2] = b /\ \A i \in 1..N_BATTERY_SAMPLES : v[i] \in {first, b}
      BY DEF N_BATTERY_SAMPLES
    <2> HIDE DEF v
    <2> QED
      BY <2>1 DEF N_BATTERY_SAMPLES
  <1> HIDE DEF samples, v
  <1>3. least + greatest = first + b
    <2>1. CASE first <= b
      <3>1. least = first
        BY <1>2, <2>1
      <3>2. greatest = b
        BY <1>2, <2>1
      <3> QED
        BY <3>1, <3>2
    <2>2. CASE b <= first
      <3>1. least = b
        BY <1>2, <2>2
      <3>2. greatest = first
        BY <1>2, <2>2
      <3> HIDE DEF least, greatest
      <3> QED
        BY <3>1, <3>2
    <2> QED
      BY <2>1, <2>2
  <1>4. least \in Int /\ greatest \in Int
    <2>1. \E x \in samples : \A y \in samples : x <= y
      BY <1>2
    <2>2. \E x \in samples : \A y \in samples : x >= y
      BY <1>2
    <2> QED
      BY <1>2, <2>1, <2>2
  <1>5. GetBattery(v) = (Sum(v) - least - greatest) \div (N_BATTERY_SAMPLES - 2)
    BY DEF GetBattery, samples
  <1> HIDE DEF least, greatest
  <1>6. Sum(v) - least - greatest = 4 * b
    BY <1>1, <1>3, <1>4
  <1> QED
    BY <1>5, <1>6 DEF N_BATTERY_SAMPLES, v

-----------------------------------------------------------------------------

(***************************************************************************)
(* Who has the pin: the handler has it as an input and runs with its       *)
(* interrupt acknowledged; nobody but the loop is at work while the device *)
(* sleeps; with nobody at work the pin is an interrupt.                    *)
(***************************************************************************)
PinInv ==
    /\ hand # None => power = "on" /\ fn = "inp" /\ ~pend
    /\ power \in {"alarm", "asleep"} => at = "none"
    /\ power \in {"alarm", "asleep", "woken"} => hand = None
    /\ power = "woken" => at \in {"none", "check", "checked"}
    /\ at \in {"check", "checked"} => power = "woken" /\ (sw # "acpr" => fn = "eint")
    /\ (at = "none" /\ hand = None) => fn = "eint"
    /\ at \in {"read", "checked"} => got # None
    /\ sw # "acpr" => ~armed

(***************************************************************************)
(* Samples on their way to the input device are the level of the pin,      *)
(* unless an edge was missed or its interrupt is still to come.            *)
(***************************************************************************)
SampleInv ==
    ~missed =>
        /\ hand # None => hand = level
        /\ at = "read" => got = level
        /\ (hand = None /\ at \notin {"boot", "probe", "read"} /\ ~pend) =>
            IF armed THEN tdata = level ELSE reported = level

\* While the hour has not turned too early, the alarm is for the next one.
AlarmInv ==
    /\ power = "on" => slept = 0 /\ ~turned
    /\ (power \in {"alarm", "asleep"} /\ ~turned) => slept = 0 /\ alm = Bin2Bcd((hour + 1) % 24)

\* The types of the switch and its handlers.
SwitchTypeOK ==
    /\ sw \in Switches /\ level \in Levels /\ fn \in {"inp", "eint"}
    /\ pend \in BOOLEAN /\ missed \in BOOLEAN
    /\ hand \in Levels \cup {None} /\ got \in Levels \cup {None}
    /\ at \in {"none", "ioctl", "boot", "probe", "read", "check", "checked"}
    /\ reported \in Levels /\ armed \in BOOLEAN /\ tdata \in Levels

\* The types of the sleep loop.
PmTypeOK ==
    /\ power \in {"on", "alarm", "asleep", "woken", "off"} /\ eint_wakeup \in BOOLEAN
    /\ hour \in 0..23 /\ alm \in {Bin2Bcd(h) : h \in 0..23}
    /\ slept \in 0..MaxSlept /\ turned \in BOOLEAN
    /\ bat \in BatLevels /\ adc \in BatLevels
    /\ battery_flat \in BOOLEAN /\ work \in BOOLEAN

\* The inductive invariants of the switch and of the sleep loop.
SwitchInv == SwitchTypeOK /\ PinInv /\ SampleInv
PmInv == PmTypeOK /\ AlarmInv

\* The state after jive_mgmt_probe, with the board on and the battery read, satisfies both invariants.
LEMMA MgmtInit == Init => SwitchInv /\ PmInv
  <1> SUFFICES ASSUME Init PROVE SwitchInv /\ PmInv
    OBVIOUS
  <1> USE ConstantsOK DEF Init
  <1>1. pend \in BOOLEAN /\ missed \in BOOLEAN /\ armed \in BOOLEAN
    OBVIOUS
  <1>2. SwitchTypeOK
    BY <1>1 DEF SwitchTypeOK, Levels
  <1>3. PinInv /\ SampleInv
    BY DEF PinInv, SampleInv
  <1>4. eint_wakeup \in BOOLEAN /\ turned \in BOOLEAN /\ battery_flat \in BOOLEAN /\ work \in BOOLEAN
    BY Zenon
  <1>5. alm \in {Bin2Bcd(h) : h \in 0..23}
    <2>1. Bin2Bcd(0) = 0 /\ 0 \in 0..23
      BY DEF Bin2Bcd
    <2> QED
      BY <2>1
  <1>6. PmTypeOK
    BY <1>4, <1>5 DEF PmTypeOK, MaxSlept
  <1>7. AlarmInv
    BY DEF AlarmInv
  <1> QED
    BY <1>2, <1>3, <1>6, <1>7 DEF SwitchInv, PmInv

\* A report hands the sample on.
LEMMA ReportIs ==
    ASSUME SwitchTypeOK, sw # "acpr" => ~armed, NEW val \in Levels, Report(val)
    PROVE  /\ armed' \in BOOLEAN /\ tdata' \in Levels /\ reported' \in Levels
           /\ sw # "acpr" => ~armed'
           /\ IF armed' THEN tdata' = val ELSE reported' = val
  <1>1. CASE sw = "acpr"
    <2>1. armed' \in BOOLEAN /\ armed'
      BY <1>1 DEF Report
    <2> QED
      BY <1>1, <2>1 DEF Report, SwitchTypeOK
  <1>2. CASE sw # "acpr"
    BY <1>2 DEF Report, SwitchTypeOK
  <1> QED
    BY <1>1, <1>2

\* The steps of the handlers, the timer, the ioctl, the probe and the pin.
LEMMA SwitchSteps ==
    ASSUME SwitchInv,
           \/ IrqSample \/ IrqReport \/ AcpowerTimer \/ CallInput \/ IoctlDone \/ ProbeSample
           \/ ProbeReport \/ Edge \/ CheckInput
    PROVE  SwitchInv'
  <1> USE ConstantsOK DEF SwitchInv, Levels, callVars, reportVars, pmVars
  <1>1. CASE IrqSample
    <2>1. pend' \in BOOLEAN /\ ~pend'
      BY <1>1 DEF IrqSample
    <2>2. missed' \in BOOLEAN
      BY <1>1 DEF IrqSample
    <2>3. SwitchTypeOK'
      BY <1>1, <2>1, <2>2 DEF IrqSample, SwitchTypeOK
    <2>4. PinInv'
      BY <1>1, <2>1 DEF IrqSample, PinInv, SwitchTypeOK
    <2>5. SampleInv'
      BY <1>1 DEF IrqSample, SampleInv, SwitchTypeOK
    <2> QED
      BY <2>3, <2>4, <2>5
  <1>2. CASE IrqReport
    <2>1. /\ armed' \in BOOLEAN /\ tdata' \in Levels /\ reported' \in Levels
          /\ sw # "acpr" => ~armed'
          /\ IF armed' THEN tdata' = hand ELSE reported' = hand
      BY <1>2, ReportIs DEF IrqReport, SwitchTypeOK, PinInv
    <2>2. SwitchTypeOK'
      BY <1>2, <2>1 DEF IrqReport, SwitchTypeOK
    <2>3. PinInv'
      BY <1>2, <2>1 DEF IrqReport, PinInv
    <2>4. SampleInv'
      BY <1>2, <2>1 DEF IrqReport, SampleInv
    <2> QED
      BY <2>2, <2>3, <2>4
  <1>3. CASE AcpowerTimer
    <2>1. armed' \in BOOLEAN /\ ~armed'
      BY <1>3 DEF AcpowerTimer
    <2> QED
      BY <1>3, <2>1 DEF AcpowerTimer, SwitchTypeOK, PinInv, SampleInv
  <1>4. CASE CallInput
    <2>1. SwitchTypeOK' /\ PinInv'
      BY <1>4 DEF CallInput, SwitchTypeOK, PinInv
    <2>2. SampleInv'
      BY <1>4 DEF CallInput, SampleInv
    <2> QED
      BY <2>1, <2>2
  <1>5. CASE IoctlDone
    BY <1>5 DEF IoctlDone, SwitchTypeOK, PinInv, SampleInv
  <1>6. CASE ProbeSample
    <2>1. missed' \in BOOLEAN
      BY <1>6 DEF ProbeSample
    <2> QED
      BY <1>6, <2>1 DEF ProbeSample, SwitchTypeOK, PinInv, SampleInv
  <1>7. CASE ProbeReport
    <2>1. /\ armed' \in BOOLEAN /\ tdata' \in Levels /\ reported' \in Levels
          /\ sw # "acpr" => ~armed'
          /\ IF armed' THEN tdata' = got ELSE reported' = got
      BY <1>7, ReportIs DEF ProbeReport, SwitchTypeOK, PinInv
    <2>2. SwitchTypeOK'
      BY <1>7, <2>1 DEF ProbeReport, SwitchTypeOK
    <2>3. PinInv'
      BY <1>7, <2>1 DEF ProbeReport, PinInv
    <2>4. SampleInv'
      BY <1>7, <2>1 DEF ProbeReport, SampleInv
    <2> QED
      BY <2>2, <2>3, <2>4
  <1>8. CASE Edge
    <2>1. pend' \in BOOLEAN
      BY <1>8, Zenon DEF Edge
    <2>2. missed' \in BOOLEAN
      BY <1>8, Zenon DEF Edge
    <2>3. SwitchTypeOK'
      BY <1>8, <2>1, <2>2 DEF Edge, Toggled, SwitchTypeOK
    <2>4. PinInv'
      BY <1>8 DEF Edge, PinInv, SwitchTypeOK
    <2>5. SampleInv'
      <3> SUFFICES ASSUME ~missed' PROVE SampleInv'
        BY DEF SampleInv
      <3>1. fn = "eint" /\ at # "read" /\ pend'
        BY <1>8 DEF Edge, SwitchTypeOK
      <3> QED
        BY <1>8, <3>1 DEF Edge, SampleInv, PinInv
    <2> QED
      BY <2>3, <2>4, <2>5
  <1>9. CASE CheckInput
    <2>1. SwitchTypeOK' /\ PinInv'
      BY <1>9 DEF CheckInput, SwitchTypeOK, PinInv
    <2>2. SampleInv'
      BY <1>9 DEF CheckInput, SampleInv
    <2> QED
      BY <2>1, <2>2
  <1> QED
    BY <1>1, <1>2, <1>3, <1>4, <1>5, <1>6, <1>7, <1>8, <1>9

\* What going to sleep and waking up do to the switch.
LEMMA SleepSteps ==
    ASSUME SwitchInv, PmTypeOK,
           \/ BatteryFlatHandler \/ PmEnter \/ HourPasses \/ OtherWakes \/ CheckBattery
           \/ CheckDone \/ Sleep \/ EdgeAsleep
    PROVE  SwitchInv'
  <1> USE ConstantsOK DEF SwitchInv, Levels, switchVars, callVars, reportVars
  <1>1. ASSUME UNCHANGED switchVars,
               power' \in {"alarm", "asleep", "woken"} => at = "none" /\ hand = None,
               hand # None => power' = "on", at \notin {"check", "checked"}
        PROVE  SwitchInv'
    BY <1>1 DEF SwitchTypeOK, PinInv, SampleInv
  <1>2. CASE BatteryFlatHandler
    BY <1>1, <1>2 DEF BatteryFlatHandler, PinInv
  <1>3. CASE PmEnter
    BY <1>1, <1>3 DEF PmEnter
  <1>4. CASE HourPasses
    BY <1>1, <1>4 DEF HourPasses, PinInv
  <1>5. CASE OtherWakes
    BY <1>1, <1>5 DEF OtherWakes, PinInv
  <1>6. CASE CheckBattery
    <2>1. SwitchTypeOK' /\ PinInv'
      BY <1>6 DEF CheckBattery, SwitchTypeOK, PinInv
    <2>2. SampleInv'
      BY <1>6 DEF CheckBattery, SampleInv
    <2> QED
      BY <2>1, <2>2
  <1>7. CASE Sleep
    <2>1. pend' \in BOOLEAN /\ ~pend'
      BY <1>7 DEF Sleep
    <2>2. missed' \in BOOLEAN
      BY <1>7, Zenon DEF Sleep
    <2>3. SwitchTypeOK'
      BY <1>7, <2>1, <2>2 DEF Sleep, SwitchTypeOK
    <2>4. PinInv'
      BY <1>7, <2>1 DEF Sleep, PinInv
    <2>5. SampleInv'
      BY <1>7 DEF Sleep, SampleInv, SwitchTypeOK
    <2> QED
      BY <2>3, <2>4, <2>5
  <1>8. CASE EdgeAsleep
    <2>1. PICK seen \in BOOLEAN : pend' = (pend \/ seen) /\ missed' = (missed \/ ~seen)
      BY <1>8 DEF EdgeAsleep, SwitchTypeOK, Switches
    <2>2. pend' \in BOOLEAN /\ missed' \in BOOLEAN
      BY <2>1, Zenon
    <2>3. SwitchTypeOK'
      BY <1>8, <2>2 DEF EdgeAsleep, Toggled, SwitchTypeOK
    <2>4. at = "none" /\ hand = None
      BY <1>8 DEF EdgeAsleep, PinInv
    <2>5. PinInv'
      BY <1>8, <2>4 DEF EdgeAsleep, PinInv
    <2>6. SampleInv'
      BY <1>8, <2>1, <2>4 DEF EdgeAsleep, SampleInv, SwitchTypeOK
    <2> QED
      BY <2>3, <2>5, <2>6
  <1>9. CASE CheckDone
    <2>1. /\ at = "checked" /\ hand = None /\ fn' = "eint" /\ at' = "none" /\ got' = None
          /\ power' \in {"on", "alarm", "off"}
      BY <1>9 DEF CheckDone, PinInv, SwitchTypeOK
    <2>2. SwitchTypeOK' /\ PinInv'
      BY <1>9, <2>1 DEF CheckDone, SwitchTypeOK, PinInv
    <2>3. SampleInv'
      BY <1>9, <2>1 DEF CheckDone, SampleInv
    <2> QED
      BY <2>2, <2>3
  <1> QED
    BY <1>2, <1>3, <1>4, <1>5, <1>6, <1>7, <1>8, <1>9

\* An alarm is the code of an hour.
LEMMA AlarmType ==
    ASSUME NEW h \in 0..23
    PROVE  Alarm(h) \in {Bin2Bcd(x) : x \in 0..23}
  BY BcdHours

\* The real-time clock and the battery.
LEMMA PmSteps == PmInv /\ [Next]_vars => PmInv'
  <1> SUFFICES ASSUME PmInv, [Next]_vars PROVE PmInv'
    OBVIOUS
  <1> USE ConstantsOK DEF PmInv, pmVars, rtcVars, batVars
  <1>1. CASE UNCHANGED pmVars
    BY <1>1 DEF PmTypeOK, AlarmInv
  <1>2. CASE ProbeReport
    <2>1. work' \in BOOLEAN
      BY <1>2 DEF ProbeReport, PmTypeOK
    <2> QED
      BY <1>2, <2>1 DEF ProbeReport, PmTypeOK, AlarmInv
  <1>3. CASE Edge
    <2>1. eint_wakeup' \in BOOLEAN
      BY <1>3 DEF Edge, PmTypeOK
    <2> QED
      BY <1>3, <2>1 DEF Edge, PmTypeOK, AlarmInv
  <1>4. CASE BatteryFlatHandler
    <2>1. work' \in BOOLEAN
      BY <1>4 DEF BatteryFlatHandler
    <2> QED
      BY <1>4, <2>1 DEF BatteryFlatHandler, PmTypeOK, AlarmInv
  <1>5. CASE PmEnter
    <2>1. PICK h \in StartHours : hour' = h /\ alm' = Alarm(h)
      BY <1>5 DEF PmEnter
    <2>2. h \in 0..23
      OBVIOUS
    <2>3. PmTypeOK'
      BY <1>5, <2>1, <2>2, AlarmType DEF PmEnter, PmTypeOK
    <2>4. alm' = Bin2Bcd((hour' + 1) % 24)
      BY <2>1, <2>2, BcdHours
    <2>5. AlarmInv'
      BY <1>5, <2>4 DEF PmEnter, AlarmInv
    <2> QED
      BY <2>3, <2>5
  <1>6. CASE HourPasses
    <2>1. turned' \in BOOLEAN
      BY <1>6, Zenon DEF HourPasses
    <2>2. hour' \in 0..23
      BY <1>6, BcdHours DEF HourPasses, PmTypeOK
    <2>3. PmTypeOK'
      BY <1>6, <2>1, <2>2 DEF HourPasses, PmTypeOK, MaxSlept
    <2>4. AlarmInv'
      BY <1>6 DEF HourPasses, AlarmInv
    <2> QED
      BY <2>3, <2>4
  <1>7. CASE Sleep
    <2>1. eint_wakeup' \in BOOLEAN
      BY <1>7 DEF Sleep
    <2> QED
      BY <1>7, <2>1 DEF Sleep, PmTypeOK, AlarmInv
  <1>8. CASE EdgeAsleep
    <2>1. eint_wakeup' \in BOOLEAN
      BY <1>8 DEF EdgeAsleep, PmTypeOK
    <2> QED
      BY <1>8, <2>1 DEF EdgeAsleep, PmTypeOK, AlarmInv
  <1>9. CASE OtherWakes
    <2>1. eint_wakeup' \in BOOLEAN
      BY <1>9 DEF OtherWakes
    <2> QED
      BY <1>9, <2>1 DEF OtherWakes, PmTypeOK, AlarmInv
  <1>10. CASE CheckBattery
    <2>1. battery_flat' \in BOOLEAN
      BY <1>10, Zenon DEF CheckBattery
    <2> QED
      BY <1>10, <2>1 DEF CheckBattery, PmTypeOK, AlarmInv
  <1>11. CASE CheckDone
    <2>1. /\ eint_wakeup' \in BOOLEAN /\ turned' \in BOOLEAN /\ ~turned'
          /\ slept' = 0 /\ UNCHANGED <<bat, adc, battery_flat, work>>
      BY <1>11 DEF CheckDone
    <2>2. \/ power' = "off" /\ UNCHANGED <<hour, alm>>
          \/ power' = "on" /\ hour' = 0 /\ alm' = 0
          \/ power' = "alarm" /\ alm' = Alarm(hour) /\ hour' = hour
      BY <1>11 DEF CheckDone
    <2>3. 0 = Bin2Bcd(0) /\ 0 \in 0..23
      BY DEF Bin2Bcd
    <2>4. hour' \in 0..23 /\ alm' \in {Bin2Bcd(x) : x \in 0..23}
      BY <2>2, <2>3, AlarmType DEF PmTypeOK
    <2>5. PmTypeOK'
      BY <2>1, <2>2, <2>4 DEF PmTypeOK, MaxSlept
    <2>6. AlarmInv'
      BY <2>1, <2>2, BcdHours DEF AlarmInv, PmTypeOK
    <2> QED
      BY <2>5, <2>6
  <1> QED
    BY <1>1, <1>2, <1>3, <1>4, <1>5, <1>6, <1>7, <1>8, <1>9, <1>10, <1>11
       DEF Next, IrqSample, IrqReport, AcpowerTimer, CallInput, IoctlDone, ProbeSample, CheckInput,
           Off, vars

\* Interrupts, the work queue, the ioctls and the probe keep the invariant of the switches.
LEMMA SwitchStep == SwitchInv /\ PmInv /\ [Next]_vars => SwitchInv'
  <1> SUFFICES ASSUME SwitchInv, PmInv, [Next]_vars PROVE SwitchInv'
    OBVIOUS
  <1>1. CASE UNCHANGED vars
    BY <1>1 DEF vars, switchVars, callVars, reportVars, pmVars, SwitchInv, SwitchTypeOK, PinInv,
                SampleInv
  <1> QED
    BY <1>1, SwitchSteps, SleepSteps DEF Next, Off, PmInv

\* Both inductive invariants of the management driver hold in every reachable state.
LEMMA MgmtAlways == Spec => [](SwitchInv /\ PmInv)
  BY MgmtInit, SwitchStep, PmSteps, PTL DEF Spec

\* Type correctness of the switch, the sleep loop and the clock.
THEOREM TypeCorrect == Spec => []TypeOK
  <1>1. SwitchInv /\ PmInv => TypeOK
    BY DEF SwitchInv, PmInv, SwitchTypeOK, PmTypeOK, TypeOK
  <1> QED
    BY <1>1, MgmtAlways, PTL

(***************************************************************************)
(* Once nothing is under way for a switch its pin is an interrupt again    *)
(* and the input device reports its level, unless an edge fell where the   *)
(* driver cannot see it.                                                   *)
(***************************************************************************)
THEOREM ReportFollows == Spec => []SwitchFollows
  <1>1. SwitchInv => SwitchFollows
    BY DEF SwitchInv, PinInv, SampleInv, SwitchFollows, Settled
  <1> QED
    BY <1>1, MgmtAlways, PTL

(***************************************************************************)
(* The battery of a sleeping device is looked at every hour, from any hour *)
(* at which it falls asleep: the alarm's code of an hour is the clock's.   *)
(***************************************************************************)
THEOREM BatteryHourly == Spec => []CheckedHourly
  <1>1. PmInv => CheckedHourly
    BY DEF PmInv, AlarmInv, CheckedHourly
  <1> QED
    BY <1>1, MgmtAlways, PTL

\* What the check has found out: the stale first sample has not changed it.
CheckInv == at = "checked" => battery_flat = (bat < BATTERY_FLAT_LEVEL /\ got = "high")

\* The check computes it, and nothing disturbs it until the loop has used it.
LEMMA CheckStep == SwitchInv /\ PmInv /\ CheckInv /\ [Next]_vars => CheckInv'
  <1> SUFFICES ASSUME SwitchInv, PmInv, CheckInv, [Next]_vars, at' = "checked"
               PROVE  battery_flat' = (bat' < BATTERY_FLAT_LEVEL /\ got' = "high")
    BY DEF CheckInv
  <1>1. CASE CheckBattery
    <2>1. PICK first \in {adc, bat} :
            battery_flat' = (GetBattery([i \in 1..N_BATTERY_SAMPLES |-> IF i = 1 THEN first ELSE bat])
                                < BATTERY_FLAT_LEVEL /\ got' = "high")
      BY <1>1 DEF CheckBattery
    <2>2. first \in Nat /\ bat \in Nat
      BY <2>1, ConstantsOK DEF PmInv, PmTypeOK
    <2>3. battery_flat' = (bat < BATTERY_FLAT_LEVEL /\ got' = "high")
      BY <2>1, <2>2, OldSampleDropped
    <2> QED
      BY <1>1, <2>3 DEF CheckBattery
  <1>2. CASE at = "checked" /\ UNCHANGED <<got, bat, battery_flat>>
    BY <1>2 DEF CheckInv
  <1>3. at = "checked" => power = "woken"
    BY DEF SwitchInv, PinInv
  <1> QED
    BY <1>1, <1>2, <1>3
       DEF Next, IrqSample, IrqReport, AcpowerTimer, CallInput, IoctlDone, ProbeSample, ProbeReport,
           BatteryFlatHandler, Edge, PmEnter, HourPasses, Sleep, EdgeAsleep, OtherWakes, CheckInput,
           CheckDone, Off, vars, switchVars, pmVars, callVars, batVars

(***************************************************************************)
(* The device never wakes up to run on a flat battery, for any levels of   *)
(* the battery and whatever the stale first sample is, unless it has just  *)
(* seen AC power.                                                          *)
(***************************************************************************)
THEOREM WakesCharged == Spec => NeverWakesFlat
  <1> DEFINE Good == (power = "woken" /\ power' = "on") => (bat >= BATTERY_FLAT_LEVEL \/ got = "low")
  <1>1. Init => CheckInv
    BY DEF Init, CheckInv
  <1>2. SwitchInv /\ PmInv /\ CheckInv /\ [Next]_vars => [Good]_vars
    <2> SUFFICES ASSUME SwitchInv, PmInv, CheckInv, Next, power = "woken", power' = "on"
                 PROVE  bat >= BATTERY_FLAT_LEVEL \/ got = "low"
      BY DEF vars
    <2>1. CheckDone
      <3>1. IrqSample \/ IrqReport \/ AcpowerTimer \/ CallInput \/ IoctlDone \/ ProbeSample
              \/ ProbeReport \/ Edge \/ CheckInput \/ CheckBattery \/ Off => power' = power
        BY DEF IrqSample, IrqReport, AcpowerTimer, CallInput, IoctlDone, ProbeSample, ProbeReport,
               Edge, CheckInput, CheckBattery, Off, vars, pmVars
      <3>2. ~(BatteryFlatHandler \/ PmEnter \/ HourPasses \/ Sleep)
        BY DEF BatteryFlatHandler, PmEnter, HourPasses, Sleep
      <3>3. ~(EdgeAsleep \/ OtherWakes)
        BY DEF EdgeAsleep, OtherWakes
      <3> QED
        BY <3>1, <3>2, <3>3 DEF Next
    <2>2. at = "checked" /\ ~battery_flat
      BY <2>1 DEF CheckDone
    <2>3. ~(bat < BATTERY_FLAT_LEVEL /\ got = "high")
      BY <2>2, Zenon DEF CheckInv
    <2>4. got \in {"high", "low"}
      BY <2>2 DEF SwitchInv, SwitchTypeOK, PinInv, Levels
    <2>5. bat \in Nat
      BY ConstantsOK DEF PmInv, PmTypeOK
    <2> QED
      BY <2>3, <2>4, <2>5 DEF BATTERY_FLAT_LEVEL
  <1> QED
    BY <1>1, <1>2, CheckStep, MgmtAlways, PTL DEF Spec, NeverWakesFlat

-----------------------------------------------------------------------------

\* Something that will report the level of the pin: an interrupt, the probe, a sample, the timer.
OnItsWay ==
    \/ pend
    \/ at \in {"boot", "probe"}
    \/ hand = level
    \/ at = "read" /\ got = level
    \/ armed /\ tdata = level

\* A level the input device does not report is on its way to it, unless an edge was missed.
LevelOnItsWay == (~missed /\ reported # level) => OnItsWay

\* Everything under way since the last edge has the level of the pin.
Fresh == ~missed /\ ~pend /\ at \notin {"boot", "probe", "read"}

\* From then on only an edge brings anything else to the input device.
FreshStep == (Fresh /\ level' = level) => (Fresh' /\ reported' \in {reported, level})

\* FreshStep, of every step.
FreshSteps == [][FreshStep]_vars

(***************************************************************************)
(* What SwitchReported needs beside fairness: no level of a switch is      *)
(* forgotten on its way through the handlers, the debounce timer and the   *)
(* probe, and once the pin is quiet no older sample overtakes its level.   *)
(***************************************************************************)
THEOREM LevelIsNotLost == Spec => []LevelOnItsWay /\ FreshSteps
  <1>1. SwitchInv => LevelOnItsWay
    BY DEF SwitchInv, SwitchTypeOK, SampleInv, LevelOnItsWay, OnItsWay
  <1>2. SwitchInv /\ [Next]_vars => [FreshStep]_vars
    <2> SUFFICES ASSUME SwitchInv, Next, Fresh, level' = level
                 PROVE  Fresh' /\ reported' \in {reported, level}
      BY DEF FreshStep
    <2> USE DEF Fresh, SwitchInv, SwitchTypeOK, PinInv, SampleInv
    <2>1. ~IrqSample /\ ~ProbeSample /\ ~ProbeReport
      BY DEF IrqSample, ProbeSample, ProbeReport
    <2>2. ~Edge /\ ~EdgeAsleep
      BY DEF Edge, EdgeAsleep, Toggled, Levels
    <2>3. CASE IrqReport
      <3>1. reported' \in {reported, hand}
        BY <2>3 DEF IrqReport, Report
      <3> QED
        BY <2>3, <3>1 DEF IrqReport
    <2>4. CASE AcpowerTimer
      BY <2>4 DEF AcpowerTimer, callVars
    <2>5. CASE CallInput \/ IoctlDone \/ CheckInput \/ CheckBattery \/ CheckDone
      BY <2>5 DEF CallInput, IoctlDone, CheckInput, CheckBattery, CheckDone, reportVars
    <2>6. CASE Sleep
      BY <2>6 DEF Sleep, callVars, reportVars
    <2>7. CASE UNCHANGED switchVars
      BY <2>7 DEF switchVars, callVars, reportVars
    <2> QED
      BY <2>1, <2>2, <2>3, <2>4, <2>5, <2>6, <2>7
         DEF Next, BatteryFlatHandler, PmEnter, HourPasses, OtherWakes, Off, vars
  <1> QED
    BY <1>1, <1>2, MgmtAlways, PTL DEF Spec, FreshSteps
=============================================================================
