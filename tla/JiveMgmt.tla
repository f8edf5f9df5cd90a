------------------------------ MODULE JiveMgmt ------------------------------
(***************************************************************************)
(* The switches of the management driver (drivers/char/jive/jive_mgmt.c)   *)
(* and the board's sleep loop (jive_pm_enter, arch/arm/plat-s3c24xx/pm.c). *)
(*                                                                         *)
(* A switch is a pin that is an interrupt ("eint") except while somebody   *)
(* has made it a plain input ("inp") to read it; an edge of a plain input  *)
(* leaves no trace.  The interrupt handlers, the ioctls of the application *)
(* and the calls of the probe that set the initial state all do this.      *)
(* Asleep, the processor wakes every hour to measure the battery, and      *)
(* looks for AC power in the same way.                                     *)
(*                                                                         *)
(* The four switches share neither pins nor state, so a behaviour follows  *)
(* one of them; what the others do to the sleep loop is left open.         *)
(***************************************************************************)
EXTENDS Integers

CONSTANTS
    BatLevels,   \* what the battery may measure
    StartHours,  \* hours at which the device may fall asleep
    None         \* no sample

ASSUME ConstantsOK ==
    /\ BatLevels \subseteq Nat /\ StartHours \subseteq 0..23
    /\ None \notin {"high", "low"}

Switches == {"acpr", "phone", "dock", "usb"}   \* SW_0 to SW_3
Levels == {"high", "low"}
BATTERY_FLAT_LEVEL == 812
N_BATTERY_SAMPLES == 6

\* A bound: hours that pass without a look at the battery.
MaxSlept == 2

VARIABLES
    sw,        \* the switch
    level,     \* its pin; a high CHG_ACPR means no power
    fn,        \* the pin's function: inp, eint
    pend,      \* its interrupt is pending
    hand,      \* the sample the running interrupt handler holds
    at,        \* the call in process context: none, ioctl, boot, probe, read, check, checked
    got,       \* the sample that call holds
    reported,  \* the switch as the input device reports it
    armed,     \* acpr_timer is pending
    tdata,     \* acpr_timer.data
    missed,    \* an edge nobody will look at since the last sample (history)
    power,     \* on, alarm, asleep, woken, off
    eint_wakeup, \* jive_pm_enter will find an external interrupt pending
    hour, alm, \* the real-time clock, and its alarm register
    slept,     \* hours since the last look at the battery (history)
    turned,    \* the hour turned while the device was falling asleep (history)
    bat, adc,  \* the battery, and the last conversion
    battery_flat,
    work       \* battery_flat_handler is scheduled

callVars == <<hand, at, got>>
reportVars == <<reported, armed, tdata>>
batVars == <<bat, adc, battery_flat>>
rtcVars == <<hour, alm, slept, turned>>
switchVars == <<sw, level, fn, pend, callVars, reportVars, missed>>
pmVars == <<power, eint_wakeup, rtcVars, batVars, work>>
vars == <<switchVars, pmVars>>

\* When the probe has requested the interrupts.  logo.c has measured the battery.
Init ==
    /\ sw \in Switches /\ level \in Levels
    /\ fn = IF sw \in {"acpr", "usb"} THEN "eint" ELSE "inp"
    /\ pend = FALSE
    /\ hand = None /\ at = "boot" /\ got = None
    /\ reported = "low" /\ armed = FALSE /\ tdata = "low"
    /\ missed = FALSE
    /\ power = "on" /\ eint_wakeup = FALSE
    /\ hour = 0 /\ alm = 0 /\ slept = 0 /\ turned = FALSE
    /\ bat \in BatLevels /\ adc = bat
    /\ \E nacpr \in IF sw = "acpr" THEN {level} ELSE Levels :
           battery_flat = (bat < BATTERY_FLAT_LEVEL /\ nacpr = "high")
    /\ work = FALSE

Toggled == IF level = "high" THEN "low" ELSE "high"

-----------------------------------------------------------------------------

\* The report of a sample: at once, but for AC power when the pin was quiet for a while.
Report(val) ==
    IF sw = "acpr"
    THEN armed' = TRUE /\ tdata' = val /\ UNCHANGED reported
    ELSE reported' = val /\ UNCHANGED <<armed, tdata>>

\* The pin changes while the processor runs, after a sleep before or after SRCPND is read.
Edge ==
    /\ power \in {"on", "alarm", "woken"}
    /\ level' = Toggled
    /\ pend' = (pend \/ fn = "eint")
    /\ missed' = (missed \/ fn = "inp" \/ at = "read")
    /\ \/ UNCHANGED eint_wakeup
       \/ power = "woken" /\ at = "none" /\ eint_wakeup' = TRUE
    /\ UNCHANGED <<sw, fn, callVars, reportVars, power, rtcVars, batVars, work>>

\* Faulty variant: the interrupt stays pending.
IrqSampleNoAck ==
    /\ power = "on" /\ pend /\ hand = None
    /\ fn' = "inp" /\ hand' = level
    /\ missed' = (at = "read")
    /\ UNCHANGED <<sw, level, pend, at, got, reportVars, pmVars>>

\* The first half of the interrupt handler: make the pin an input, and read it.
IrqSample ==
    /\ power = "on" /\ pend /\ hand = None
    /\ pend' = FALSE /\ fn' = "inp" /\ hand' = level
    /\ missed' = (at = "read")
    /\ UNCHANGED <<sw, level, at, got, reportVars, pmVars>>

\* Faulty variant: the pin is not made an interrupt again.
IrqReportDeaf ==
    /\ hand # None
    /\ Report(hand)
    /\ hand' = None
    /\ UNCHANGED <<sw, level, fn, pend, at, got, missed, pmVars>>

\* The second half: report the sample and make the pin an interrupt again.
IrqReport ==
    /\ hand # None
    /\ Report(hand)
    /\ fn' = "eint" /\ hand' = None
    /\ UNCHANGED <<sw, level, pend, at, got, missed, pmVars>>

AcpowerTimer ==
    /\ power = "on" /\ armed /\ hand = None
    /\ reported' = tdata /\ armed' = FALSE
    /\ UNCHANGED <<sw, level, fn, pend, callVars, tdata, missed, pmVars>>

(***************************************************************************)
(* Calls in process context.  A pending interrupt comes before the next    *)
(* step, but s3c2410_gpio_cfgpin runs with interrupts off: one that became *)
(* pending in there is taken after the pin was made an input.  The ioctl   *)
(* for the dock reads the pin as it is.                                    *)
(***************************************************************************)
CallInput ==
    /\ power = "on" /\ hand = None
    /\ \/ at = "none" /\ sw # "dock" /\ at' = "ioctl"
       \/ at = "boot" /\ at' = "probe"
    /\ fn' = "inp"
    /\ UNCHANGED <<sw, level, pend, hand, got, reportVars, missed, pmVars>>

\* The ioctl has read the pin and makes it an interrupt again.
IoctlDone ==
    /\ at = "ioctl" /\ hand = None
    /\ at' = "none" /\ fn' = "eint"
    /\ UNCHANGED <<sw, level, pend, hand, got, reportVars, missed, pmVars>>

\* "set initial state": the handler's code, called by the probe.
ProbeSample ==
    /\ at = "probe" /\ hand = None /\ ~pend
    /\ at' = "read" /\ got' = level /\ missed' = FALSE
    /\ UNCHANGED <<sw, level, fn, pend, hand, reportVars, pmVars>>

\* Its end, and what the probe does about a battery that was flat.
ProbeReport ==
    /\ at = "read" /\ hand = None
    /\ Report(got)
    /\ fn' = "eint" /\ at' = "none" /\ got' = None
    /\ work' = battery_flat
    /\ UNCHANGED <<sw, level, pend, hand, missed, power, eint_wakeup, rtcVars, batVars>>

\* battery_flat_handler: five seconds later.
BatteryFlatHandler ==
    /\ power = "on" /\ work /\ hand = None
    /\ power' = "off" /\ work' = FALSE
    /\ UNCHANGED <<switchVars, eint_wakeup, rtcVars, batVars>>

-----------------------------------------------------------------------------

Bin2Bcd(n) == 16 * (n \div 10) + (n % 10)
Bcd2Bin(n) == 10 * (n \div 16) + (n % 16)

\* Faulty variant: the last hour of the day is its own next hour.
AlarmClamped(h) == Bin2Bcd(IF h = 23 THEN 23 ELSE h + 1)

\* jive_pm_enter: the alarm register for an RTC at hour h.
Alarm(h) == Bin2Bcd((Bcd2Bin(Bin2Bcd(h)) + 1) % 24)

\* echo mem, when processes are frozen and the drivers suspended: the loop begins.
PmEnter ==
    /\ power = "on" /\ at = "none" /\ hand = None
    /\ power' = "alarm"
    /\ \E h \in StartHours : hour' = h /\ alm' = Alarm(h)
    /\ bat' \in BatLevels
    /\ UNCHANGED <<switchVars, eint_wakeup, slept, turned, adc, battery_flat, work>>

\* Time passes until the next hour; the alarm wakes the device if it is for that hour.
HourPasses ==
    /\ power \in {"alarm", "asleep"} /\ slept < MaxSlept
    /\ hour' = (hour + 1) % 24
    /\ slept' = slept + 1
    /\ turned' = (turned \/ power = "alarm")
    /\ power' = IF power = "asleep" /\ Bin2Bcd(hour') = alm THEN "woken" ELSE power
    /\ bat' \in BatLevels
    /\ UNCHANGED <<switchVars, eint_wakeup, alm, adc, battery_flat, work>>

\* s3c2410_pm_enter: outstanding external interrupts are acknowledged.
Sleep ==
    /\ power = "alarm"
    /\ power' = "asleep" /\ eint_wakeup' = FALSE
    /\ missed' = (missed \/ pend) /\ pend' = FALSE
    /\ UNCHANGED <<sw, level, fn, callVars, reportVars, rtcVars, batVars, work>>

(***************************************************************************)
(* The pin changes during sleep.  CHG_ACPR wakes the device.  Other pins   *)
(* below GPG8 are inputs then; the headphone's keeps its function, but its *)
(* interrupt is masked: whether it is pending afterwards is left open.     *)
(***************************************************************************)
EdgeAsleep ==
    /\ power = "asleep"
    /\ level' = Toggled
    /\ \E seen \in CASE sw = "acpr" -> {TRUE} [] sw = "phone" -> BOOLEAN [] OTHER -> {FALSE} :
        pend' = (pend \/ seen) /\ missed' = (missed \/ ~seen)
    /\ IF sw = "acpr" THEN power' = "woken" /\ eint_wakeup' = TRUE
                      ELSE UNCHANGED <<power, eint_wakeup>>
    /\ UNCHANGED <<sw, fn, callVars, reportVars, rtcVars, batVars, work>>

\* A key, the wheel, the accelerometer or another switch interrupts the sleep.
OtherWakes ==
    /\ power \in {"asleep", "woken"} /\ at = "none" /\ ~eint_wakeup
    /\ power' = "woken" /\ eint_wakeup' = TRUE
    /\ UNCHANGED <<switchVars, rtcVars, batVars, work>>

Sum(v) == LET sum[i \in 0..N_BATTERY_SAMPLES] == IF i = 0 THEN 0 ELSE sum[i - 1] + v[i]
          IN  sum[N_BATTERY_SAMPLES]

\* Faulty variant: the outliers count.
GetBatteryAll(v) == Sum(v) \div N_BATTERY_SAMPLES

\* get_battery: the average of the samples without one greatest and one least.
GetBattery(v) ==
    LET samples  == {v[i] : i \in 1..N_BATTERY_SAMPLES}
        least    == CHOOSE x \in samples : \A y \in samples : x <= y
        greatest == CHOOSE x \in samples : \A y \in samples : x >= y
    IN  (Sum(v) - least - greatest) \div (N_BATTERY_SAMPLES - 2)

\* SRCPND has been read.  jive_is_battery_flat makes CHG_ACPR an input.
CheckInput ==
    /\ power = "woken" /\ at = "none"
    /\ at' = "check"
    /\ fn' = IF sw = "acpr" THEN "inp" ELSE fn
    /\ UNCHANGED <<sw, level, pend, hand, got, reportVars, missed, pmVars>>

(***************************************************************************)
(* Its measurement and its look at CHG_ACPR.  The test of ECFLG never      *)
(* waits, so the first sample may be the conversion before.                *)
(***************************************************************************)
CheckBattery ==
    /\ at = "check"
    /\ at' = "checked"
    /\ got' \in IF sw = "acpr" THEN {level} ELSE Levels
    /\ \E first \in {adc, bat} :
        LET v == [i \in 1..N_BATTERY_SAMPLES |-> IF i = 1 THEN first ELSE bat]
        IN  battery_flat' = (GetBattery(v) < BATTERY_FLAT_LEVEL /\ got' = "high")
    /\ adc' = bat
    /\ UNCHANGED <<sw, level, fn, pend, hand, reportVars, missed>>
    /\ UNCHANGED <<power, eint_wakeup, rtcVars, bat, work>>

\* The pin is an interrupt again.  The loop ends when an external interrupt was pending.
CheckDone ==
    /\ at = "checked"
    /\ at' = "none" /\ got' = None
    /\ fn' = IF sw = "acpr" THEN "eint" ELSE fn
    /\ slept' = 0 /\ turned' = FALSE
    /\ IF battery_flat THEN power' = "off" /\ UNCHANGED <<hour, alm>>
       ELSE IF eint_wakeup THEN power' = "on" /\ hour' = 0 /\ alm' = 0
       ELSE power' = "alarm" /\ alm' = Alarm(hour) /\ UNCHANGED hour
    /\ eint_wakeup' = FALSE
    /\ UNCHANGED <<sw, level, pend, hand, reportVars, missed, batVars, work>>

Off == power = "off" /\ UNCHANGED vars

Next ==
    \/ IrqSample \/ IrqReport \/ AcpowerTimer
    \/ CallInput \/ IoctlDone \/ ProbeSample \/ ProbeReport \/ BatteryFlatHandler
    \/ Edge
    \/ PmEnter \/ HourPasses \/ Sleep \/ EdgeAsleep \/ OtherWakes
    \/ CheckInput \/ CheckBattery \/ CheckDone
    \/ Off

\* Interrupts, timers and calls that have begun are served.
Spec ==
    /\ Init /\ [][Next]_vars
    /\ WF_vars(IrqSample \/ IrqReport) /\ WF_vars(AcpowerTimer) /\ WF_vars(IoctlDone)
    /\ WF_vars((CallInput /\ at = "boot") \/ ProbeSample \/ ProbeReport)

-----------------------------------------------------------------------------

\* The variables have the types the driver gives them.
TypeOK ==
    /\ sw \in Switches /\ level \in Levels /\ fn \in {"inp", "eint"}
    /\ pend \in BOOLEAN /\ missed \in BOOLEAN
    /\ hand \in Levels \cup {None} /\ got \in Levels \cup {None}
    /\ at \in {"none", "ioctl", "boot", "probe", "read", "check", "checked"}
    /\ reported \in Levels /\ armed \in BOOLEAN /\ tdata \in Levels
    /\ power \in {"on", "alarm", "asleep", "woken", "off"} /\ eint_wakeup \in BOOLEAN
    /\ hour \in 0..23 /\ alm \in {Bin2Bcd(h) : h \in 0..23}
    /\ slept \in 0..MaxSlept /\ turned \in BOOLEAN
    /\ bat \in BatLevels /\ adc \in BatLevels
    /\ battery_flat \in BOOLEAN /\ work \in BOOLEAN

\* Nothing is under way for the switch.
Settled == power = "on" /\ at = "none" /\ hand = None /\ ~pend /\ ~armed

(***************************************************************************)
(* Once nothing is under way for a switch, the next edge is taken, and the *)
(* state the input device reports is the pin's unless an edge fell between *)
(* a sample and the return of the pin, or into a sleep or the look at AC   *)
(* power during one.                                                       *)
(***************************************************************************)
SwitchFollows == Settled => fn = "eint" /\ (missed \/ reported = level)

(***************************************************************************)
(* The battery of a sleeping device is looked at every hour, at any hour   *)
(* of the day, unless the hour turns between the setting of the alarm and  *)
(* the acknowledgement of outstanding interrupts.                          *)
(***************************************************************************)
CheckedHourly == power = "asleep" => (slept = 0 \/ turned)

(***************************************************************************)
(* The device never wakes up to run on a flat battery, although the first  *)
(* sample of a measurement may be old, unless it has just seen AC power.   *)
(***************************************************************************)
NeverWakesFlat ==
    [][(power = "woken" /\ power' = "on")
          => (bat >= BATTERY_FLAT_LEVEL \/ got = "low")]_vars

(***************************************************************************)
(* A switch that stays where it is gets reported, if no edge was missed.   *)
(***************************************************************************)
SwitchReported ==
    \A l \in Levels : <>[](level = l /\ ~missed /\ power = "on") => <>[](reported = l)
=============================================================================
