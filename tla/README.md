# SqueezeOS: a verification project

SqueezeOS is the firmware of the Logitech Squeezebox Controller ("jive", s3c2412),
Squeezebox Radio ("baby", i.MX25) and Squeezebox Touch ("fab4", i.MX35). The
repository holds an OpenEmbedded tree (`poky`), Logitech's own layer on top of it
(`poky/meta-squeezeos`), the kernels with Logitech's drivers (`src/s3c2412`,
`src/imx25`, `src/imx35`), factory tools (`src/jivetest`) and scripts
(`src/scripts`). Nearly all of its 32000 files are vendored; the firmware's own logic
is in small C programs, drivers, patches and shell scripts. This directory models
that logic in TLA+, checks it with TLC and proves its most important parts with TLAPS.

`PROJECT.json` maps every definition to the source lines it models. Below, paths are
relative to `poky/meta-squeezeos/packages` unless they start with `src/` or `drivers/`
(`src/s3c2412/linux-2.6.22/drivers`).

## 1. Inventory

| Component | State it keeps | Operations | What is hard | What makes it correct |
|---|---|---|---|---|
| U-Boot environment, `uboot-tools/files/fw_env.c` | two NAND sectors with a CRC each | `fw_setenv`, `fw_printenv` | power loss between erase and write, MTD failures, readers without a lock | a valid copy survives; the pair acts as one atomic store; write-once variables |
| Watchdog monitor, `watchdog/watchdog-5.6/watchdog-semaphore.patch` | System V semaphore pairs | daemon initialisation and check; client get, keepalive, exit | two system calls per check, clients that come, hang and die, start order | no pair shared, no reboot without a hung client, a hung client is noticed |
| SqueezePlay service, `base-files/files/squeezeplay` | pid file, processes | start, stop, stopwdog, restart | the daemon's check between two commands of the script | one SqueezePlay, a reboot has a reason, a crash is noticed |
| Keyboard matrix, `drivers/char/jive/jive_matrix.c` | GPIO modes, timer, ring of samples | interrupt, scan | interrupts between the steps of the scan | never deaf, no stuck key, exact debouncing |
| Scroll wheel, `drivers/char/jive/jive_wheel.c` | quadrature state, button history, jiffies | interrupt, scan | wrap-around of jiffies, interrupts | pulses counted, release debounced, scanning ends |
| Boot, `base-files/files/linuxrc`, `rcS`, `udev/udev-115/init` | version file, settings, modified files, `dev.tar`, markers | mount, factory reset, clean-up after an upgrade, first boot | power loss at every command | no stale files, one-time steps at most once, settings kept |
| Factory upgrade, `src/scripts/upgrade.sh` | partitions, card, RAM copies | check, copy, erase, write, verify | silent write errors, power loss | "completed" is true, bootloader only after a verified kernel |
| MSP430 monitor, `monitor-hardware/files/monitor_msp430.{c,sh}` | failure count, pid file | read once a second, start, stop | transient failures, the daemon's check between two commands | a reboot has a reason, a dead chip is noticed |
| Management driver, `drivers/char/jive/jive_mgmt.c` | pins of four switches, debounce timer, battery | switch interrupts, ioctls, battery measurement | handlers, ioctls and the probe change the same pin's function | never deaf to a switch, the reported state is the pin's |
| Sleep loop, `jive_pm_enter` in `arch/arm/plat-s3c24xx/pm.c` | alarm, wake-up sources | sleep an hour, look at the battery, wake | midnight, edges while falling asleep | looked at every hour, never wakes on a flat battery |
| Accelerometer, `drivers/i2c/chips/lis302dl.c` | settings and their registers, interrupt | interrupt, work, sysfs files | two writers, a motion while the interrupt is off | register and copy agree, motions are reported |
| Suspend script, `base-files/files/suspend` | saved settings | stop wlan, save, sleep, restore, start wlan | a start in the background, other writers | the sleep is reached, settings come back |
| Network scripts, `marvell-88W8686/files/wlan-gspi`, `udhcpc_action`, `zcip_action`, `wpa_action` | interface, address, `ifstate`, pid file | start, stop, DHCP, zeroconf and link events | late callbacks, signals to starting programs | online again after a resume, the lease's address stays |
| Infrared transmitter, `jive_irtx.c` | none | write: a busy loop with interrupts off | | not modelled, see section 8 |
| Bootloader update, `base-files/files/{baby,fab4}/blupdate` | RedBoot partition | compare, erase, write | power loss | not modelled, see section 8 |
| udev hot plug, factory tests, board tables, vendored kernel, drivers and packages | | | | not modelled, see section 8 |

How they interact: the watchdog daemon reads the pid file that the `squeezeplay`
script writes, and the semaphore set that clients of `sem_ping.c` share with it; a
failed check reboots into U-Boot, which reads the environment that `fw_setenv` writes
and starts a kernel whose first process is `linuxrc`; `linuxrc` hands over to `rcS`,
which runs udev's `init` and finally the `squeezeplay` script. The drivers feed
SqueezePlay through the input layer. An application runs the `suspend` script, which stops
`wlan`, replaces the accelerometer's settings, puts the kernel to sleep (`jive_pm_enter`)
and starts `wlan` again in the background; `ifup` then runs `udhcpc`, whose callbacks
configure the interface and start and kill `zcip`, and `wpa_cli` kicks `udhcpc`. Shared
state is on flash, in `/var/run` or in the kernel, and no component takes a lock
against another.

The hazards that follow from this are in `PROJECT.json`, each at its line and with
the properties that watch it.

## 2. Modules

| Module | Models | Used by |
|---|---|---|
| `FwEnv` | both commands and the flash | `MCFwEnv`, `FwEnvProofs` |
| `EnvStore` | abstract: one environment, replaced as a whole | refined by `FwEnv` (`StoreSpec`) |
| `Watchdog` | daemon, clients, semaphore set | its own cfgs, `WatchdogProofs` |
| `SqueezePlayService` | script, processes, pid file check | `Supervision` |
| `Supervision` | composition: the service and the MSP430 monitor under one watchdog daemon | its own cfg, `SupervisionProofs` |
| `JiveMatrix` | keyboard matrix driver | `MCJiveMatrix`, `JiveMatrixProofs` |
| `JiveWheel` | wheel driver | its own cfgs, `JiveWheelProofs` |
| `LinuxRc` | linuxrc, and what rcS and udev keep on the storage | `MCLinuxRc`, `LinuxRcProofs` |
| `FactoryUpgrade` | upgrade.sh | its own cfg, `LinuxRcProofs` |
| `JiveMgmt` | switches of the management driver, sleep loop | its own cfg, `JiveMgmtProofs` |
| `Lis302dl` | accelerometer driver | `Suspend` |
| `Wlan` | wlan script, ifup, udhcpc, zcip and their scripts | `Suspend` |
| `Suspend` | composition: suspend script with network and accelerometer | its own cfg, `SuspendProofs` |

Operators whose comment begins with "Faulty variant" are alternatives to the
definition that follows them: plausible bugs, one or more per property, which show
that the property can fail. No specification uses them.

## 3. How the models correspond to the code

**FwEnv.** A sector is an environment (its CRC matches) or `Bad`. The `fw_setenv`
process is `pc`, `curdev`, `ram`, `args`, `oldval`: `Start` is `main`, `EnvInit0/1`
`env_init`, `SetPair` one turn of the loop in `fw_setenvs`, `FlashWrite` the two calls
of `flash_io_write_part`, the sector that was not loaded first. Each erase and each
write is a step; a write that is cut short leaves the sector `Bad`, which is what the
erase before it left. `FlashWriteError` follows the code: a failed part is reported on
stderr and the next part is rewritten nevertheless. `oldval` is a variable of its own
because it outlives a turn of the loop. `fw_printenv` reads the CRC and the data of
a sector in two reads. `rseen` and `rover` are history. The arithmetic of CRC32 and the
packing of `name=value` strings are abstracted: a CRC matches exactly the data it was
computed from, and `Capacity` counts definitions instead of bytes; `default_environment[]` is assumed
to fit, as it does in `fw_env.c`.

**Watchdog.** `SemOpen`, `SemCreate`, `SetVal` are the set-up in the daemon's
`main`, one system call each; `CheckStart`, `GetVal`, `SemOp` the walk of `check_semaphore`; `ClientOpen`,
`ClientGet`, `Keepalive`, `ClientExit` the client library. `ClientExit` includes what the
kernel does for SEM_UNDO. `NextSem` adds 2 to the semaphore index twice, as the code
does, so pairs 0, 2, 4, ... are visited. Time is what the defaults guarantee: clients
ping every second and the daemon checks every 5 seconds, so a check starts only after
every running client has pinged (`pinged`).

**SqueezePlayService.** One script at a time, one command per step. `job` and `step` are
its program counter. `ProcessEnds` covers a crash, the end of a killed process and the
end of `sleep 1h`. `rebooted` says which check rebooted. `CheckPidfile` is the daemon's pid file test (the daemon itself is
not in the repository; its configuration, `watchdog.conf`, and `repair.sh`, which
returns the error it is given, are).

**Supervision.** Extends the service by the monitor: `MonRun` to `MonRm` are the commands of
`monitor_msp430.sh`, `ReadOk` and `ReadFails` one round of the monitor's loop, `CheckMonitor`
the daemon's check of the second pid file. A working chip may miss any request, a dead one
misses all. `missed` and `silent` are history.

**JiveMatrix.** Keys are physical (`held`); a line raises an interrupt if its level
changes while it is configured as one. `matrix_irq` is one action. `matrix_scan` is
split where an interrupt can fall: `ScanStart`, one `SampleRow` per row, `Report`, one
`ReturnLine` per `s3c2410_gpio_cfgpin`. An interrupt that is pending runs before the next
step of the scan, as it does on this uniprocessor. Driving one row alone changes the
level of a line as a key does. The bit masks of the code are sets of keys. `seen` is
history. The driver is built in, so its exit function does not run.

**JiveWheel.** As above, with the quadrature lines and the centre button. `jiffies` is
counted modulo `Wrap` and starts at `-BootTicks`, because the kernel starts it five minutes
before its wrap-around. `HZ` is 200 in the board's configuration, so the interval of
both `mod_timer` calls rounds down to the current jiffy and every tick of a scanning
driver is a scan. The shift register of the button is the set of its 1 bits. `Rotate` may move the wheel several pulses between two scans. `step`, `moves`,
`synced`, `turned`, `fast`, `ups`, `idle` are history; `fast` says that the wheel was faster than
the scans since the detent, and `turned` is then counted modulo a quadrature cycle.

**LinuxRc.** Files of the storage are abstracted to what the scripts tell apart: the
version file and its backup, the versions under which other files were modified, whether
there are settings (files that match `keep-after-upgrade`) and which network they name, the
reset marker, the `auto eth0` lines, `dev.tar`, `firstboot`. Every command is a step and power
may fail after it. The version file is created and then written (`CpVersion`, `WriteVersion`),
so it may be found empty; its three lines, of which linuxrc reads the first and compares all,
are one small write of `cp` and taken to be there all or not at all. `Grep` looks for the
line of a network with the SSID as a pattern: `Matches` says which SSIDs a pattern finds,
and it need not find itself.
`EraseAll` is `flash_eraseall`, which erases every block; cut short (`EraseCut`), it
leaves any part of the files and a storage that may or may not mount. `Forced` is,
for each board, the versions whose storage linuxrc resets by force, `OldNet` the versions
before 7.4. `Use` is what the running system may do to the storage.

**FactoryUpgrade.** An image is good (the one its author meant) or bad. `Copy`, `Erase`,
`Write`, `Verify` run for the kernel, the bootloader and the root file system in the
order of the script, which stops at the first failure. Faults are copies and writes
that go wrong without a report, commands that fail, and power loss. A checksum of an
image is taken to identify it.

**JiveMgmt.** A behaviour follows one of the four switches; they share no pin and no state.
A pin is an interrupt or a plain input, and an edge of a plain input leaves no trace.
The handlers (`IrqSample`, `IrqReport`), the ioctls (`CallInput`, `IoctlDone`) and the initial
report of the probe (`ProbeSample`, `ProbeReport`) all make the pin an input, read it and make
it an interrupt again. AC power is reported by the timer, the others at once. `PmEnter`,
`Sleep` and `CheckInput` to `CheckDone` are a turn of the loop of `jive_pm_enter`: it reads the
pending interrupts first, and then `jive_is_battery_flat` makes the pin of AC power an input,
reads it (`CheckBattery`) and makes it an interrupt again. The hour is kept in BCD as in the RTC. `GetBattery` is the driver's average; because the loop that should wait for
the converter never waits, the first sample may be the previous conversion.

**Lis302dl.** A store changes the driver's copy without the lock (`Store`) and writes the
register from the copy under it (`StoreWrite`). A text is the number it spells: `Parsed` is
`simple_strtoul`, which wraps and refuses a minus sign with EINVAL (`Readable`), `Shown` the `%d`
of the files, which prints the upper half of the unsigned values with one. No store tests
the range, so the register gets the low byte of the copy. A write over I2C may fail
(`StoreWriteFails`); the driver drops the result, and `lost` is the history of it. `Irq`, `WorkRead`, `WorkReport` are the interrupt,
which stays off until its work has run, and the two halves of the work. The three sysfs
files have the same code, so a behaviour follows one.

**Wlan.** A start of `wlan` is a process of its own with its `udhcpc`; `stop` is the program
counter of a stop, which runs in the foreground of the suspend script. Every command is a
step, but for the callbacks of udhcpc: `Deconfig`, `Bound` and the release in `HandleTerm` join
the `killall zcip` of `udhcpc_action` with the `ifconfig` beside it. What the scripts see of `ifup`, `udhcpc`, `zcip` and `wpa_supplicant` is modelled from
their use and from the busybox patches of the repository: `udhcpc` writes its pid file
after it can handle signals, releases its lease on SIGTERM and calls `udhcpc_action`;
`zcip` waits for `zcip_action`; `ifup` records the interface in `ifstate` after `udhcpc` has
returned. A `udhcpc` keeps one name when it goes to the background, where the real one forks
and writes its new pid: it does so at its first lease or failure, while its start still waits
for it, and a kick with the pid from before reaches nobody. A stop at that moment is one that met
a start, the exception of the properties. `late` and `busy` are history.

**Suspend.** The commands of the suspend script in order; during the sleep everything but
the motion of the device is frozen. Network and accelerometer share only the script, so a
behaviour follows one of them (`part`). The script saves the text the driver shows and
writes it back, which the driver refuses if it is negative. `AppStore` is any other writer of
the accelerometer's files. `before` and `wrote` are history.

## 4. Runs

Each property below has a mutant in `PROJECT.json` under which TLC finds it violated.

| Run | Checks | Shows | Bounds |
|---|---|---|---|
| `fwenv_updates` | `TypeOK OneFaultTolerated CopyKept SetOnlyOnce StoreSpec ReadsAreStored` | no order of commands, power losses and one MTD failure loses the environment or changes `ethaddr`; until a failure the two sectors implement `EnvStore`; what a concurrent reader prints was stored while it ran | 2 variables (one write-once), 2 values, 2 pairs per command, room for 1 definition, 1 reader, 1 failure |
| `watchdog_clients` | `PairsExclusive NoFalseReboot MonitoredReboots` | pairs are exclusive, no reboot without cause, a lost client on a visited pair causes one | 2 clients, 3 pairs, a client's set of 1, 1 restart of the daemon |
| `squeezeplay_service` | `OneSqueezePlay RebootHasReason ChipWasSilent CrashNoticed DeadChipNoticed` | every sequence of runs of both scripts; a crash of SqueezePlay or the death of the chip leads to a reboot, and no reboot comes without such a reason | 3 processes, 1 failed read allowed |
| `matrix_keys` | `TypeOK QuietIsReady DebounceExact KeysReported` | scan against interrupts; presses and releases arrive | 2 by 2 keys, one without a key code, 2 samples |
| `wheel_turns` | `QuietIsReady ReleaseDebounced TurnsCounted FastTurnsLoseCycles` | decoding and debouncing, across the wrap of jiffies; a wheel too fast for the scans is wrong by whole cycles only | `Wrap` 8, 2 pulses between two scans, 3 button bits of which 2 are reported |
| `boot_storage` | `TypeOK CleanBoot DoneOnce SettingsKept` | power losses during boots and upgrades | 4 versions, of which 2 with this linuxrc, 3 boards, 2 networks of which 1 does not match itself, 2 upgrades, 2 losses |
| `factory_upgrade` | `CompletedIsGood BootloaderSecond` | every card, faults anywhere | 5 faults, more than which no run of the script meets |
| `mgmt_switches` | `SwitchFollows CheckedHourly NeverWakesFlat SwitchReported` | edges between all steps of handlers, ioctls, probe and sleep | each of the 4 switches, 2 battery levels on both sides of the limit, sleep beginning at 9 or 22 h, 2 hours without a look |
| `suspend_resume` | `RegisterFollows SettingRestored SleepsStopped KickNeverKills LeaseStays SuspendEnds BackOnline MotionReported` | suspends at any moment of a start in the background, with all network events and other writers | 2 starts at a time, an unsigned int of 1024 values, 2 numbers of the application; a suspend that met a start is the last |

Why the bounds are enough. FwEnv: the code treats variables alike except that some are
write-once, and a command of two pairs is the shortest in which one pair sees the
effect of another; capacity 1 of 2 makes the overflow happen. Watchdog: three pairs are
the fewest for which the walk both skips a pair and comes to another; two clients contend
for a pair, and reach the last one because a client passes over pairs that the daemon
has not set up yet; a client's smaller set is of size 1. SqueezePlay: every run
of the script starts at most one process and looks at the last one; three allow start,
stopwdog and restart after one another. The monitor compares its count with the limit only, so
a limit of 1 tells failures in a row from failures with an answer in between. Matrix: two rows make a scan move the lines by itself, two lines
make an interrupt fall between two `cfgpin` calls, two samples make the ring wrap around. Wheel: the numbers keep the order that
matters, half a second < time until the wrap < `Wrap`; two pulses between scans are the
first that the decoder cannot tell a direction of. Management: the hours 9 and 22 lead over
the carry of BCD and over midnight. Suspend: two starts let one that is still running meet
the next; each of the properties about the network excepts a suspend that met a start,
so what follows it is not explored. TLC's integers are too small for 2^32; 1024 keeps the
order byte < half of a word < word, and of the application's numbers 300 does not fit into the
register, while 2024 wraps to one that is shown with a minus sign. Boot: two losses let an
interrupted boot be interrupted again. Where a bound is not obviously enough, the
theorems of section 6 remove it.

## 5. Fairness

- `Watchdog`: the daemon runs with realtime priority (weak fairness of its actions); a
  running client pings again (weak fairness of a ping it has not made since the last
  check). Nothing is assumed of clients that hang.
- `Supervision`: the daemon's checks, every 5 seconds, and the monitor's reads, every second.
  None of the scripts.
- `JiveMatrix`: the kernel handles pending interrupts and expired timers. None of the
  keys.
- `JiveMgmt`: interrupts, timers, and calls and the probe once begun. None of the switches,
  the sleep or the application.
- `Suspend`: scripts, once begun, go on; a `udhcpc` that was started initialises, handles
  SIGTERM and reports its first deconfiguration; a signal that was sent arrives (weak
  fairness). Interrupt and work of the accelerometer run in the end although the device
  sleeps again and again (strong fairness), a store of the script ends, with its write done or
  failed, and a motion wakes a device that may be woken by
  it. Nothing is assumed of DHCP servers, zeroconf, the supplicant or applications.

Deadlock is checked in every run.

## 6. Proofs

Eight modules hold 48 theorems and the 120 lemmas they rest on; each extends the module it
is about (`LinuxRcProofs` two of them, `LinuxRc` and `FactoryUpgrade`, the two ways to new images),
and `PROJECT.json` lists the theorems with the property of a run that each one
states. Every invariant and every action property of a passing run is stated by one. Liveness
is out of the prover's reach; each of the eight liveness properties has a theorem for its
safe half instead, what has to hold beside fairness so that it can come true (below, "safe
half"). The assumptions are the ones the component's module names (`ConstantsOK`,
`MaxStartsOK`, `FailCountOK`): constants have their types, the model values that stand for
"nothing" are no values, and the built-in environment fits. Every inductive invariant
below was checked by TLC under the bounds of section 4 before it was proved. Two facts
about data come from the library: the natural numbers are well founded (a
nonempty set of positions has a last one), and adding or removing an element changes a
cardinality by one at most.

**FwEnv**, for any variables, values, readers, capacity, pairs per command and number
of failures. `TypeCorrect`: `Spec => []TypeOK`. `OneFault`: `Spec => []OneFaultTolerated`.
`CopyIsKept` and `WriteOnce`: the action properties `CopyKept` and `SetOnlyOnce`. None of
them is inductive. `SectorsInv` says, while nothing has failed, that the sector that was
loaded is the one a boot would load and stays intact until the other one holds the new
environment (`SourceIntact`), and that the environment in memory has every write-once
variable of the stored one; for `WriteOnce` the lemma `EditKeeps` shows that a pair that is
not refused keeps this. The stale `oldval` does no harm there, because it can be
stale only on an empty environment. `FaultInv` follows the second half of the rewrite
under one failure.

`Refinement`: `Spec => StoreSpec`, the two sectors implement `EnvStore`. A step after a failure
is `Fail`. Before one, only two steps change what a boot loads, the write of the first
part and the erase of the second, and they replace it by the environment in memory: that
this is what a whole command line asks for is `RequestInv` (memory is the stored
environment with the pairs so far applied, and these with the pairs to come are at most
`MaxPairs`), that it fits is `FitInv`. The induction over the pairs is one over the steps of the
loop: `RequestedAppend` says what one more pair does to `EnvStore!Requested`, and `AppliedNext`
that `SetPair` does just this.

`PrintsStored`: `Spec => []ReadsAreStored`, from `ReadInv`. A reader that meets one update on
an intact sector 0 (`OneUpdate`) sees sector 0 unchanged until sector 1 has the new
environment and that one was stored (`Past`), so whichever word of CRC it holds, it matches
only data that was stored while it ran.

`SuccessWithoutFault`: what the run `fwenv_success` leaves of "everything ok". A command that
met no MTD failure and reports success has its environment in both sectors, so only a result
that `flash_io_write` ignores can make `SuccessMeansStored` false.

**Watchdog**, for any number of clients, pairs and restarts. `TypeCorrect`. `Exclusive`:
`Spec => []PairsExclusive`, from `SetUpInv`: a set that is missing or too small has no free
pair, and while the daemon sets up its own, the pairs it has not come to are neither free nor
held. `RebootsHaveCause`: `Spec => []NoFalseReboot`, from `TakenInv` (a pair that is not free is
held, so its count is somebody's), `CountInv` (a client that runs has an interval left until the
walk has passed its pair) and `TurnInv`, which bridges the two system calls of a turn.
`OddPairsIgnored`: `Spec => []VisitedCause`, why `watchdog_nowayout` is violated, for every
instance: the walk is on an even pair whenever it looks at one (`EvenInv`), so a client lost on
an odd one is never the cause of a reboot. `LostClientsRunOut`, the safe half of
`MonitoredReboots`: a lost client stays lost on its pair, nobody adds to its intervals, and no
walk passes its pair, if it is even, without taking one.

**Supervision**, for any number of processes and any limit of the monitor. `TypeCorrect`.
`ChipIsSilent`: `SuperSpec => []ChipWasSilent`, from `CountInv` (the monitor counts no more than the chip
missed) and `MonPidInv` (a pid file without a running monitor means a silent chip or the
script's window). `AtMostOne`: `SuperSpec => []OneSqueezePlay`, from `JiveInv`: a SqueezePlay is in the pid
file or about to be written to it, and there is none before a fork. `RebootsHaveReason`:
`SuperSpec => []RebootHasReason`, from `FateInv`: a killed process is in the pid file only until the `rm`.
`CrashIsRecorded`, the safe half of `CrashNoticed`: after a crash with no script at work the pid
file names a process that is gone (`RecordInv`: an older pid is in it only between fork and
echo), and this lasts until a reboot or the next script. `DeadChipIsCounted`, the safe half of
`DeadChipNoticed`: a monitor that reads a dead chip counts every read and never runs past the
limit; once it has given up, its pid stays for the daemon.

**JiveMatrix**, for any number of rows, lines and samples and any keymap. `TypeCorrect`.
`QuietIsSafe`: `Spec => []QuietIsReady`, from `LinesInv` (without a timer, the lines
below the loop variable are interrupts already; an interrupt in between starts the timer)
and `KeysInv` (the scan that returns the lines found no key down, so the debounced state
is empty). `Debouncing`: `Spec => []DebounceExact`, from `RingInv`, which relates the slot of
each age in the ring to the history `seen`: the slot of age `a` holds a key if the key
was down in more than `a` scans. `KeysAreWatched`, the safe half of `KeysReported`: while a key
was down in the last scan or is reported down, a scan runs or is due, and scanning only ends
with a scan that found all keys up and has reported them up.

**JiveWheel**, for any wrap-around, widths of register and mask, and speed of the wheel.
`TypeCorrect`. `Debounced`: `Spec => []ReleaseDebounced`, from `ShiftInv`: the youngest 1 in the bits
of the mask is as old as the last scan that saw the button. `NeverDeaf`: `Spec => []QuietIsReady`,
from `LinesInv`, as in the matrix. `SlowTurnsExact` and `FastTurnsModulo`: `TurnsCounted` and
`FastTurnsLoseCycles`, proved together (`CountInv`) because neither is inductive alone: that a slow
wheel is counted exactly needs its position modulo a cycle, which is what is kept of a
fast one. The lemmas `PosOfAB`, `AheadIs` and `PulseIs` say what the decoder's table computes.

**LinuxRc**, for any versions, boards, upgrades and power losses. `TypeCorrect`.
`BootsClean`: `Spec => []CleanBoot`, from `CleanInv`: a version file names its version only
if all modified files and `dev.tar` are of that version (`Owned`), files that are not are
swept before the version is stored (`Swept`), a running system is the one named (`Named`)
and a background tar belongs to it (`TarRuns`). `OneTimeParts`: `Spec => []DoneOnce`, from
`PatchInv`, for any networks and any patterns. `SettingsAreKept`: `Spec => SettingsKept`, from `AskedInv`: a version file that is
there names the version that ran last, and an erase was asked for.

**FactoryUpgrade** (in `LinuxRcProofs`), for any number of faults. `UpgradeCompletes`:
`UpgradeSpec => []CompletedIsGood`; `UpgradeOrder`: the same for `BootloaderSecond`. Both from
`UpgradeInv`, whose core is `Frontier`: partitions before the one being worked on are
verified, those after it are untouched. `OnlyPart` says that a command or a loss of power
changes no other partition. `UpgradeTypes`: type correctness, from `ImagesThere` (the script goes
on only with images that are on the card and in `/tmp`).

**JiveMgmt**, for all four switches, any battery levels and any hours. `TypeCorrect`.
`ReportFollows`: `Spec => []SwitchFollows`, from `PinInv` (who has the pin as an input) and `SampleInv` (a
sample on its way is the level of the pin unless an edge was missed or is pending).
`BatteryHourly`: `Spec => []CheckedHourly`, from `AlarmInv` and the lemma `BcdHours`: the
RTC's conversions agree on all 24 hours and the alarm is set for the next one. `WakesCharged`: `Spec => NeverWakesFlat`, from `CheckInv` (what
the loop decides on is the battery's level and the pin it has sampled) and `OldSampleDropped`: the
average of six samples without the least and the greatest is the battery's level, whatever
the first sample was. `LevelIsNotLost`, the safe half of `SwitchReported`: unless an edge was missed, a
level that is not reported is on its way as an interrupt, a sample, the timer or the probe;
once everything under way is `Fresh`, only another edge brings anything else to the input
device.

**Suspend**, for any number of starts, any width of an unsigned int above 9 bits and any
numbers written by applications. `TypeCorrect`. `RegisterIsCopy`: `Spec => []RegisterFollows`: the
store that ends last writes the copy, so without a failed write the register has the copy's
low byte. `SettingsSurvive`: `Spec => []SettingRestored`, from `DataInv`: the script has saved
the previous setting as the driver shows it, and `ShownRead`: what is shown without a minus
sign is read back as the same value. `Replaced` says where the copy is the value for waking
up, after the sleep too if the driver refused its own text. `KickIsSafe`: `Spec => []KickNeverKills`, from `PidInv`: a pid in the
pid file, or remembered by a kick, is of a `udhcpc` that handles signals or has ended.
`LeaseIsKept` and `NothingLeft`: `LeaseStays` and `SleepsStopped`, from `SingleInv` (as long as no stop
met a start there is one `udhcpc` at most, it is in the pid file, and no zcip runs beside
its lease) and `StoppedInv` (what the stop has ended stays ended).
Safe halves: `WaitCanEnd` of `SuspendEnds`: the stop's loop, which has no limit, waits for one
process, which is gone or has a SIGTERM it can handle, and the device does not sleep meanwhile.
`IfupIsNotRefused` of `BackOnline`: unless a stop met a start, every `ifup` finds the driver
loaded and no record in `ifstate` (`OnlineInv`). `MotionIsKept` of `MotionReported`: a motion stays
on the line until the work reads it, the interrupt is off only while the work has it to
enable (`IrqInv`), and a sleeping device can be woken by it.

Model-checked only: liveness itself (`MonitoredReboots`, `CrashNoticed`, `DeadChipNoticed`,
`KeysReported`, `SwitchReported`, `SuspendEnds`, `BackOnline`, `MotionReported`), which needs fairness and
ENABLED. The properties of the three runs of section 7 do not hold; `SuccessWithoutFault` and
`OddPairsIgnored` say for every instance where two of them fail. What holds of the third,
`ScanEnds`, away from the wrap-around depends on when the wheel was last turned, which the
driver does not keep, and has no theorem.

The type invariants of `Watchdog`, `Supervision`, `JiveWheel`, `FactoryUpgrade`, `JiveMgmt` and
`Suspend` are proved and no
run is spent on them.

## 7. Where code and documentation disagree

Three runs state what the code's own text says and are violated:

- `fwenv_success` (`SuccessMeansStored`): `flash_io_write` drops the results of its two
  parts; after a failed erase of the second sector the old environment stays in force
  and `fw_setenv` succeeds.
- `watchdog_nowayout` (`NowayoutReboots`): `check_semaphore` visits every other pair only,
  so a `nowayout` client on another pair is never noticed.
- `wheel_scan_ends` (`ScanEnds`): `jiffies < click_jiffies + HZ/2` goes wrong at the
  wrap-around; the driver then scans on until the wheel is turned again.

Smaller ones, which the models contain and no run is spent on:

- `fw_setenvs` assigns `oldval` only if the environment holds a definition (`Found`): a
  command that deletes the last variable and then sets `ethaddr` is refused although
  `ethaddr` was never set ("can be set only once", `fw_env.c:307`).
- `stopwdog` is to stop SqueezePlay "keeping watchdog alive" (`squeezeplay:41`), but kills before
  it removes the pid file; a check in between reboots (`RebootHasReason` names this window).
- `start` within the hour after `stopwdog` says "SqueezePlay is already running"
  (`squeezeplay:7`) because the pid file names the `sleep`.
- rcS means to "check for corrupted /etc/udev.tar files" (`rcS:5`) and finds an empty
  `dev.tar`, but not a truncated one, which later boots then unpack (`CheckDevTar`).
- A card made as the head of `upgrade.sh` says ("md5sum of zImage root.cramfs") is refused
  after the bootloader has been replaced, because the checksum of `u-boot.bin` is looked
  up as well (`Verify`).
- "debounce CHR_ACPR for half a second" (`jive_mgmt.c:345`) stands above a timer of `HZ>>2`.
- "wait for EC(End of Conversion)" (`jive_mgmt.c:172`) stands above
  `while(!readl(adc_regs + S3C2410_ADCCON) & S3C2410_ADCCON_ECFLG)`, which never waits, since `!` binds
  tighter than `&`; the average hides it (`NeverWakesFlat`).
- AC power that comes or goes while the sleep loop looks for it interrupts nobody
  (`jive_mgmt.c:643-646`): the device sleeps on, and reports the old state later (`SwitchFollows`).
- A setting of the accelerometer of 256 or more is shown as it was written, while the register
  holds its low byte: after `echo 300 > threshold` the file says 300 and the chip has 44. From
  2^31 on the file shows a negative number that it does not take back, so a suspend leaves
  duration 4 or threshold 20 in force (`SettingRestored`).
- A write to the accelerometer that fails is not reported (`lis302dl.c:235`), and writing the same
  value again does nothing, since the copy has it already (`RegisterFollows`).
- The upgrade of the networking configuration greps for an SSID as a pattern (`linuxrc:98`): one
  like `[x]` is not found, and gets its line again in every repetition (`DoneOnce`).
- If the hour turns between the setting of the alarm and the sleep, the alarm is
  acknowledged away and the next look at the battery is a day later (`CheckedHourly`).
- A suspend while the start of the last resume is still running can leave the network off
  after the next resume: `ifup` records eth0 in `ifstate` after the stop has removed
  the file (`BackOnline`).
- A zeroconf address at the time of the suspend can leave the wireless driver loaded:
  `zcip_action` brings eth0 up between `ifconfig down` and `rmmod` (`SleepsStopped`). In the same
  way it can replace the address of a lease, for `killall zcip` does not end it (`LeaseStays`).
- `blupdate` tests for an empty `BOOTLOADER_DEV`, which always begins with `/dev/mtd/`, so "No
  bootloader device" (`blupdate`, exit 3) is never said. This one is not in a model.

## 8. Not modelled

The repository is 7.5 million lines, of which the kernel tree, poky and the vendors'
drivers are nearly all; measured against them the modelled code is a negligible share.
Measured against Logitech's own programs, drivers and scripts, the parts that keep state,
run concurrently or can be interrupted are modelled. What is left, and why:

- Abstracted everywhere: byte layouts, CRC and MD5 arithmetic, log messages.
- `rcS`: mounts, module loading and the start of daemons, which keep nothing.
- Watchdog: a daemon that is killed during its own initialisation; `startup-delay.patch`, a
  sleep. Two scripts of the same service at once.
- Management driver: backlight and keypad PWM and the charger pins, plain register writes;
  the saving and restoring of processor registers around the sleep.
- Accelerometer: the debugfs dump, failures of the probe and removal of the driver.
- Network: routes, `resolv.conf`, the address zcip remembers, MAC address, region and power
  save settings; the atheros variant of the wlan script, which no suspend calls.
- `jive_irtx.c`: `write` plays its buffer in a busy loop with interrupts off; no state.
- `blupdate`: an erase and a write in a row, without verification or retry; all there is to
  say is that power must not fail in between, as its comment does ("now the risky part!").
- udev's `mount.sh` and `network.sh`: OpenEmbedded's scripts with small changes; events of a
  device come one after the other.
- Interactive test tools, board tables, display and audio glue, kernel patches of vendors and
  upstream, the Marvell driver, the kernel, poky and third-party packages, which are not the
  firmware's own logic.

## 9. Plan

Done: environment, watchdog, service with the MSP430 monitor, matrix, wheel, boot, factory
upgrade, switches and sleep, suspend with network and accelerometer, in the order of what
a failure costs. The compositions `Supervision` and `Suspend` cover the components that share
state at run time. Every invariant and every action property of a passing run is a theorem,
the refinement is proved, and each liveness property has a theorem for its safe half.

What could follow: an abstract specification of the supervision by pid file, which
`Supervision` would implement twice, once for each service.
