------------------------------ MODULE LinuxRc -------------------------------
(***************************************************************************)
(* The boot of SqueezeOS from its read-only root and its writable storage: *)
(* base-files/files/linuxrc (factory reset, clean-up after an upgrade,     *)
(* overlay), the parts of rcS that keep state in the storage (dev.tar,     *)
(* first boot) and udev's init script, which writes dev.tar.               *)
(*                                                                         *)
(* Files of the storage shadow those of the root.  Every command is a step *)
(* after which power may fail.  A file that is being written when power    *)
(* fails is empty or partly written; a storage whose erase is cut short    *)
(* has lost any part of its files and may no longer be mountable.          *)
(***************************************************************************)
EXTENDS Integers, FiniteSets

CONSTANTS
    Versions,    \* versions of SqueezeOS
    Images,      \* those whose root image holds this linuxrc
    OldNet,      \* those before 7.4
    Forced,      \* board -> versions whose storage is reset by force
    SSIDs,       \* wireless networks
    Matches,     \* SSID -> those it matches as a pattern of grep
    NoVer, Empty, Part,  \* no file, an empty file, a truncated file
    MaxFlashes,  \* bound on the firmware upgrades
    MaxLosses    \* bound on the power losses

ASSUME ConstantsOK ==
    /\ Images \subseteq Versions /\ OldNet \subseteq Versions \ Images
    /\ NoVer \notin Versions /\ Empty \notin Versions /\ Part \notin Versions
    /\ NoVer # Empty /\ NoVer # Part /\ Empty # Part
    /\ MaxFlashes \in Nat /\ MaxLosses \in Nat
    /\ \A b \in DOMAIN Forced : Forced[b] \subseteq Versions \ Images
    /\ Matches \in [SSIDs -> SUBSET SSIDs]

VARIABLES
    board, root,  \* /proc/cpuinfo, /etc/squeezeos.version of the root image
    ver, bak,     \* etc/squeezeos.version and its .bak in the storage
    mods,         \* versions under which other files were modified
    settings,     \* there are settings (files of keep-after-upgrade)
    ssid,         \* the network of these settings
    marker,       \* /mnt/storage/.factoryreset
    ifaces,       \* SSID -> "auto eth0=..." lines linuxrc has added
    devtar,       \* etc/dev.tar: the version it was made under
    firstboot,    \* etc/firstboot
    erasing,      \* an erase of the storage was cut short
    pc, prev, reset,  \* where the boot is, SQUEEZEOS_VERSION, FACTORY_RESET
    tarring,      \* tar cf /etc/dev.tar runs in the background
    flashes, losses,
    asked,        \* history: a reset was asked for, or is necessary
    ran,          \* history: the version that ran last
    applied       \* history: how often patches were applied since an erase

files == <<ver, bak, mods, settings, ssid, marker, ifaces, devtar, firstboot>>
boot  == <<pc, prev, reset, tarring>>
hist  == <<asked, ran, applied>>
vars  == <<board, root, files, erasing, boot, flashes, losses, hist>>

NoLines == [s \in SSIDs |-> 0]

\* The first boot of such an image, on a blank storage or on one that another version used.
Init ==
    /\ board \in DOMAIN Forced
    /\ root \in Images
    /\ ver \in (Versions \ Images) \cup {NoVer}
    /\ mods \in SUBSET ({ver} \ {NoVer})
    /\ settings \in {FALSE, ver # NoVer} /\ marker \in {FALSE, ver # NoVer}
    /\ devtar \in {NoVer, ver} /\ firstboot \in {FALSE, ver # NoVer}
    /\ ssid \in SSIDs /\ ifaces = NoLines
    /\ bak = NoVer /\ erasing = FALSE
    /\ pc = "off" /\ prev = NoVer /\ reset = FALSE /\ tarring = FALSE
    /\ flashes = 0 /\ losses = 0
    /\ asked = FALSE /\ ran = ver /\ applied = 0

\* One command of the boot from pc p to pc q.
Command(p, q) ==
    /\ pc = p /\ pc' = q
    /\ UNCHANGED <<board, root, flashes, losses>>

-----------------------------------------------------------------------------
\* linuxrc

\* Faulty variant: a version that cannot be read counts as an old one.
MustResetUnread(v) == v \in Forced[board] \/ (v = NoVer /\ settings)

\* Forced factory reset; a comparison with a missing number fails.
MustReset(v) == v \in Forced[board]

\* Faulty variant: the content of an empty file is taken for a version.
LastVersionRaw(mountok) == IF mountok THEN ver ELSE NoVer

\* SQUEEZEOS_VERSION: head and cut yield nothing for a missing or an empty file.
LastVersion(mountok) == IF mountok /\ ver # Empty THEN ver ELSE NoVer

\* Mount the storage, look for a reset request and read the last version.
Mount(mountok, cmdline) ==
    /\ mountok \/ erasing
    /\ Command("off", "decide")
    /\ prev' = LastVersion(mountok)
    /\ reset' = (~mountok \/ marker \/ cmdline \/ MustReset(LastVersion(mountok)))
    /\ asked' = (asked \/ ~mountok \/ marker \/ cmdline \/ ran \in Forced[board])
    /\ UNCHANGED <<files, erasing, tarring, ran, applied>>

FactoryReset ==
    /\ reset
    /\ Command("decide", "erase")
    /\ UNCHANGED <<files, erasing, prev, reset, tarring, hist>>

\* flash_eraseall, mount again and mkdir.
EraseAll ==
    /\ Command("erase", "cp")
    /\ ver' = NoVer /\ bak' = NoVer /\ mods' = {} /\ settings' = FALSE /\ marker' = FALSE
    /\ ifaces' = NoLines /\ devtar' = NoVer /\ firstboot' = FALSE /\ erasing' = FALSE
    /\ asked' = FALSE /\ applied' = 0
    /\ UNCHANGED <<ssid, prev, reset, tarring, ran>>

\* Power fails during flash_eraseall.
EraseCut ==
    /\ pc = "erase" /\ losses < MaxLosses
    /\ pc' = "off" /\ erasing' = TRUE /\ losses' = losses + 1
    /\ ver' \in {ver, NoVer} /\ bak' \in {bak, NoVer} /\ mods' \in SUBSET mods
    /\ settings' \in {settings, FALSE} /\ marker' \in {marker, FALSE}
    /\ ifaces' \in {ifaces, NoLines} /\ devtar' \in {devtar, NoVer}
    /\ firstboot' \in {firstboot, FALSE} /\ applied' = 0
    /\ UNCHANGED <<board, root, ssid, prev, reset, tarring, flashes, asked, ran>>

\* Faulty variant: the version is stored before the files are removed.
DiffStoresFirst ==
    /\ ~reset
    /\ Command("decide", IF ver = root THEN "exec" ELSE "rm")
    /\ ver' = root
    /\ UNCHANGED <<bak, mods, settings, ssid, marker, ifaces, devtar, firstboot,
                   erasing, prev, reset, tarring, hist>>

\* diff -N of the two version files.
Diff ==
    /\ ~reset
    /\ Command("decide", IF ver = root THEN "exec" ELSE "rm")
    /\ UNCHANGED <<files, erasing, prev, reset, tarring, hist>>

\* Remove the modified files that do not match keep-after-upgrade, one by one.
RmModified(v) ==
    /\ v \in mods
    /\ Command("rm", "rm")
    /\ mods' = mods \ {v}
    /\ UNCHANGED <<ver, bak, settings, ssid, marker, ifaces, devtar, firstboot,
                   erasing, prev, reset, tarring, hist>>

\* Delete the udev cache.
RmDevTar ==
    /\ mods = {}
    /\ Command("rm", "migrate")
    /\ devtar' = NoVer
    /\ UNCHANGED <<ver, bak, mods, settings, ssid, marker, ifaces, firstboot,
                   erasing, prev, reset, tarring, hist>>

\* echo "auto eth0=$SSID" >> interfaces
AddLine == ifaces' = [ifaces EXCEPT ![ssid] = @ + 1]

\* grep "auto eth0=$SSID" interfaces
Grep == \E s \in Matches[ssid] : ifaces[s] > 0

\* Faulty variant: the line is added without looking for it.
MigrateAgain ==
    /\ Command("migrate", "mv")
    /\ IF settings /\ (prev = NoVer \/ prev \in OldNet) THEN AddLine ELSE UNCHANGED ifaces
    /\ UNCHANGED <<ver, bak, mods, settings, ssid, marker, devtar, firstboot,
                   erasing, prev, reset, tarring, hist>>

\* Upgrade the networking configuration of a version before 7.4.
Migrate ==
    /\ Command("migrate", "mv")
    /\ IF settings /\ (prev = NoVer \/ prev \in OldNet) /\ ~Grep
       THEN AddLine ELSE UNCHANGED ifaces
    /\ UNCHANGED <<ver, bak, mods, settings, ssid, marker, devtar, firstboot,
                   erasing, prev, reset, tarring, hist>>

\* mv squeezeos.version squeezeos.version.bak
MvVersion ==
    /\ Command("mv", "cp")
    /\ bak' = IF ver = NoVer THEN bak ELSE ver
    /\ ver' = NoVer
    /\ UNCHANGED <<mods, settings, ssid, marker, ifaces, devtar, firstboot,
                   erasing, prev, reset, tarring, hist>>

\* cp /etc/squeezeos.version: create the file, then write it.
CpVersion ==
    /\ Command("cp", "write")
    /\ ver' = Empty
    /\ UNCHANGED <<bak, mods, settings, ssid, marker, ifaces, devtar, firstboot,
                   erasing, prev, reset, tarring, hist>>

WriteVersion ==
    /\ Command("write", "exec")
    /\ ver' = root
    /\ UNCHANGED <<bak, mods, settings, ssid, marker, ifaces, devtar, firstboot,
                   erasing, prev, reset, tarring, hist>>

\* Mount the overlay and run init.
ExecInit ==
    /\ Command("exec", "rcS")
    /\ ran' = root
    /\ UNCHANGED <<files, erasing, prev, reset, tarring, asked, applied>>

-----------------------------------------------------------------------------
\* rcS and udev

\* Remove an empty dev.tar.
CheckDevTar ==
    /\ Command("rcS", "udev")
    /\ devtar' = IF devtar = Empty THEN NoVer ELSE devtar
    /\ UNCHANGED <<ver, bak, mods, settings, ssid, marker, ifaces, firstboot,
                   erasing, prev, reset, tarring, hist>>

\* Unpack dev.tar, or start to make one.
StartUdev ==
    /\ Command("udev", "first")
    /\ tarring' = (devtar = NoVer)
    /\ devtar' = IF devtar = NoVer THEN Empty ELSE devtar
    /\ UNCHANGED <<ver, bak, mods, settings, ssid, marker, ifaces, firstboot,
                   erasing, prev, reset, hist>>

\* tar in the background.
Tar ==
    /\ tarring
    /\ devtar' = IF devtar = Empty THEN Part ELSE root
    /\ tarring' = (devtar = Empty)
    /\ UNCHANGED <<board, root, ver, bak, mods, settings, ssid, marker, ifaces, firstboot,
                   erasing, pc, prev, reset, flashes, losses, hist>>

\* touch /etc/firstboot, unless it is there.
FirstBoot ==
    /\ Command("first", IF firstboot THEN "up" ELSE "patch")
    /\ firstboot' = TRUE
    /\ UNCHANGED <<ver, bak, mods, settings, ssid, marker, ifaces, devtar,
                   erasing, prev, reset, tarring, hist>>

\* The patches and post-reset scripts of the media.
ApplyPatches ==
    /\ Command("patch", "up")
    /\ applied' = applied + 1
    /\ mods' = mods \cup {root}
    /\ UNCHANGED <<ver, bak, settings, ssid, marker, ifaces, devtar, firstboot,
                   erasing, prev, reset, tarring, asked, ran>>

-----------------------------------------------------------------------------
\* What users and applications do, and power losses

\* A file, a setting or a reset request is written.
Use ==
    /\ Command("up", "up")
    /\ \/ mods' = mods \cup {root} /\ UNCHANGED <<settings, ssid, marker>>
       \/ settings' = TRUE /\ ssid' \in SSIDs /\ UNCHANGED <<mods, marker>>
       \/ marker' = TRUE /\ UNCHANGED <<mods, settings, ssid>>
    /\ UNCHANGED <<ver, bak, ifaces, devtar, firstboot, erasing, prev, reset, tarring, hist>>

\* Another root image is flashed; it is followed by a reboot.
Flash(v) ==
    /\ pc = "up" /\ ~tarring /\ flashes < MaxFlashes
    /\ root' = v /\ pc' = "off" /\ flashes' = flashes + 1
    /\ UNCHANGED <<board, files, erasing, prev, reset, tarring, losses, hist>>

PowerLoss ==
    /\ pc # "off" /\ losses < MaxLosses
    /\ pc' = "off" /\ tarring' = FALSE /\ losses' = losses + 1
    /\ UNCHANGED <<board, root, files, erasing, prev, reset, flashes, hist>>

Next ==
    \/ \E mountok, cmdline \in BOOLEAN : Mount(mountok, cmdline)
    \/ FactoryReset \/ EraseAll \/ EraseCut
    \/ Diff \/ RmDevTar \/ Migrate \/ MvVersion \/ CpVersion \/ WriteVersion \/ ExecInit
    \/ \E v \in Versions : RmModified(v)
    \/ \E v \in Images : Flash(v)
    \/ CheckDevTar \/ StartUdev \/ Tar \/ FirstBoot \/ ApplyPatches
    \/ Use
    \/ PowerLoss

Spec == Init /\ [][Next]_vars

-----------------------------------------------------------------------------

PCs == {"off", "decide", "erase", "rm", "migrate", "mv", "cp", "write", "exec",
        "rcS", "udev", "first", "patch", "up"}

\* The variables have the types of the files and shell variables.
TypeOK ==
    /\ board \in DOMAIN Forced /\ root \in Images
    /\ ver \in Versions \cup {NoVer, Empty} /\ bak \in Versions \cup {NoVer, Empty}
    /\ mods \in SUBSET Versions
    /\ settings \in BOOLEAN /\ marker \in BOOLEAN
    /\ ssid \in SSIDs /\ ifaces \in [SSIDs -> Nat]
    /\ devtar \in Versions \cup {NoVer, Empty, Part}
    /\ firstboot \in BOOLEAN /\ erasing \in BOOLEAN
    /\ pc \in PCs /\ prev \in Versions \cup {NoVer} /\ reset \in BOOLEAN
    /\ tarring \in BOOLEAN
    /\ flashes \in 0..MaxFlashes /\ losses \in 0..MaxLosses
    /\ asked \in BOOLEAN /\ ran \in Versions \cup {NoVer} /\ applied \in Nat

\* The system runs.
Running == pc \in {"rcS", "udev", "first", "patch", "up"}

(***************************************************************************)
(* No modified file (keep-after-upgrade aside) and no dev.tar of another   *)
(* version shadows the files of the version that runs, wherever power      *)
(* failed during upgrades, resets and earlier boots; and the storage names *)
(* the version that runs.                                                  *)
(***************************************************************************)
CleanBoot ==
    Running => ver = root /\ mods \subseteq {root} /\ devtar \in {NoVer, Empty, Part, root}

(***************************************************************************)
(* However often an upgrade is interrupted and repeated, and the network   *)
(* changed in between, linuxrc adds an "auto eth0" line for a network at   *)
(* most once, if the SSID matches itself as a pattern; and patches of the  *)
(* media are applied at most once after a reset, possibly never.           *)
(***************************************************************************)
DoneOnce ==
    /\ \A s \in SSIDs : s \in Matches[s] => ifaces[s] <= 1
    /\ applied <= 1

(***************************************************************************)
(* Settings are only lost in a factory reset that somebody asked for, that *)
(* a damaged storage makes necessary or that the version that ran last     *)
(* forces: never because an interrupted upgrade has left no version file.  *)
(***************************************************************************)
SettingsKept == [][settings /\ ~settings' => asked]_vars
=============================================================================
