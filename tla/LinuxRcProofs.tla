---------------------------- MODULE LinuxRcProofs ---------------------------
(* Proofs about the two programs that replace the contents of the flash:   *)
(* the boot, for every set of versions, any number of upgrades and any     *)
(* number of power losses, and the factory upgrade from an SD card, for    *)
(* any card and any number of faults.                                      *)
EXTENDS LinuxRc, FactoryUpgrade, TLAPS

\* Type correctness of every reachable state of the boot.
THEOREM TypeCorrect == Spec => []TypeOK
  <1>1. Init => TypeOK
    <2> SUFFICES ASSUME Init PROVE TypeOK
      OBVIOUS
    <2>1. /\ firstboot \in BOOLEAN /\ settings \in BOOLEAN /\ marker \in BOOLEAN
      BY DEF Init
    <2>2. /\ erasing \in BOOLEAN /\ reset \in BOOLEAN
          /\ tarring \in BOOLEAN /\ asked \in BOOLEAN
      BY DEF Init
    <2>3. mods \in SUBSET Versions /\ ver \in Versions \cup {NoVer}
      BY ConstantsOK DEF Init
    <2>4. ssid \in SSIDs /\ ifaces \in [SSIDs -> Nat]
      BY DEF Init, NoLines
    <2> QED
      BY ConstantsOK, <2>1, <2>2, <2>3, <2>4 DEF Init, TypeOK, PCs
  <1>2. TypeOK /\ [Next]_vars => TypeOK'
    <2> SUFFICES ASSUME TypeOK, [Next]_vars
                 PROVE  TypeOK'
      OBVIOUS
    <2> USE ConstantsOK DEF TypeOK, PCs, Command, files, hist
    <2>1. ASSUME NEW ok \in BOOLEAN, NEW cmdline \in BOOLEAN, Mount(ok, cmdline)
          PROVE  TypeOK'
      BY <2>1 DEF Mount, LastVersion
    <2>2. CASE FactoryReset
      BY <2>2 DEF FactoryReset
    <2>3. CASE EraseAll
      BY <2>3 DEF EraseAll, NoLines
    <2>4. CASE EraseCut
      <3>1. /\ settings' \in BOOLEAN /\ marker' \in BOOLEAN /\ firstboot' \in BOOLEAN
            /\ erasing' \in BOOLEAN
        BY <2>4 DEF EraseCut
      <3>2. /\ ver' \in Versions \cup {NoVer, Empty} /\ bak' \in Versions \cup {NoVer, Empty}
            /\ mods' \in SUBSET Versions /\ ifaces' \in [SSIDs -> Nat]
            /\ devtar' \in Versions \cup {NoVer, Empty, Part}
        BY <2>4 DEF EraseCut, NoLines
      <3>3. losses' \in 0..MaxLosses
        BY <2>4 DEF EraseCut
      <3> QED
        BY <2>4, <3>1, <3>2, <3>3 DEF EraseCut
    <2>5. CASE Diff
      BY <2>5 DEF Diff
    <2>6. CASE RmDevTar
      BY <2>6 DEF RmDevTar
    <2>7. CASE Migrate
      BY <2>7 DEF Migrate, AddLine
    <2>8. CASE MvVersion
      BY <2>8 DEF MvVersion
    <2>9. CASE CpVersion
      BY <2>9 DEF CpVersion
    <2>10. CASE WriteVersion
      BY <2>10 DEF WriteVersion
    <2>11. CASE ExecInit
      BY <2>11 DEF ExecInit
    <2>12. ASSUME NEW v \in Versions, RmModified(v)
           PROVE  TypeOK'
      BY <2>12 DEF RmModified
    <2>13. ASSUME NEW v \in Images, Flash(v)
           PROVE  TypeOK'
      BY <2>13 DEF Flash
    <2>14. CASE CheckDevTar
      BY <2>14 DEF CheckDevTar
    <2>15. CASE StartUdev
      BY <2>15 DEF StartUdev
    <2>16. CASE Tar
      BY <2>16 DEF Tar
    <2>17. CASE FirstBoot
      BY <2>17 DEF FirstBoot
    <2>18. CASE ApplyPatches
      <3>1. mods' \in SUBSET Versions /\ applied' \in Nat
        BY <2>18 DEF ApplyPatches
      <3> QED
        BY <2>18, <3>1 DEF ApplyPatches
    <2>19. CASE Use
      <3>1. settings' \in BOOLEAN /\ marker' \in BOOLEAN
        BY <2>19 DEF Use
      <3>2. mods' \in SUBSET Versions
        BY <2>19 DEF Use
      <3> QED
        BY <2>19, <3>1, <3>2 DEF Use
    <2>20. CASE PowerLoss
      <3>1. tarring' \in BOOLEAN
        BY <2>20 DEF PowerLoss
      <3>2. losses' \in 0..MaxLosses
        BY <2>20 DEF PowerLoss
      <3> QED
        BY <2>20, <3>1, <3>2 DEF PowerLoss
    <2>21. CASE UNCHANGED vars
      BY <2>21 DEF vars, boot
    <2> QED
      BY <2>1, <2>2, <2>3, <2>4, <2>5, <2>6, <2>7, <2>8, <2>9, <2>10, <2>11, <2>12,
         <2>13, <2>14, <2>15, <2>16, <2>17, <2>18, <2>19, <2>20, <2>21 DEF Next
  <1> QED
    BY <1>1, <1>2, PTL DEF Spec

-----------------------------------------------------------------------------

(***************************************************************************)
(* The inductive invariant.  What the storage holds belongs to the version *)
(* it names, whatever the boot is doing; between the removal of the files  *)
(* and the storing of the version it holds nothing.                        *)
(***************************************************************************)
Owned ==
    ver \in Versions => mods \subseteq {ver} /\ devtar \in {NoVer, Empty, Part, ver}

\* Between the sweep and the new version file the storage holds no modified file.
Swept ==
    pc \in {"migrate", "mv", "cp", "write"} => mods = {} /\ devtar = NoVer

\* A system that runs is the one the storage names.
Named == pc = "exec" \/ Running => ver = root

\* Only a running system makes dev.tar.
TarRuns == tarring => Running

\* A version that is no image was named by the one that ran last.
LastRan == ver \in Versions \ Images => ran = ver

\* An erase has been asked for.
EraseAsked == (pc = "decide" /\ reset) \/ pc = "erase" => asked

\* There is no second line of a network whose name finds the first, and etc/firstboot exists
\* when patches have been applied, and before they are.
PatchInv ==
    /\ \A s \in SSIDs : s \in Matches[s] => ifaces[s] \in {0, 1}
    /\ applied \in {0, 1}
    /\ applied = 1 => firstboot
    /\ pc = "patch" => firstboot /\ applied = 0

\* The inductive invariant of the boot.
CleanInv == Owned /\ Swept /\ Named /\ TarRuns

\* CleanInv is preserved by every step.
LEMMA CleanStep == TypeOK /\ CleanInv /\ [Next]_vars => CleanInv'
  <1> SUFFICES ASSUME TypeOK, CleanInv, [Next]_vars
               PROVE  CleanInv'
    OBVIOUS
  <1> USE ConstantsOK DEF TypeOK, CleanInv, Owned, Swept, Named, TarRuns, Running, Command, files
  <1>1. ASSUME NEW ok \in BOOLEAN, NEW cmdline \in BOOLEAN, Mount(ok, cmdline)
        PROVE  CleanInv'
    BY <1>1 DEF Mount
  <1>2. CASE FactoryReset
    BY <1>2 DEF FactoryReset
  <1>3. CASE EraseAll
    BY <1>3 DEF EraseAll
  <1>4. CASE EraseCut
    BY <1>4 DEF EraseCut
  <1>5. CASE Diff
    BY <1>5 DEF Diff
  <1>6. CASE RmDevTar
    BY <1>6 DEF RmDevTar
  <1>7. CASE Migrate
    BY <1>7 DEF Migrate
  <1>8. CASE MvVersion
    BY <1>8 DEF MvVersion
  <1>9. CASE CpVersion
    BY <1>9 DEF CpVersion
  <1>10. CASE WriteVersion
    BY <1>10 DEF WriteVersion
  <1>11. CASE ExecInit
    BY <1>11 DEF ExecInit
  <1>12. ASSUME NEW v \in Versions, RmModified(v)
         PROVE  CleanInv'
    BY <1>12 DEF RmModified
  <1>13. ASSUME NEW v \in Images, Flash(v)
         PROVE  CleanInv'
    BY <1>13 DEF Flash
  <1>14. CASE CheckDevTar
    BY <1>14 DEF CheckDevTar
  <1>15. CASE StartUdev
    BY <1>15 DEF StartUdev
  <1>16. CASE Tar
    BY <1>16 DEF Tar
  <1>17. CASE FirstBoot
    BY <1>17 DEF FirstBoot
  <1>18. CASE ApplyPatches
    BY <1>18 DEF ApplyPatches
  <1>19. CASE Use
    BY <1>19 DEF Use
  <1>20. CASE PowerLoss
    BY <1>20 DEF PowerLoss
  <1>21. CASE UNCHANGED vars
    BY <1>21 DEF vars, boot
  <1> QED
    BY <1>1, <1>2, <1>3, <1>4, <1>5, <1>6, <1>7, <1>8, <1>9, <1>10, <1>11, <1>12,
       <1>13, <1>14, <1>15, <1>16, <1>17, <1>18, <1>19, <1>20, <1>21 DEF Next

\* The invariant of the storage.
LEMMA Clean == Spec => []CleanInv
  <1>1. Init => CleanInv
    BY ConstantsOK DEF Init, CleanInv, Owned, Swept, Named, TarRuns, Running
  <1> QED
    BY <1>1, CleanStep, TypeCorrect, PTL DEF Spec

(***************************************************************************)
(* Wherever power fails, nothing another version has left in the storage   *)
(* shadows the files of the version that runs.                             *)
(***************************************************************************)
THEOREM BootsClean == Spec => []CleanBoot
  <1>1. TypeOK /\ CleanInv => CleanBoot
    BY ConstantsOK DEF TypeOK, CleanInv, Owned, Named, CleanBoot
  <1> QED
    BY <1>1, Clean, TypeCorrect, PTL

\* Only FirstBoot, ApplyPatches, Migrate and the erase touch what PatchInv is about.
LEMMA PatchStep == TypeOK /\ PatchInv /\ [Next]_vars => PatchInv'
  <1> SUFFICES ASSUME TypeOK, PatchInv, [Next]_vars
               PROVE  PatchInv'
    OBVIOUS
  <1> USE DEF TypeOK, PatchInv, Command, files, hist
  <1>1. ASSUME NEW ok \in BOOLEAN, NEW cmdline \in BOOLEAN, Mount(ok, cmdline)
        PROVE  PatchInv'
    BY <1>1 DEF Mount
  <1>2. CASE EraseAll
    BY <1>2 DEF EraseAll, NoLines
  <1>3. CASE EraseCut
    BY <1>3 DEF EraseCut, NoLines
  <1>4. CASE FactoryReset \/ Diff \/ RmDevTar \/ MvVersion \/ CpVersion
    BY <1>4 DEF FactoryReset, Diff, RmDevTar, MvVersion, CpVersion
  <1>5. CASE Migrate
    <2>1. CASE ifaces' = ifaces
      BY <1>5, <2>1 DEF Migrate
    <2>2. CASE ~Grep /\ AddLine
      <3>1. ssid \in Matches[ssid] => ifaces[ssid] = 0
        BY <2>2 DEF Grep
      <3>2. \A s \in SSIDs : ifaces'[s] = IF s = ssid THEN ifaces[s] + 1 ELSE ifaces[s]
        BY <2>2 DEF AddLine
      <3> QED
        BY <1>5, <3>1, <3>2 DEF Migrate
    <2> QED
      BY <1>5, <2>1, <2>2 DEF Migrate
  <1>6. CASE WriteVersion \/ ExecInit \/ CheckDevTar \/ StartUdev
    BY <1>6 DEF WriteVersion, ExecInit, CheckDevTar, StartUdev
  <1>7. ASSUME NEW v \in Versions, RmModified(v)
        PROVE  PatchInv'
    BY <1>7 DEF RmModified
  <1>8. ASSUME NEW v \in Images, Flash(v)
        PROVE  PatchInv'
    BY <1>8 DEF Flash
  <1>9. CASE Tar
    BY <1>9 DEF Tar
  <1>10. CASE FirstBoot
    BY <1>10 DEF FirstBoot
  <1>11. CASE ApplyPatches
    BY <1>11 DEF ApplyPatches
  <1>12. CASE Use \/ PowerLoss
    BY <1>12 DEF Use, PowerLoss
  <1>13. CASE UNCHANGED vars
    BY <1>13 DEF vars, boot
  <1> QED
    BY <1>1, <1>2, <1>3, <1>4, <1>5, <1>6, <1>7, <1>8, <1>9, <1>10, <1>11, <1>12, <1>13
    DEF Next

(***************************************************************************)
(* However often an upgrade or a first boot is interrupted and repeated,   *)
(* its one-time parts are done at most once: the line of a network whose   *)
(* SSID is not lost on grep, and the patches of the media.                 *)
(***************************************************************************)
THEOREM OneTimeParts == Spec => []DoneOnce
  <1>1. Init => PatchInv
    BY DEF Init, PatchInv, NoLines
  <1>2. PatchInv => DoneOnce
    BY DEF PatchInv, DoneOnce
  <1> QED
    BY <1>1, <1>2, PatchStep, TypeCorrect, PTL DEF Spec

\* The inductive invariant of the settings.
AskedInv == LastRan /\ EraseAsked

\* AskedInv is preserved: a version that forces a reset is that of the last run.
LEMMA AskedStep == TypeOK /\ CleanInv /\ AskedInv /\ [Next]_vars => AskedInv'
  <1> SUFFICES ASSUME TypeOK, CleanInv, AskedInv, [Next]_vars
               PROVE  AskedInv'
    OBVIOUS
  <1> USE ConstantsOK DEF TypeOK, AskedInv, LastRan, EraseAsked, Command, files, hist
  <1>1. ASSUME NEW ok \in BOOLEAN, NEW cmdline \in BOOLEAN, Mount(ok, cmdline)
        PROVE  AskedInv'
    <2>1. LastRan'
      BY <1>1 DEF Mount
    <2>2. MustReset(LastVersion(ok)) => ran \in Forced[board]
      <3> SUFFICES ASSUME LastVersion(ok) \in Forced[board]
                   PROVE  ran \in Forced[board]
        BY DEF MustReset
      <3>1. Forced[board] \subseteq Versions \ Images
        BY ConstantsOK
      <3>2. LastVersion(ok) = ver
        BY <3>1 DEF LastVersion
      <3> QED
        BY <3>1, <3>2
    <2>3. reset' = (~ok \/ marker \/ cmdline \/ MustReset(LastVersion(ok)))
      BY <1>1 DEF Mount
    <2>4. asked' = (asked \/ ~ok \/ marker \/ cmdline \/ ran \in Forced[board])
      BY <1>1 DEF Mount
    <2>5. reset' => asked'
      BY <2>2, <2>3, <2>4
    <2>6. pc' = "decide"
      BY <1>1 DEF Mount
    <2> QED
      BY <2>1, <2>5, <2>6
  <1>2. CASE EraseAll \/ EraseCut
    BY <1>2 DEF EraseAll, EraseCut
  <1>3. CASE FactoryReset
    BY <1>3 DEF FactoryReset
  <1>4. CASE Diff \/ RmDevTar \/ Migrate \/ MvVersion \/ CpVersion
    BY <1>4 DEF Diff, RmDevTar, Migrate, MvVersion, CpVersion
  <1>5. CASE WriteVersion
    BY <1>5 DEF WriteVersion
  <1>6. CASE ExecInit
    <2>1. ver = root
      BY <1>6 DEF ExecInit, CleanInv, Named
    <2> QED
      BY <1>6, <2>1 DEF ExecInit
  <1>7. CASE CheckDevTar \/ StartUdev \/ FirstBoot
    BY <1>7 DEF CheckDevTar, StartUdev, FirstBoot
  <1>8. ASSUME NEW v \in Versions, RmModified(v)
        PROVE  AskedInv'
    BY <1>8 DEF RmModified
  <1>9. ASSUME NEW v \in Images, Flash(v)
        PROVE  AskedInv'
    BY <1>9 DEF Flash
  <1>10. CASE Tar \/ ApplyPatches
    BY <1>10 DEF Tar, ApplyPatches
  <1>11. CASE Use \/ PowerLoss
    BY <1>11 DEF Use, PowerLoss
  <1>12. CASE UNCHANGED vars
    BY <1>12 DEF vars, boot
  <1> QED
    BY <1>1, <1>2, <1>3, <1>4, <1>5, <1>6, <1>7, <1>8, <1>9, <1>10, <1>11, <1>12 DEF Next

(***************************************************************************)
(* Settings are only lost in a factory reset that was asked for or is      *)
(* necessary, however upgrades were interrupted before.                    *)
(***************************************************************************)
THEOREM SettingsAreKept == Spec => SettingsKept
  <1>1. Init => AskedInv
    BY ConstantsOK DEF Init, AskedInv, LastRan, EraseAsked
  <1>2. TypeOK /\ AskedInv /\ [Next]_vars => [settings /\ ~settings' => asked]_vars
    <2> SUFFICES ASSUME TypeOK, AskedInv, Next, settings, ~settings'
                 PROVE  asked
      OBVIOUS
    <2>1. CASE EraseAll \/ EraseCut
      BY <2>1 DEF EraseAll, EraseCut, Command, AskedInv, EraseAsked
    <2>2. CASE \E ok, cmdline \in BOOLEAN : Mount(ok, cmdline)
      BY <2>2 DEF Mount, files
    <2>3. CASE FactoryReset \/ Diff \/ RmDevTar \/ Migrate \/ MvVersion \/ CpVersion
      BY <2>3 DEF FactoryReset, Diff, RmDevTar, Migrate, MvVersion, CpVersion, files
    <2>4. CASE WriteVersion \/ ExecInit \/ CheckDevTar \/ StartUdev \/ Tar \/ FirstBoot
      BY <2>4 DEF WriteVersion, ExecInit, CheckDevTar, StartUdev, Tar, FirstBoot, files
    <2>5. CASE \E v \in Versions : RmModified(v)
      BY <2>5 DEF RmModified
    <2>6. CASE \E v \in Images : Flash(v)
      BY <2>6 DEF Flash, files
    <2>7. CASE ApplyPatches \/ Use \/ PowerLoss
      BY <2>7 DEF ApplyPatches, Use, PowerLoss, files
    <2> QED
      BY <2>1, <2>2, <2>3, <2>4, <2>5, <2>6, <2>7 DEF Next
  <1> QED
    BY <1>1, <1>2, AskedStep, Clean, TypeCorrect, PTL DEF Spec, SettingsKept

-----------------------------------------------------------------------------
(***************************************************************************)
(* The factory upgrade                                                     *)
(***************************************************************************)

\* Where the script is tells which partitions are done and which are untouched.
Frontier ==
    IF step \in {"card", "mtd", "copy"}
    THEN \A p \in Parts : flash[p] = "old"
    ELSE \A i \in 1..3 : /\ i < n => flash[Order[i]] = "good"
                         /\ i > n => flash[Order[i]] = "old"

\* What a card or /tmp may hold of an image.
Copies == {"good", "bad", "missing"}

\* The inductive invariant of the factory upgrade.
UpgradeInv ==
    /\ card \in [Parts -> Copies]
    /\ ram \in [Parts -> Copies]
    /\ flash \in [Parts -> Copies \cup {"old", "erased"}]
    /\ n \in 1..3
    /\ result = "run" => /\ step \in {"card", "mtd", "copy", "erase", "write", "verify"}
                         /\ step \in {"card", "mtd"} => n = 1
                         /\ Frontier
    /\ BootloaderSecond
    /\ CompletedIsGood

\* The parts by their place in the order, and the part being worked on.
LEMMA PartIs ==
    ASSUME n \in 1..3
    PROVE  /\ Order[1] = "kernel" /\ Order[2] = "uboot"
           /\ Order[3] = "rootfs"
           /\ Target \in Parts
           /\ n = 1 => Target = "kernel"
           /\ n = 2 => Target = "uboot"
           /\ n = 3 => Target = "rootfs"
  BY DEF Order, Target, Parts

(***************************************************************************)
(* Only the partition being worked on changes: the rest of UpgradeInv      *)
(* survives whatever a command leaves in it.                               *)
(***************************************************************************)
LEMMA OnlyPart ==
    ASSUME UpgradeInv, result = "run", step \in {"erase", "write", "verify"},
           NEW image \in Copies \cup {"old", "erased"},
           flash' = [flash EXCEPT ![Target] = image], n' = n,
           step' \in {"erase", "write", "verify"}
    PROVE  /\ flash' \in [Parts -> Copies \cup {"old", "erased"}]
           /\ Frontier'
           /\ BootloaderSecond'
  <1>1. /\ Parts = {"kernel", "uboot", "rootfs"} /\ n \in 1..3
        /\ flash \in [Parts -> Copies \cup {"old", "erased"}]
    BY DEF UpgradeInv, Parts
  <1>2. /\ n = 1 => flash["uboot"] = "old" /\ flash["rootfs"] = "old"
        /\ n = 2 => flash["kernel"] = "good" /\ flash["rootfs"] = "old"
        /\ n = 3 => flash["kernel"] = "good" /\ flash["uboot"] = "good"
    BY <1>1, PartIs DEF UpgradeInv, Frontier
  <1>3. /\ n = 1 => flash'["uboot"] = "old" /\ flash'["rootfs"] = "old"
        /\ n = 2 => flash'["kernel"] = "good" /\ flash'["rootfs"] = "old"
        /\ n = 3 => flash'["kernel"] = "good" /\ flash'["uboot"] = "good"
    BY <1>1, <1>2, PartIs
  <1>4. flash' \in [Parts -> Copies \cup {"old", "erased"}]
    BY <1>1, PartIs
  <1>5. BootloaderSecond'
    BY <1>1, <1>3 DEF BootloaderSecond
  <1>6. Frontier'
    BY <1>1, <1>3, PartIs DEF Frontier, Order
  <1> QED
    BY <1>4, <1>5, <1>6

\* Every command of the factory upgrade, and every fault, keeps UpgradeInv.
LEMMA UpgradeStep == UpgradeInv /\ [UpgradeNext]_upgradeVars => UpgradeInv'
  <1> SUFFICES ASSUME UpgradeInv, [UpgradeNext]_upgradeVars
               PROVE  UpgradeInv'
    OBVIOUS
  <1>0. /\ n \in 1..3 /\ card \in [Parts -> Copies] /\ ram \in [Parts -> Copies]
        /\ flash \in [Parts -> Copies \cup {"old", "erased"}]
        /\ BootloaderSecond /\ CompletedIsGood
        /\ Target \in Parts
    BY PartIs DEF UpgradeInv
  <1>1. CASE CheckCard \/ CheckMtd
    <2>1. /\ UNCHANGED <<card, ram, flash, n>> /\ result' # "ok"
          /\ result' = "run" => step' \in {"mtd", "copy"}
          /\ step \in {"card", "mtd"} /\ result = "run"
      BY <1>1 DEF CheckCard, CheckMtd, Fail, At
    <2> QED
      BY <1>0, <2>1 DEF UpgradeInv, Frontier, BootloaderSecond,
                        CompletedIsGood, Parts
  <1>2. CASE Copy \/ CopyFault
    <2>1. PICK image \in Copies : Copied(image)
      BY <1>0, <1>2 DEF Copy, CopyFault, Copies
    <2>2. /\ UNCHANGED <<card, flash, result>> /\ result = "run" /\ step = "copy"
          /\ ram' \in [Parts -> Copies]
          /\ n' \in 1..3
          /\ \/ step' = "copy"
             \/ step' = "erase" /\ n' = 1
      BY <1>0, <2>1 DEF Copied, At
    <2>3. \A p \in Parts : flash'[p] = "old"
      BY <2>2 DEF UpgradeInv, Frontier
    <2>4. Frontier'
      BY <2>2, <2>3, PartIs DEF Frontier, Order, Parts
    <2> QED
      BY <1>0, <2>2, <2>4 DEF UpgradeInv, BootloaderSecond, CompletedIsGood
  <1>3. CASE Erase \/ Write \/ WriteFault
    <2>1. PICK image \in Copies \cup {"old", "erased"} :
                 flash' = [flash EXCEPT ![Target] = image]
      BY <1>0, <1>3 DEF Erase, Write, WriteFault, Written, Copies
    <2>2. /\ UNCHANGED <<card, ram, n, result>> /\ result = "run"
          /\ step \in {"erase", "write"} /\ step' \in {"write", "verify"}
      BY <1>3 DEF Erase, Write, WriteFault, Written, At
    <2> QED
      BY <1>0, <2>1, <2>2, OnlyPart DEF UpgradeInv, CompletedIsGood
  <1>4. CASE EraseFails \/ WriteFails
    <2>1. PICK image \in Copies \cup {"old", "erased"} :
                 flash' = [flash EXCEPT ![Target] = image]
      BY <1>0, <1>4 DEF EraseFails, WriteFails, Copies
    <2>2. /\ UNCHANGED <<card, ram, n, step>> /\ result = "run" /\ result' = "failed"
          /\ step \in {"erase", "write"}
      BY <1>4 DEF EraseFails, WriteFails, Fail, At
    <2> QED
      BY <1>0, <2>1, <2>2, OnlyPart DEF UpgradeInv, CompletedIsGood
  <1>5. CASE Verify
    <2>1. /\ UNCHANGED <<card, ram, flash>> /\ result = "run" /\ step = "verify"
          /\ n' \in 1..3
      BY <1>0, <1>5 DEF Verify, At, Fail
    <2>2. /\ n = 1 => flash["uboot"] = "old" /\ flash["rootfs"] = "old"
          /\ n = 2 => flash["kernel"] = "good" /\ flash["rootfs"] = "old"
          /\ n = 3 => flash["kernel"] = "good" /\ flash["uboot"] = "good"
      BY <1>0, <2>1, PartIs DEF UpgradeInv, Frontier
    <2>3. CASE Listed(flash[Target])
      <3>1. flash[Target] = "good"
        BY <2>3 DEF Listed
      <3>2. CASE n = 3
        <4>1. result' = "ok" /\ flash'["rootfs"] = "good"
          BY <1>5, <2>1, <2>3, <3>1, <3>2, PartIs DEF Verify
        <4>2. CompletedIsGood'
          BY <2>1, <2>2, <3>2, <4>1 DEF CompletedIsGood, Parts
        <4> QED
          BY <1>0, <2>1, <4>1, <4>2 DEF UpgradeInv, BootloaderSecond
      <3>3. CASE n # 3
        <4>1. n' = n + 1 /\ step' = "erase" /\ result' = "run"
          BY <1>5, <2>3, <3>3 DEF Verify
        <4>2. Frontier'
          BY <1>0, <2>1, <2>2, <3>1, <3>3, <4>1, PartIs DEF Frontier, Order
        <4> QED
          BY <1>0, <2>1, <4>1, <4>2 DEF UpgradeInv, BootloaderSecond,
                                        CompletedIsGood
      <3> QED
        BY <3>2, <3>3
    <2>4. CASE ~Listed(flash[Target])
      BY <1>0, <1>5, <2>1, <2>4 DEF Verify, Fail, UpgradeInv,
             BootloaderSecond, CompletedIsGood
    <2> QED
      BY <2>3, <2>4
  <1>6. CASE DumpFails
    BY <1>0, <1>6 DEF DumpFails, Fail, UpgradeInv,
           BootloaderSecond, CompletedIsGood
  <1>7. CASE PowerFails
    <2>1. UNCHANGED <<card, ram, n, step>> /\ result = "run" /\ result' = "off"
      BY <1>7 DEF PowerFails
    <2>2. CASE flash' = flash
      BY <1>0, <2>1, <2>2 DEF UpgradeInv, BootloaderSecond, CompletedIsGood
    <2>3. CASE step \in {"erase", "write"} /\ flash' = [flash EXCEPT ![Target] = "bad"]
      <3>1. "bad" \in Copies \cup {"old", "erased"}
        BY DEF Copies
      <3> QED
        BY <1>0, <2>1, <2>3, <3>1, OnlyPart DEF UpgradeInv, CompletedIsGood
    <2> QED
      BY <1>0, <1>7, <2>2, <2>3 DEF PowerFails
  <1>8. CASE Ended \/ UNCHANGED upgradeVars
    BY <1>0, <1>8 DEF Ended, upgradeVars, UpgradeInv, Frontier,
           BootloaderSecond, CompletedIsGood
  <1> QED
    BY <1>1, <1>2, <1>3, <1>4, <1>5, <1>6, <1>7, <1>8 DEF UpgradeNext

\* Every state of a factory upgrade satisfies its inductive invariant.
LEMMA UpgradeInvariant == UpgradeSpec => []UpgradeInv
  <1>1. UpgradeInit => UpgradeInv
    BY DEF UpgradeInit, UpgradeInv, Frontier, Copies, Parts,
           BootloaderSecond, CompletedIsGood
  <1> QED
    BY <1>1, UpgradeStep, PTL DEF UpgradeSpec

(***************************************************************************)
(* "OK: upgrade completed" is only printed over three good partitions:     *)
(* for any card, and for any number of copies and writes that went wrong   *)
(* without a report.                                                       *)
(***************************************************************************)
THEOREM UpgradeCompletes == UpgradeSpec => []CompletedIsGood
  <1>1. UpgradeInv => CompletedIsGood
    BY DEF UpgradeInv
  <1> QED
    BY <1>1, UpgradeInvariant, PTL

(***************************************************************************)
(* The bootloader is only touched over a kernel that was written and       *)
(* verified, and the root file system only over such a bootloader:         *)
(* wherever the script stops, on a failed command or without power.        *)
(***************************************************************************)
THEOREM UpgradeOrder == UpgradeSpec => []BootloaderSecond
  <1>1. UpgradeInv => BootloaderSecond
    BY DEF UpgradeInv
  <1> QED
    BY <1>1, UpgradeInvariant, PTL

(***************************************************************************)
(* The script goes on only with images that are there: on the card once it *)
(* was checked, and in /tmp once they were copied.                         *)
(***************************************************************************)
ImagesThere ==
    result = "run" =>
        /\ step # "card" => \A p \in Parts : card[p] # "missing"
        /\ \A i \in 1..3 : (step = "copy" /\ i < n) \/ step \in {"erase", "write", "verify"}
                               => ram[Order[i]] # "missing"

\* Every step keeps the types, and works on images that are there.
LEMMA TypesStep ==
    ASSUME UpgradeInv, UpgradeTypeOK, ImagesThere, [UpgradeNext]_upgradeVars
    PROVE  UpgradeTypeOK' /\ ImagesThere'
  <1> USE MaxFaultsOK DEF UpgradeTypeOK, ImagesThere
  <1>0. /\ n \in 1..3 /\ Target \in Parts /\ Target = Order[n]
        /\ \A i \in 1..3 : Order[i] \in Parts /\ (Order[i] = Target => i = n)
    BY PartIs DEF UpgradeInv, Target, Parts
  <1>1. CASE CheckCard \/ CheckMtd
    <2>1. step \in {"card", "mtd"} /\ n = 1 /\ result = "run"
      BY <1>1 DEF CheckCard, CheckMtd, At, UpgradeInv
    <2> QED
      BY <1>1, <2>1 DEF CheckCard, CheckMtd, Fail, At
  <1>2. CASE Copy \/ CopyFault
    <2>1. At("copy") /\ card[Target] \in {"good", "bad"}
      BY <1>0, <1>2 DEF Copy, CopyFault, Copied, At
    <2>2. PICK image \in {"good", "bad"} : Copied(image)
      BY <1>2, <2>1 DEF Copy, CopyFault
    <2>3. faults' \in 0..MaxFaults
      BY <1>2 DEF Copy, CopyFault, Fault
    <2>4. ram' \in [Parts -> {"good", "bad", "missing"}]
      BY <1>0, <2>2 DEF Copied
    <2>5. \A i \in 1..3 : i <= n => ram'[Order[i]] # "missing"
      BY <1>0, <2>1, <2>2 DEF Copied, At
    <2> QED
      BY <1>0, <2>1, <2>2, <2>3, <2>4, <2>5 DEF Copied, At
  <1>3. CASE Erase \/ EraseFails
    BY <1>0, <1>3 DEF Erase, EraseFails, Fail, Fault, At
  <1>4. CASE Write \/ WriteFault \/ WriteFails
    <2>1. ram[Target] \in {"good", "bad"}
      BY <1>0, <1>4 DEF Write, WriteFault, WriteFails, Written, At
    <2> QED
      BY <1>0, <1>4, <2>1 DEF Write, WriteFault, WriteFails, Written, Fail, Fault, At
  <1>5. CASE Verify \/ DumpFails
    BY <1>0, <1>5 DEF Verify, DumpFails, Fail, Fault, At
  <1>6. CASE PowerFails
    BY <1>0, <1>6 DEF PowerFails, Fault
  <1>7. CASE Ended \/ UNCHANGED upgradeVars
    BY <1>7 DEF Ended, upgradeVars
  <1> QED
    BY <1>1, <1>2, <1>3, <1>4, <1>5, <1>6, <1>7 DEF UpgradeNext

(***************************************************************************)
(* Type correctness of the factory upgrade, which includes that no image   *)
(* is written to a partition that was not on the card and in /tmp.         *)
(***************************************************************************)
THEOREM UpgradeTypes == UpgradeSpec => []UpgradeTypeOK
  <1>1. UpgradeInit => UpgradeTypeOK /\ ImagesThere
    BY MaxFaultsOK DEF UpgradeInit, UpgradeTypeOK, ImagesThere
  <1> QED
    BY <1>1, TypesStep, UpgradeInvariant, PTL DEF UpgradeSpec
=============================================================================
