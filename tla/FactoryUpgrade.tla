--------------------------- MODULE FactoryUpgrade ---------------------------
(***************************************************************************)
(* The factory upgrade from an SD card, src/scripts/upgrade.sh: check the  *)
(* card, copy its images to RAM, then erase, write and verify the kernel,  *)
(* the bootloader and the root file system, one after the other, and stop  *)
(* at the first failure.                                                   *)
(*                                                                         *)
(* The commands may fail, a copy or a write may go wrong without saying    *)
(* so, and power may be lost; each of these is a fault.  Images are        *)
(* abstracted to good (what the card is meant to hold) and bad; a checksum *)
(* of good is in upgrade.md5 if the card's author put it there.            *)
(***************************************************************************)
EXTENDS Integers, Sequences

CONSTANTS
    MaxFaults   \* bound on what goes wrong in one upgrade

ASSUME MaxFaultsOK == MaxFaults \in Nat

\* Faulty variant: the bootloader first.
OrderBootloaderFirst == <<"uboot", "kernel", "rootfs">>

\* The order in which the partitions are written.
Order == <<"kernel", "uboot", "rootfs">>
Parts == {"kernel", "uboot", "rootfs"}

VARIABLES
    card,     \* part -> the image on the card: good, bad or missing
    md5,      \* parts whose checksum is in upgrade.md5
    md5file,  \* upgrade.md5 is there
    mtds,     \* parts whose partition is found in /proc/mtd
    ram,      \* part -> the image in /tmp
    flash,    \* part -> old, erased, good or bad
    step,     \* what the script does next
    n,        \* the part it works on
    result,   \* run, ok or failed, or off after a power loss
    faults

upgradeVars == <<card, md5, md5file, mtds, ram, flash, step, n, result, faults>>

UpgradeInit ==
    /\ card \in [Parts -> {"good", "bad", "missing"}]
    /\ md5 \in SUBSET Parts
    /\ md5file \in BOOLEAN
    /\ mtds \in {Parts} \cup {Parts \ {p} : p \in Parts}
    /\ ram = [p \in Parts |-> "missing"]
    /\ flash = [p \in Parts |-> "old"]
    /\ step = "card" /\ n = 1
    /\ result = "run"
    /\ faults = 0

Target == Order[n]

At(s) == result = "run" /\ step = s

Fault == faults < MaxFaults /\ faults' = faults + 1

Fail == result' = "failed" /\ UNCHANGED <<step, n>>

-----------------------------------------------------------------------------

\* Are the images and upgrade.md5 readable?
CheckCard ==
    /\ At("card")
    /\ IF md5file /\ \A p \in Parts : card[p] # "missing"
       THEN step' = "mtd" /\ UNCHANGED <<n, result>>
       ELSE Fail
    /\ UNCHANGED <<card, md5, md5file, mtds, ram, flash, faults>>

\* Are the partitions there?
CheckMtd ==
    /\ At("mtd")
    /\ IF mtds = Parts
       THEN step' = "copy" /\ UNCHANGED <<n, result>>
       ELSE Fail
    /\ UNCHANGED <<card, md5, md5file, mtds, ram, flash, faults>>

\* Copy one image after the other; nobody looks at the result of cp.
Copied(image) ==
    /\ At("copy")
    /\ ram' = [ram EXCEPT ![Target] = image]
    /\ n' = IF n = 3 THEN 1 ELSE n + 1
    /\ step' = IF n = 3 THEN "erase" ELSE "copy"
    /\ UNCHANGED <<card, md5, md5file, mtds, flash, result>>

Copy == Copied(card[Target]) /\ UNCHANGED faults

CopyFault == Copied("bad") /\ Fault

Erase ==
    /\ At("erase")
    /\ flash' = [flash EXCEPT ![Target] = "erased"]
    /\ step' = "write"
    /\ UNCHANGED <<card, md5, md5file, mtds, ram, n, result, faults>>

\* flash_eraseall fails, with the partition erased or not.
EraseFails ==
    /\ At("erase") /\ Fault /\ Fail
    /\ \E image \in {"erased", flash[Target]} : flash' = [flash EXCEPT ![Target] = image]
    /\ UNCHANGED <<card, md5, md5file, mtds, ram>>

Written(image) ==
    /\ At("write")
    /\ flash' = [flash EXCEPT ![Target] = image]
    /\ step' = "verify"
    /\ UNCHANGED <<card, md5, md5file, mtds, ram, n, result>>

\* nandwrite
Write == Written(ram[Target]) /\ UNCHANGED faults

\* nandwrite reports success, but the flash reads back differently.
WriteFault == Written("bad") /\ Fault

WriteFails ==
    /\ At("write") /\ Fault /\ Fail
    /\ flash' = [flash EXCEPT ![Target] = "bad"]
    /\ UNCHANGED <<card, md5, md5file, mtds, ram>>

\* Faulty variant: the last checksum is not looked at.
ListedUnlessLast(image) == n = 3 \/ (image = "good" /\ Target \in md5)

\* grep finds the checksum of the image in upgrade.md5.
Listed(image) == image = "good" /\ Target \in md5

\* nanddump | md5sum, and grep the checksum in upgrade.md5.
Verify ==
    /\ At("verify")
    /\ IF Listed(flash[Target])
       THEN /\ n' = IF n = 3 THEN 3 ELSE n + 1
            /\ step' = IF n = 3 THEN "done" ELSE "erase"
            /\ result' = IF n = 3 THEN "ok" ELSE "run"
       ELSE Fail
    /\ UNCHANGED <<card, md5, md5file, mtds, ram, flash, faults>>

\* nanddump fails: what it printed has another checksum.
DumpFails ==
    /\ At("verify") /\ Fault /\ Fail
    /\ UNCHANGED <<card, md5, md5file, mtds, ram, flash>>

PowerFails ==
    /\ result = "run" /\ Fault
    /\ result' = "off"
    /\ \E image \in {flash[Target]} \cup (IF step \in {"erase", "write"} THEN {"bad"} ELSE {}) :
           flash' = [flash EXCEPT ![Target] = image]
    /\ UNCHANGED <<card, md5, md5file, mtds, ram, step, n>>

Ended == result # "run" /\ UNCHANGED upgradeVars

UpgradeNext ==
    \/ CheckCard \/ CheckMtd \/ Copy \/ CopyFault
    \/ Erase \/ EraseFails \/ Write \/ WriteFault \/ WriteFails
    \/ Verify \/ DumpFails \/ PowerFails
    \/ Ended

UpgradeSpec == UpgradeInit /\ [][UpgradeNext]_upgradeVars

-----------------------------------------------------------------------------

\* The variables have the types the script gives them.
UpgradeTypeOK ==
    /\ card \in [Parts -> {"good", "bad", "missing"}]
    /\ md5 \in SUBSET Parts /\ md5file \in BOOLEAN /\ mtds \in SUBSET Parts
    /\ ram \in [Parts -> {"good", "bad", "missing"}]
    /\ flash \in [Parts -> {"old", "erased", "good", "bad"}]
    /\ step \in {"card", "mtd", "copy", "erase", "write", "verify", "done"}
    /\ n \in 1..3
    /\ result \in {"run", "ok", "failed", "off"}
    /\ faults \in 0..MaxFaults

(***************************************************************************)
(* "OK: upgrade completed" is true: every partition then holds the image   *)
(* that upgrade.md5 lists, whatever went wrong without a report.           *)
(***************************************************************************)
CompletedIsGood == result = "ok" => \A p \in Parts : flash[p] = "good"

(***************************************************************************)
(* "Do the bootloader second, we've proven writing to the flash works by   *)
(* now": the bootloader is only touched after a kernel has been written    *)
(* and verified, and the root file system only after the bootloader.       *)
(***************************************************************************)
BootloaderSecond ==
    /\ flash["uboot"] # "old" => flash["kernel"] = "good"
    /\ flash["rootfs"] # "old" => flash["uboot"] = "good"
=============================================================================
