------------------------------- MODULE FwEnv -------------------------------
(***************************************************************************)
(* The redundant U-Boot environment of the Squeezebox boards and the tool  *)
(* that reads and writes it: fw_printenv / fw_setenv of                    *)
(* packages/uboot-tools/files/fw_env.c.                                    *)
(*                                                                         *)
(* The environment lives twice on NAND (blocks 0 and 1 of /dev/mtd/3, each *)
(* one erase sector) and every copy carries a CRC.  A set command loads    *)
(* one copy, edits it in memory and rewrites the two sectors one after the *)
(* other.  Power may fail between any two steps; an MTD erase or write may *)
(* fail; fw_printenv processes run at the same time without a lock.        *)
(*                                                                         *)
(* A sector is an environment (its CRC matches) or Bad (erased, torn or    *)
(* partly written: the CRC does not match).  An environment is a function  *)
(* from variable names to values; NoValue is an undefined variable, and    *)
(* the empty string in a request.                                          *)
(***************************************************************************)
EXTENDS Integers, Sequences, FiniteSets

CONSTANTS
    Names,        \* variable names
    Once,         \* "ethaddr" and "serial#"
    Values,       \* non-empty strings
    NoValue,      \* undefined / ""
    Bad,          \* a sector whose CRC does not match
    Default,      \* default_environment[]
    Capacity,     \* how many definitions ENV_SIZE bytes hold
    Readers,      \* fw_printenv processes
    MaxPairs,     \* name/value pairs on one fw_setenv command line
    MaxFaults     \* MTD operations that may fail

Envs  == [Names -> Values \cup {NoValue}]
Pairs == Names \X (Values \cup {NoValue})
Block == {0, 1}

ASSUME ConstantsOK ==
    /\ Once \subseteq Names
    /\ NoValue \notin Values
    /\ Bad \notin Envs
    /\ Default \in Envs
    /\ Capacity \in Nat
    /\ IsFiniteSet({n \in Names : Default[n] # NoValue})
    /\ Cardinality({n \in Names : Default[n] # NoValue}) <= Capacity
    /\ MaxPairs \in Nat \ {0}
    /\ MaxFaults \in Nat

Requests == UNION {[1..n -> Pairs] : n \in 1..MaxPairs}

VARIABLES
    flash,    \* the two sectors of /dev/mtd/3
    pc,       \* where the fw_setenv process is
    curdev,   \* curdev: the sector its environment was loaded from
    ram,      \* environment.data
    args,     \* argv, without the pairs already applied
    oldval,   \* oldval # NULL: it outlives one turn of the loop
    faults,   \* failed MTD operations so far
    rpc,      \* where each fw_printenv process is
    rcrc,     \* the CRC word each has read, as the image it belongs to
    rout,     \* the environment each has printed from
    rseen,    \* the stored environments during its run (history)
    rover     \* the updates that overlapped its run (history)

wvars == <<pc, curdev, ram, args, oldval>>
rvars == <<rpc, rcrc, rout>>
hvars == <<rseen, rover>>
vars  == <<flash, faults, wvars, rvars, hvars>>

PCs == {"idle", "init0", "init1", "edit",
        "erase1", "write1", "erase2", "write2", "close", "ok", "failed"}
RPCs == {"idle", "crc0", "data0", "crc1", "data1", "printed", "failed"}

Stopped  == {"idle", "ok", "failed"}
RStopped == {"idle", "printed", "failed"}

-----------------------------------------------------------------------------

\* What env_init loads from the two sectors when nothing else runs.
Load(f) == IF f[0] # Bad THEN f[0] ELSE IF f[1] # Bad THEN f[1] ELSE Default

Stored == Load(flash)

Defined(e) == {n \in Names : e[n] # NoValue}

\* The sector flash_io_write rewrites as its k-th: the one that was not
\* loaded, then the other.
Part(k) == IF k = 1 THEN 1 - curdev ELSE curdev

-----------------------------------------------------------------------------

Init ==
    /\ flash \in {[d \in Block |-> Bad], [d \in Block |-> Default]}
    /\ pc = "idle"
    /\ curdev = 0
    /\ ram = Default
    /\ args = <<>>
    /\ oldval = FALSE
    /\ faults = 0
    /\ rpc = [r \in Readers |-> "idle"]
    /\ rcrc = [r \in Readers |-> Bad]
    /\ rout = [r \in Readers |-> Default]
    /\ rseen = [r \in Readers |-> {}]
    /\ rover = [r \in Readers |-> "none"]

Reading == {r \in Readers : rpc[r] \notin RStopped}

\* History: every run of fw_printenv that is under way sees what is stored.
SeenNext ==
    /\ rseen' = [r \in Readers |->
                    IF r \in Reading THEN rseen[r] \cup {Load(flash')} ELSE rseen[r]]
    /\ UNCHANGED <<rover, rvars>>

\* History: an update starts, or turns out to work on a damaged sector 0.
Overlaps(how) ==
    /\ rover' = [r \in Readers |-> IF r \in Reading THEN how[r] ELSE rover[r]]
    /\ UNCHANGED <<rseen, rvars>>

-----------------------------------------------------------------------------

\* main, called as fw_setenv with name/value pairs.
Start(q) ==
    /\ pc \in Stopped
    /\ pc' = "init0"
    /\ curdev' = 0
    /\ ram' = Default
    /\ args' = q
    /\ oldval' = FALSE
    /\ Overlaps([r \in Readers |-> IF rover[r] = "none" THEN "one" ELSE "racy"])
    /\ UNCHANGED <<flash, faults>>

Loaded(d, e, next) ==
    /\ curdev' = d
    /\ ram' = e
    /\ pc' = next
    /\ UNCHANGED <<flash, faults, args, oldval>>

\* env_init: sector 0, if its CRC matches.
EnvInit0 ==
    /\ pc = "init0"
    /\ IF flash[0] # Bad
       THEN Loaded(0, flash[0], "edit") /\ UNCHANGED <<rvars, hvars>>
       ELSE /\ Loaded(1, ram, "init1")
            /\ Overlaps([r \in Readers |-> "racy"])

\* Faulty variant: curdev is one too large.
EnvInit1OffByOne ==
    /\ pc = "init1"
    /\ Loaded(2, IF flash[1] # Bad THEN flash[1] ELSE Default, "edit")
    /\ UNCHANGED <<rvars, hvars>>

\* env_init: sector 1, if its CRC matches, else the built-in default.
EnvInit1 ==
    /\ pc = "init1"
    /\ IF flash[1] # Bad
       THEN Loaded(1, flash[1], "edit")
       ELSE Loaded(0, Default, "edit")
    /\ UNCHANGED <<rvars, hvars>>

\* A read error in env_init ends the command: the other sector is not tried.
EnvInitError ==
    /\ pc \in {"init0", "init1"}
    /\ faults < MaxFaults
    /\ faults' = faults + 1
    /\ pc' = "failed"
    /\ UNCHANGED <<flash, curdev, ram, args, oldval, rvars, hvars>>

(***************************************************************************)
(* One turn of the loop of fw_setenvs over its pairs.  The search loop     *)
(* assigns oldval only if the environment holds a definition, so on an     *)
(* empty one it keeps the value of the turn before.                        *)
(***************************************************************************)
Found(n) == IF Defined(ram) = {} THEN oldval ELSE n \in Defined(ram)

\* Faulty variant: only an overwrite is refused, not a deletion.
RefusedOverwrite(n) == Found(n) /\ n \in Once /\ Head(args)[2] # NoValue

Refused(n) == Found(n) /\ n \in Once

\* Faulty variant: the test for room is off by one.
OverflowOffByOne(n, v) ==
    v # NoValue /\ Cardinality(Defined(ram) \ {n}) > Capacity

\* Append new definition at the end: no room for it.
Overflow(n, v) ==
    v # NoValue /\ Cardinality(Defined(ram) \ {n}) >= Capacity

SetPair ==
    /\ pc = "edit" /\ args # <<>>
    /\ LET n == Head(args)[1]
           v == Head(args)[2]
       IN  /\ oldval' = Found(n)
           /\ IF Refused(n) \/ Overflow(n, v)
              THEN pc' = "failed" /\ UNCHANGED <<ram, args>>
              ELSE /\ ram' = [ram EXCEPT ![n] = v]
                   /\ args' = Tail(args)
                   /\ UNCHANGED pc
    /\ UNCHANGED <<flash, faults, curdev, rvars, hvars>>

\* All pairs applied: update the CRC and open the device for writing.
Open ==
    /\ pc = "edit" /\ args = <<>>
    /\ pc' = "erase1"
    /\ UNCHANGED <<flash, faults, curdev, ram, args, oldval, rvars, hvars>>

\* open or close fails: flash_io_write returns -1 and so does fw_setenvs.
DeviceError ==
    /\ (pc = "edit" /\ args = <<>>) \/ pc = "close"
    /\ faults < MaxFaults
    /\ faults' = faults + 1
    /\ pc' = "failed"
    /\ UNCHANGED <<flash, curdev, ram, args, oldval, rvars, hvars>>

(***************************************************************************)
(* flash_io_write_part(d): erase the sector, then write it.  Any failure   *)
(* returns -1, which flash_io_write ignores: it goes on with the next part.*)
(***************************************************************************)
ErasePart(d, here, next) ==
    /\ pc = here
    /\ pc' = next
    /\ flash' = [flash EXCEPT ![d] = Bad]
    /\ UNCHANGED <<faults, curdev, ram, args, oldval>>
    /\ SeenNext

WritePart(d, here, next) ==
    /\ pc = here
    /\ pc' = next
    /\ flash' = [flash EXCEPT ![d] = ram]
    /\ UNCHANGED <<faults, curdev, ram, args, oldval>>
    /\ SeenNext

\* MEMERASE fails: the sector is as it was or no longer readable.
EraseError(d, here, next) ==
    /\ pc = here
    /\ faults < MaxFaults
    /\ faults' = faults + 1
    /\ pc' = next
    /\ \E image \in {flash[d], Bad} : flash' = [flash EXCEPT ![d] = image]
    /\ UNCHANGED <<curdev, ram, args, oldval>>
    /\ SeenNext

\* malloc, lseek or write fails after the erase.
WriteError(d, here, next) ==
    /\ pc = here
    /\ faults < MaxFaults
    /\ faults' = faults + 1
    /\ pc' = next
    /\ flash' = [flash EXCEPT ![d] = Bad]
    /\ UNCHANGED <<curdev, ram, args, oldval>>
    /\ SeenNext

\* Faulty variant: both sectors are erased before they are written.
FlashWriteEraseBoth ==
    \/ ErasePart(Part(1), "erase1", "erase2")
    \/ ErasePart(Part(2), "erase2", "write1")
    \/ WritePart(Part(1), "write1", "write2")
    \/ WritePart(Part(2), "write2", "close")

FlashWrite ==
    \/ ErasePart(Part(1), "erase1", "write1")
    \/ WritePart(Part(1), "write1", "erase2")
    \/ ErasePart(Part(2), "erase2", "write2")
    \/ WritePart(Part(2), "write2", "close")

\* Faulty variant: a failure of the first part ends flash_io_write, without an error.
FlashWriteErrorStops ==
    \/ EraseError(Part(1), "erase1", "close")
    \/ WriteError(Part(1), "write1", "close")
    \/ EraseError(Part(2), "erase2", "close")
    \/ WriteError(Part(2), "write2", "close")

FlashWriteError ==
    \/ EraseError(Part(1), "erase1", "erase2")
    \/ WriteError(Part(1), "write1", "erase2")
    \/ EraseError(Part(2), "erase2", "close")
    \/ WriteError(Part(2), "write2", "close")

\* close(fd) and the exit status of main.
Close ==
    /\ pc = "close"
    /\ pc' = "ok"
    /\ UNCHANGED <<flash, faults, curdev, ram, args, oldval, rvars, hvars>>

-----------------------------------------------------------------------------

\* fw_printenv of main.
PrintStart(r) ==
    /\ rpc[r] \in RStopped
    /\ rpc' = [rpc EXCEPT ![r] = "crc0"]
    /\ rcrc' = [rcrc EXCEPT ![r] = Bad]
    /\ rseen' = [rseen EXCEPT ![r] = {Stored}]
    /\ rover' = [rover EXCEPT ![r] =
                    IF pc \in Stopped THEN "none"
                    ELSE IF pc = "init0" \/ (curdev = 0 /\ flash # [d \in Block |-> Bad])
                         THEN "one" ELSE "racy"]
    /\ UNCHANGED <<flash, faults, wvars, rout>>

\* flash_io_read: the CRC word, then the data; the sector may change between.
ReadCrc(r, d, here, next) ==
    /\ rpc[r] = here
    /\ rpc' = [rpc EXCEPT ![r] = next]
    /\ rcrc' = [rcrc EXCEPT ![r] = flash[d]]
    /\ UNCHANGED <<flash, faults, wvars, rout, hvars>>

\* The data belongs to the CRC word: this is the environment to print.
CrcMatches(r, d, here) ==
    /\ rpc[r] = here
    /\ flash[d] # Bad /\ flash[d] = rcrc[r]
    /\ rpc' = [rpc EXCEPT ![r] = "printed"]
    /\ rout' = [rout EXCEPT ![r] = flash[d]]
    /\ UNCHANGED <<flash, faults, wvars, rcrc, hvars>>

\* Faulty variant: the default environment without a look at sector 1.
CrcFailsToDefault(r, d, here, next) ==
    /\ rpc[r] = here
    /\ flash[d] = Bad \/ flash[d] # rcrc[r]
    /\ rpc' = [rpc EXCEPT ![r] = "printed"]
    /\ rout' = [rout EXCEPT ![r] = Default]
    /\ UNCHANGED <<flash, faults, wvars, rcrc, hvars>>

\* Neither sector: env_init falls back to the default environment.
CrcFails(r, d, here, next) ==
    /\ rpc[r] = here
    /\ flash[d] = Bad \/ flash[d] # rcrc[r]
    /\ rpc' = [rpc EXCEPT ![r] = next]
    /\ rout' = [rout EXCEPT ![r] = Default]
    /\ UNCHANGED <<flash, faults, wvars, rcrc, hvars>>

\* A read error: nothing is printed (and the exit status is still success).
PrintError(r) ==
    /\ r \in Reading
    /\ faults < MaxFaults
    /\ faults' = faults + 1
    /\ rpc' = [rpc EXCEPT ![r] = "failed"]
    /\ UNCHANGED <<flash, wvars, rcrc, rout, hvars>>

PrintEnv(r) ==
    \/ ReadCrc(r, 0, "crc0", "data0")
    \/ CrcMatches(r, 0, "data0")
    \/ CrcFails(r, 0, "data0", "crc1")
    \/ ReadCrc(r, 1, "crc1", "data1")
    \/ CrcMatches(r, 1, "data1")
    \/ CrcFails(r, 1, "data1", "printed")

-----------------------------------------------------------------------------

\* Power fails: every process is gone, the sectors stay as they are.
PowerLoss ==
    /\ pc' = "idle"
    /\ curdev' = 0
    /\ ram' = Default
    /\ args' = <<>>
    /\ oldval' = FALSE
    /\ rpc' = [r \in Readers |-> "idle"]
    /\ rcrc' = [r \in Readers |-> Bad]
    /\ rout' = [r \in Readers |-> Default]
    /\ rseen' = [r \in Readers |-> {}]
    /\ rover' = [r \in Readers |-> "none"]
    /\ UNCHANGED <<flash, faults>>

Update == EnvInit0 \/ EnvInit1 \/ SetPair \/ Open \/ FlashWrite \/ Close

Fault == EnvInitError \/ DeviceError \/ FlashWriteError \/ \E r \in Readers : PrintError(r)

Next ==
    \/ \E q \in Requests : Start(q)
    \/ Update
    \/ \E r \in Readers : PrintStart(r) \/ PrintEnv(r)
    \/ Fault
    \/ PowerLoss

Spec == Init /\ [][Next]_vars

-----------------------------------------------------------------------------

\* The variables have the types the code gives them.
TypeOK ==
    /\ flash \in [Block -> Envs \cup {Bad}]
    /\ pc \in PCs
    /\ curdev \in Block
    /\ ram \in Envs
    /\ args \in Seq(Pairs)
    /\ oldval \in BOOLEAN
    /\ faults \in 0..MaxFaults
    /\ rpc \in [Readers -> RPCs]
    /\ rcrc \in [Readers -> Envs \cup {Bad}]
    /\ rout \in [Readers -> Envs]
    /\ rseen \in [Readers -> SUBSET Envs]
    /\ rover \in [Readers -> {"none", "one", "racy"}]

\* f has every write-once variable that e has.
Keeps(e, f) == \A n \in Once : e[n] # NoValue => f[n] = e[n]

(***************************************************************************)
(* The two sectors implement one environment that commands replace as a    *)
(* whole: however a power loss cuts the rewrite short, the next boot loads *)
(* the environment from before the command or all of what it asked for     *)
(* (the order in which flash_io_write rewrites the sectors, and the checks *)
(* of fw_setenvs), as long as no MTD operation has failed.                 *)
(***************************************************************************)
Store == INSTANCE EnvStore WITH env <- Stored, damaged <- (faults > 0)

StoreSpec == Store!Spec

(***************************************************************************)
(* Without an MTD failure flash_io_write never leaves the device with no   *)
(* sector whose CRC matches, wherever power fails.                         *)
(***************************************************************************)
CopyKept ==
    [][ (faults' = 0 /\ \E d \in Block : flash[d] # Bad)
        => \E d \in Block : flash'[d] # Bad ]_vars

(***************************************************************************)
(* "Ethernet Address and serial# can be set only once": no sequence of     *)
(* commands and power losses changes or removes one that is stored.        *)
(***************************************************************************)
SetOnlyOnce == [][ faults' = 0 => Keeps(Stored, Stored') ]_vars

(***************************************************************************)
(* The second sector is what makes one MTD failure survivable: a command   *)
(* that reports success has left its environment in some sector.           *)
(***************************************************************************)
OneFaultTolerated ==
    (pc = "ok" /\ faults <= 1) => \E d \in Block : flash[d] = ram

(***************************************************************************)
(* "everything ok" (the end of flash_io_write): when fw_setenv exits with  *)
(* success, a boot loads the environment it wrote.                         *)
(***************************************************************************)
SuccessMeansStored == pc = "ok" => Stored = ram

(***************************************************************************)
(* fw_printenv takes no lock.  A run that overlaps at most one update, and *)
(* one that found sector 0 intact, prints an environment that was stored   *)
(* while it ran.                                                           *)
(***************************************************************************)
ReadsAreStored ==
    faults = 0 => \A r \in Readers :
        (rpc[r] = "printed" /\ rover[r] # "racy") => rout[r] \in rseen[r]
=============================================================================
