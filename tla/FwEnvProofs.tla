----------------------------- MODULE FwEnvProofs -----------------------------
(* Proofs about the environment tool for every value of the constants. *)
EXTENDS FwEnv, FiniteSetTheorems, WellFoundedInduction, TLAPS

\* Type correctness of every reachable state of the environment tool.
THEOREM TypeCorrect == Spec => []TypeOK
  <1>1. Init => TypeOK
    <2> SUFFICES ASSUME Init PROVE TypeOK
      OBVIOUS
    <2> USE ConstantsOK DEF Init
    <2>1. flash \in [Block -> Envs \cup {Bad}] /\ curdev \in Block
      BY DEF Block
    <2>2. pc \in PCs /\ ram \in Envs /\ args \in Seq(Pairs) /\ faults \in 0..MaxFaults
      BY DEF PCs
    <2>3. oldval \in BOOLEAN
      OBVIOUS
    <2>4. /\ rpc \in [Readers -> RPCs]
          /\ rcrc \in [Readers -> Envs \cup {Bad}]
          /\ rout \in [Readers -> Envs]
          /\ rseen \in [Readers -> SUBSET Envs]
          /\ rover \in [Readers -> {"none", "one", "racy"}]
      BY DEF RPCs
    <2> QED
      BY <2>1, <2>2, <2>3, <2>4 DEF TypeOK
  <1>2. TypeOK /\ [Next]_vars => TypeOK'
    <2> SUFFICES ASSUME TypeOK, [Next]_vars
                 PROVE  TypeOK'
      OBVIOUS
    <2> USE ConstantsOK DEF TypeOK, Block, PCs, Stored, Load
    <2>1. ASSUME NEW q \in Requests, Start(q)
          PROVE  TypeOK'
      <3>1. /\ pc' \in PCs /\ curdev' \in Block /\ ram' \in Envs
            /\ args' \in Seq(Pairs)
        BY <2>1 DEF Start, Requests
      <3>2. oldval' \in BOOLEAN
        BY <2>1 DEF Start
      <3>3. rover' \in [Readers -> {"none", "one", "racy"}]
        BY <2>1 DEF Start, Overlaps
      <3> QED
        BY <2>1, <3>1, <3>2, <3>3 DEF Start, Overlaps, rvars
    <2>2. CASE EnvInit0
      BY <2>2 DEF EnvInit0, Loaded, Overlaps, rvars, hvars
    <2>3. CASE EnvInit1
      BY <2>3 DEF EnvInit1, Loaded, rvars, hvars
    <2>4. CASE SetPair
      <3>1. Head(args)[1] \in Names /\ Head(args)[2] \in Values \cup {NoValue}
        BY <2>4 DEF SetPair, Pairs
      <3>2. pc' \in PCs /\ args' \in Seq(Pairs)
        <4>1. args \in Seq(Pairs) /\ args # <<>>
          BY <2>4 DEF SetPair
        <4>2. Tail(args) \in Seq(Pairs)
          BY <4>1
        <4>3. pc' \in {pc, "failed"} /\ args' \in {args, Tail(args)}
          BY <2>4 DEF SetPair
        <4> QED
          BY <4>1, <4>2, <4>3
      <3>4. ram' \in Envs
        <4>1. [ram EXCEPT ![Head(args)[1]] = Head(args)[2]] \in Envs
          BY <3>1 DEF Envs
        <4> QED
          BY <2>4, <4>1 DEF SetPair
      <3>3. oldval' \in BOOLEAN
        <4>1. oldval \in BOOLEAN
          OBVIOUS
        <4>2. oldval' = Found(Head(args)[1])
          BY <2>4 DEF SetPair
        <4>3. Found(Head(args)[1]) \in BOOLEAN
          <5>1. CASE Defined(ram) = {}
            <6>1. Found(Head(args)[1]) = oldval
              BY <5>1 DEF Found
            <6> QED
              BY <4>1, <6>1
          <5>2. CASE Defined(ram) # {}
            <6>1. Found(Head(args)[1]) = (Head(args)[1] \in Defined(ram))
              BY <5>2 DEF Found
            <6>2. (Head(args)[1] \in Defined(ram)) \in BOOLEAN
              OBVIOUS
            <6> QED
              BY <6>1, <6>2
          <5> QED
            BY <5>1, <5>2
        <4> QED
          BY <4>2, <4>3
      <3> QED
        BY <2>4, <3>2, <3>3, <3>4 DEF SetPair, rvars, hvars
    <2>5. CASE Open
      BY <2>5 DEF Open, rvars, hvars
    <2>6. CASE FlashWrite
      BY <2>6 DEF FlashWrite, ErasePart, WritePart, Part, SeenNext, rvars
    <2>7. CASE Close
      BY <2>7 DEF Close, rvars, hvars
    <2>8. ASSUME NEW r \in Readers, PrintStart(r)
          PROVE  TypeOK'
      BY <2>8 DEF PrintStart, RPCs, wvars
    <2>9. ASSUME NEW r \in Readers, PrintEnv(r)
          PROVE  TypeOK'
      BY <2>9 DEF PrintEnv, ReadCrc, CrcMatches, CrcFails, RPCs, wvars, hvars
    <2>10. CASE EnvInitError \/ DeviceError
      BY <2>10 DEF EnvInitError, DeviceError, rvars, hvars
    <2>11. CASE FlashWriteError
      BY <2>11 DEF FlashWriteError, EraseError, WriteError, Part, SeenNext, rvars
    <2>12. ASSUME NEW r \in Readers, PrintError(r)
           PROVE  TypeOK'
      BY <2>12 DEF PrintError, RPCs, wvars, hvars
    <2>13. CASE PowerLoss
      <3>1. oldval' \in BOOLEAN
        BY <2>13 DEF PowerLoss
      <3> QED
        BY <2>13, <3>1 DEF PowerLoss, RPCs
    <2>14. CASE UNCHANGED vars
      BY <2>14 DEF vars, wvars, rvars, hvars
    <2> QED
      BY <2>1, <2>2, <2>3, <2>4, <2>5, <2>6, <2>7, <2>8, <2>9, <2>10, <2>11,
         <2>12, <2>13, <2>14 DEF Next, Update, Fault
  <1> QED
    BY <1>1, <1>2, PTL DEF Spec

-----------------------------------------------------------------------------

(***************************************************************************)
(* The inductive invariant.  While nothing has failed, the sector that was *)
(* loaded is intact until the other one holds the new environment, and the *)
(* environment in memory never drops a write-once variable that is stored. *)
(* With one failure the new environment is still in one of the sectors.    *)
(***************************************************************************)
SourceIntact ==
    /\ curdev = 1 => (flash[0] = Bad /\ flash[1] # Bad)
    /\ curdev = 0 => (flash[0] # Bad \/ flash[1] = Bad)

\* Without a failure: what the sectors hold at each point of an update.
SectorsInv ==
    faults = 0 =>
        /\ pc = "init1" => flash[0] = Bad
        /\ pc \in {"edit", "erase1", "write1"} => SourceIntact
        /\ pc \in {"edit", "erase1", "write1", "erase2"} => Keeps(Stored, ram)
        /\ pc \in {"erase2", "write2"} => flash[1 - curdev] = ram
        /\ pc = "write2" => flash[curdev] = Bad

\* With one failure: the new environment is in one of the sectors.
FaultInv ==
    (pc \in {"close", "ok"} /\ faults <= 1) => \E d \in Block : flash[d] = ram

\* The inductive invariant of fw_setenv.
IInv == TypeOK /\ SectorsInv /\ FaultInv

\* An environment is never mistaken for an unreadable sector.
LEMMA EnvNotBad == \A e \in Envs : e # Bad
  BY ConstantsOK

\* The steps that leave the flash, the fault count and fw_setenv alone.
LEMMA ReaderStep ==
    ASSUME NEW r \in Readers, PrintStart(r) \/ PrintEnv(r)
    PROVE  UNCHANGED <<flash, faults, wvars>>
  BY DEF PrintStart, PrintEnv, ReadCrc, CrcMatches, CrcFails

\* fw_setenv loads and edits without touching the flash.
LEMMA EditKeeps ==
    ASSUME TypeOK, SetPair, Keeps(Stored, ram)
    PROVE  Keeps(Stored, ram')
  <1> SUFFICES ASSUME NEW n \in Once, Stored[n] # NoValue
               PROVE  ram'[n] = Stored[n]
    BY DEF Keeps
  <1>1. ram[n] = Stored[n] /\ n \in Names
    BY ConstantsOK DEF Keeps
  <1>2. n \in Defined(ram)
    BY <1>1 DEF Defined
  <1>3. Found(n)
    BY <1>2 DEF Found
  <1>4. CASE Head(args)[1] = n
    <2>1. Refused(Head(args)[1])
      BY <1>3, <1>4 DEF Refused
    <2> QED
      BY <1>1, <2>1 DEF SetPair
  <1>5. CASE Head(args)[1] # n
    <2>1. ram \in [Names -> Values \cup {NoValue}]
      BY DEF TypeOK, Envs
    <2>2. ram' = ram \/ ram' = [ram EXCEPT ![Head(args)[1]] = Head(args)[2]]
      BY DEF SetPair
    <2> QED
      BY <1>1, <1>5, <2>1, <2>2
  <1> QED
    BY <1>4, <1>5

\* Every step of the tool preserves the inductive invariant.
LEMMA SectorsStep ==
    ASSUME TypeOK, TypeOK', SectorsInv, [Next]_vars
    PROVE  SectorsInv'
  <1> SUFFICES ASSUME faults' = 0
               PROVE  SectorsInv'
    BY DEF SectorsInv
  <1> USE DEF SectorsInv
  <1>f. flash \in [Block -> Envs \cup {Bad}] /\ ram \in Envs /\ curdev \in {0, 1}
        /\ faults \in Nat
    BY ConstantsOK DEF TypeOK, Block
  <1>1. ASSUME NEW q \in Requests, Start(q)
        PROVE  SectorsInv'
    BY <1>1 DEF Start
  <1>2. CASE EnvInit0
    <2>1. CASE flash[0] # Bad
      BY <1>2, <1>f, <2>1 DEF EnvInit0, Loaded, SourceIntact, Keeps, Stored, Load
    <2>2. CASE flash[0] = Bad
      BY <1>2, <2>2 DEF EnvInit0, Loaded
    <2> QED
      BY <2>1, <2>2
  <1>3. CASE EnvInit1
    <2>1. faults = 0 /\ flash[0] = Bad
      BY <1>3, <1>f DEF EnvInit1, Loaded
    <2> QED
      BY <1>3, <1>f, <2>1 DEF EnvInit1, Loaded, SourceIntact, Keeps, Stored, Load
  <1>4. CASE SetPair
    <2>1. faults = 0 /\ pc = "edit" /\ pc' \in {"edit", "failed"}
          /\ UNCHANGED <<flash, curdev>>
      BY <1>4 DEF SetPair
    <2>2. Keeps(Stored, ram')
      BY <1>4, <2>1, EditKeeps
    <2> QED
      BY <2>1, <2>2 DEF SourceIntact, Keeps, Stored, Load
  <1>5. CASE Open
    BY <1>5 DEF Open, SourceIntact, Keeps, Stored, Load
  <1>6. CASE FlashWrite
    <2> USE <1>f, EnvNotBad DEF Block, SourceIntact, Keeps, Stored, Load, Part
    <2>1. CASE ErasePart(Part(1), "erase1", "write1")
      BY <2>1 DEF ErasePart
    <2>2. CASE WritePart(Part(1), "write1", "erase2")
      BY <2>2 DEF WritePart
    <2>3. CASE ErasePart(Part(2), "erase2", "write2")
      BY <2>3 DEF ErasePart
    <2>4. CASE WritePart(Part(2), "write2", "close")
      BY <2>4 DEF WritePart
    <2> QED
      BY <1>6, <2>1, <2>2, <2>3, <2>4 DEF FlashWrite
  <1>7. CASE Close \/ PowerLoss
    BY <1>7 DEF Close, PowerLoss
  <1>8. ASSUME NEW r \in Readers, PrintStart(r) \/ PrintEnv(r)
        PROVE  SectorsInv'
    BY <1>8, ReaderStep DEF wvars, SourceIntact, Keeps, Stored, Load
  <1>9. CASE Fault
    BY <1>9, <1>f DEF Fault, EnvInitError, DeviceError, FlashWriteError, EraseError,
                      WriteError, PrintError
  <1>10. CASE UNCHANGED vars
    BY <1>10 DEF vars, wvars, SourceIntact, Keeps, Stored, Load
  <1> QED
    BY <1>1, <1>2, <1>3, <1>4, <1>5, <1>6, <1>7, <1>8, <1>9, <1>10 DEF Next, Update

(* Every step keeps FaultInv: as long as at most one erase or write failed,      *)
(* flash_io_write has left the new environment in one of the two sectors.        *)
LEMMA FaultStep ==
    ASSUME TypeOK, TypeOK', SectorsInv, FaultInv, [Next]_vars
    PROVE  FaultInv'
  <1> USE DEF FaultInv, Block
  <1>f. flash \in [{0, 1} -> Envs \cup {Bad}] /\ ram \in Envs /\ curdev \in {0, 1}
        /\ faults \in Nat
    BY ConstantsOK DEF TypeOK
  <1>1. ASSUME NEW q \in Requests, Start(q)
        PROVE  FaultInv'
    BY <1>1 DEF Start
  <1>2. CASE EnvInit0 \/ EnvInit1 \/ SetPair \/ Open
    <2>1. pc' \notin {"close", "ok"}
      BY <1>2 DEF EnvInit0, EnvInit1, Loaded, SetPair, Open
    <2> QED
      BY <2>1
  <1>3. CASE FlashWrite
    <2>1. CASE WritePart(Part(2), "write2", "close")
      BY <1>f, <2>1 DEF WritePart, Part
    <2>2. CASE pc' # "close" /\ pc' # "ok"
      BY <2>2
    <2> QED
      BY <1>3, <2>1, <2>2 DEF FlashWrite, ErasePart, WritePart
  <1>4. CASE Close
    BY <1>4 DEF Close
  <1>5. CASE PowerLoss
    BY <1>5 DEF PowerLoss
  <1>6. ASSUME NEW r \in Readers, PrintStart(r) \/ PrintEnv(r)
        PROVE  FaultInv'
    BY <1>6, ReaderStep DEF wvars
  <1>7. CASE FlashWriteError
    <2> USE <1>f DEF Part
    <2>1. CASE EraseError(Part(2), "erase2", "close")
      BY <2>1 DEF EraseError, SectorsInv
    <2>2. CASE WriteError(Part(2), "write2", "close")
      BY <2>2 DEF WriteError, SectorsInv
    <2>3. CASE EraseError(Part(1), "erase1", "erase2") \/ WriteError(Part(1), "write1", "erase2")
      BY <2>3 DEF EraseError, WriteError
    <2> QED
      BY <1>7, <2>1, <2>2, <2>3 DEF FlashWriteError
  <1>8. CASE EnvInitError \/ DeviceError
    BY <1>8 DEF EnvInitError, DeviceError
  <1>9. ASSUME NEW r \in Readers, PrintError(r)
        PROVE  FaultInv'
    BY <1>9, <1>f DEF PrintError, wvars
  <1>10. CASE UNCHANGED vars
    BY <1>10 DEF vars, wvars
  <1> QED
    BY <1>1, <1>2, <1>3, <1>4, <1>5, <1>6, <1>7, <1>8, <1>9, <1>10
       DEF Next, Update, Fault

\* The inductive invariant holds in every reachable state.
LEMMA Invariant == Spec => []IInv
  <1>1. Init => SectorsInv /\ FaultInv
    BY DEF Init, SectorsInv, FaultInv
  <1>2. TypeOK /\ TypeOK' /\ SectorsInv /\ FaultInv /\ [Next]_vars
          => (SectorsInv /\ FaultInv)'
    BY SectorsStep, FaultStep
  <1> QED
    BY <1>1, <1>2, TypeCorrect, PTL DEF Spec, IInv

(***************************************************************************)
(* One failed MTD operation never loses an update fw_setenv reports done:  *)
(* flash_io_write goes on with the other sector.                           *)
(***************************************************************************)
THEOREM OneFault == Spec => []OneFaultTolerated
  <1>1. IInv => OneFaultTolerated
    BY DEF IInv, FaultInv, OneFaultTolerated
  <1> QED
    BY <1>1, Invariant, PTL

\* Failures are only counted up, so a state without one has no past one.
LEMMA FaultsGrow ==
    ASSUME TypeOK, [Next]_vars, faults' = 0
    PROVE  faults = 0
  <1>1. faults \in Nat
    BY ConstantsOK DEF TypeOK
  <1>2. faults' \in {faults, faults + 1}
    <2>1. ASSUME NEW q \in Requests, Start(q) PROVE faults' = faults
      BY <2>1 DEF Start
    <2>2. Update => faults' = faults
      BY DEF Update, EnvInit0, EnvInit1, Loaded, SetPair, Open, FlashWrite, ErasePart,
             WritePart, Close
    <2>3. ASSUME NEW r \in Readers, PrintStart(r) \/ PrintEnv(r) PROVE faults' = faults
      BY <2>3, ReaderStep
    <2>4. Fault => faults' = faults + 1
      BY DEF Fault, EnvInitError, DeviceError, FlashWriteError, EraseError, WriteError,
             PrintError
    <2>5. PowerLoss \/ UNCHANGED vars => faults' = faults
      BY DEF PowerLoss, vars
    <2> QED
      BY <2>1, <2>2, <2>3, <2>4, <2>5 DEF Next
  <1> QED
    BY <1>1, <1>2

\* Without a failure only the four steps of flash_io_write touch the flash.
LEMMA FlashStep ==
    ASSUME TypeOK, [Next]_vars, faults' = 0
    PROVE  UNCHANGED flash \/ FlashWrite
  <1>1. ASSUME NEW q \in Requests, Start(q) PROVE UNCHANGED flash
    BY <1>1 DEF Start
  <1>2. Update => UNCHANGED flash \/ FlashWrite
    BY DEF Update, EnvInit0, EnvInit1, Loaded, SetPair, Open, Close
  <1>3. ASSUME NEW r \in Readers, PrintStart(r) \/ PrintEnv(r) PROVE UNCHANGED flash
    BY <1>3, ReaderStep
  <1>4. ~Fault
    <2>1. faults = 0
      BY FaultsGrow
    <2> QED
      BY <2>1 DEF Fault, EnvInitError, DeviceError, FlashWriteError, EraseError,
                  WriteError, PrintError
  <1>5. PowerLoss \/ UNCHANGED vars => UNCHANGED flash
    BY DEF PowerLoss, vars
  <1> QED
    BY <1>1, <1>2, <1>3, <1>4, <1>5 DEF Next

(***************************************************************************)
(* flash_io_write, cut short by a power loss anywhere, never leaves the    *)
(* device without a readable sector.                                       *)
(***************************************************************************)
THEOREM CopyIsKept == Spec => CopyKept
  <1>1. ASSUME IInv, [Next]_vars, faults' = 0, \E d \in Block : flash[d] # Bad
        PROVE  \E d \in Block : flash'[d] # Bad
    <2> USE <1>1, EnvNotBad DEF IInv, Block
    <2>f. flash \in [{0, 1} -> Envs \cup {Bad}] /\ ram \in Envs /\ curdev \in {0, 1}
          /\ faults = 0
      BY FaultsGrow DEF TypeOK
    <2>1. CASE UNCHANGED flash
      BY <2>1
    <2>2. CASE ErasePart(Part(1), "erase1", "write1")
      BY <2>2, <2>f DEF ErasePart, Part, SectorsInv, SourceIntact
    <2>3. CASE WritePart(Part(1), "write1", "erase2")
      BY <2>3, <2>f DEF WritePart, Part
    <2>4. CASE ErasePart(Part(2), "erase2", "write2")
      BY <2>4, <2>f DEF ErasePart, Part, SectorsInv
    <2>5. CASE WritePart(Part(2), "write2", "close")
      BY <2>5, <2>f DEF WritePart, Part
    <2> QED
      BY <2>1, <2>2, <2>3, <2>4, <2>5, FlashStep DEF FlashWrite
  <1>2. IInv /\ [Next]_vars
          => [(faults' = 0 /\ \E d \in Block : flash[d] # Bad)
                => \E d \in Block : flash'[d] # Bad]_vars
    BY <1>1
  <1> QED
    BY <1>2, Invariant, PTL DEF Spec, CopyKept

(***************************************************************************)
(* "Ethernet Address and serial# can be set only once", through every      *)
(* sequence of commands and power losses without an MTD failure.           *)
(***************************************************************************)
THEOREM WriteOnce == Spec => SetOnlyOnce
  <1>1. ASSUME IInv, [Next]_vars, faults' = 0
        PROVE  Keeps(Stored, Stored')
    <2> USE <1>1, EnvNotBad DEF IInv, Block
    <2>f. flash \in [{0, 1} -> Envs \cup {Bad}] /\ ram \in Envs /\ curdev \in {0, 1}
          /\ faults = 0
      BY FaultsGrow DEF TypeOK
    <2>1. CASE UNCHANGED flash
      BY <2>1 DEF Keeps, Stored, Load
    <2> USE DEF Part, SectorsInv, SourceIntact
    <2>2. CASE ErasePart(Part(1), "erase1", "write1")
      <3>1. Stored' = Stored
        BY <2>2, <2>f DEF ErasePart, Stored, Load
      <3> QED
        BY <3>1 DEF Keeps
    <2>3. CASE WritePart(Part(1), "write1", "erase2")
      <3>1. Stored' \in {Stored, ram} /\ Keeps(Stored, ram)
        BY <2>3, <2>f DEF WritePart, Stored, Load
      <3> QED
        BY <3>1 DEF Keeps
    <2>4. CASE ErasePart(Part(2), "erase2", "write2")
      <3>1. Stored' = ram /\ Keeps(Stored, ram)
        BY <2>4, <2>f DEF ErasePart, Stored, Load
      <3> QED
        BY <3>1
    <2>5. CASE WritePart(Part(2), "write2", "close")
      <3>1. Stored = ram /\ Stored' = ram
        BY <2>5, <2>f DEF WritePart, Stored, Load
      <3> QED
        BY <3>1 DEF Keeps
    <2> QED
      BY <2>1, <2>2, <2>3, <2>4, <2>5, FlashStep DEF FlashWrite
  <1>2. IInv /\ [Next]_vars => [faults' = 0 => Keeps(Stored, Stored')]_vars
    BY <1>1
  <1> QED
    BY <1>2, Invariant, PTL DEF Spec, SetOnlyOnce

-----------------------------------------------------------------------------

\* A step after which nothing has failed is no failure.
LEMMA NoFaultStep ==
    ASSUME TypeOK, [Next]_vars, faults' = 0
    PROVE  ~Fault /\ faults = 0
  <1>1. faults = 0
    BY FaultsGrow
  <1> QED
    BY <1>1 DEF Fault, EnvInitError, DeviceError, FlashWriteError, EraseError, WriteError, PrintError

\* Where an update is that knows of sector 1 and of the end of the rewrite.
UpdateInv ==
    faults = 0 => /\ pc = "init1" => curdev = 1
                  /\ pc \in {"close", "ok"} => flash[0] = ram /\ flash[1] = ram

\* The one update a reader overlaps works on an intact sector 0, which it rewrites last.
OneUpdate ==
    /\ pc # "init1"
    /\ pc \in {"edit", "erase1", "write1"} => curdev = 0 /\ flash[0] # Bad
    /\ pc \in {"erase2", "write2"} => curdev = 0
    /\ pc \in Stopped \cup {"close"} => flash[0] # Bad

\* Sector 1 has the new environment, and the reader has seen it stored.
Past(r) ==
    /\ rover[r] = "one" /\ pc \in Stopped \cup {"erase2", "write2", "close"}
    /\ flash[1] # Bad /\ flash[1] \in rseen[r]

\* What a reader holds was stored, at each of its reads.
ReaderInv(r) ==
    /\ r \in Reading => Stored \in rseen[r]
    /\ (r \in Reading /\ rover[r] = "none") => pc \in Stopped
    /\ (r \in Reading /\ rover[r] = "one") => OneUpdate
    /\ rover[r] # "racy" =>
        /\ rpc[r] = "data0" => rcrc[r] = flash[0] \/ Past(r)
        /\ rpc[r] \in {"crc1", "data1"} => (flash[0] = Bad /\ pc \in Stopped \cup {"init0"}) \/ Past(r)
        /\ rpc[r] = "data1" => rcrc[r] = flash[1]
        /\ rpc[r] = "printed" => rout[r] \in rseen[r]

\* All readers, as long as nothing has failed.
ReadInv == faults = 0 => \A r \in Readers : ReaderInv(r)

\* Every step of fw_setenv, of the readers and of the power keeps UpdateInv.
LEMMA UpdateStep ==
    ASSUME IInv, UpdateInv, [Next]_vars
    PROVE  UpdateInv'
  <1> SUFFICES ASSUME faults' = 0
               PROVE  UpdateInv'
    BY DEF UpdateInv
  <1>f. /\ flash \in [{0, 1} -> Envs \cup {Bad}] /\ ram \in Envs /\ curdev \in {0, 1}
        /\ ~Fault /\ faults = 0
    BY NoFaultStep DEF IInv, TypeOK, Block
  <1> USE <1>f DEF UpdateInv
  <1>1. ASSUME NEW q \in Requests, Start(q)
        PROVE  UpdateInv'
    BY <1>1 DEF Start
  <1>2. CASE EnvInit0 \/ EnvInit1 \/ SetPair \/ Open \/ Close \/ PowerLoss
    BY <1>2 DEF EnvInit0, EnvInit1, Loaded, SetPair, Open, Close, PowerLoss
  <1>3. CASE WritePart(Part(2), "write2", "close")
    BY <1>3 DEF WritePart, Part, IInv, SectorsInv
  <1>4. CASE \/ ErasePart(Part(1), "erase1", "write1") \/ WritePart(Part(1), "write1", "erase2")
             \/ ErasePart(Part(2), "erase2", "write2")
    BY <1>4 DEF ErasePart, WritePart
  <1>5. ASSUME NEW r \in Readers, PrintStart(r) \/ PrintEnv(r)
        PROVE  UpdateInv'
    BY <1>5, ReaderStep DEF wvars
  <1>6. CASE UNCHANGED vars
    BY <1>6 DEF vars, wvars
  <1> QED
    BY <1>1, <1>2, <1>3, <1>4, <1>5, <1>6 DEF Next, Update, FlashWrite

\* fw_setenv goes on while the reader is under way, and does not touch the flash.
LEMMA ReadersAndCommands ==
    ASSUME IInv, UpdateInv, ReadInv, faults = 0, NEW r \in Readers,
           \/ \E q \in Requests : Start(q)
           \/ EnvInit0 \/ EnvInit1 \/ SetPair \/ Open \/ Close
    PROVE  ReaderInv(r)'
  <1>f. /\ flash \in [{0, 1} -> Envs \cup {Bad}] /\ curdev \in {0, 1} /\ pc \in PCs
        /\ rover \in [Readers -> {"none", "one", "racy"}]
        /\ ReaderInv(r)
    BY DEF IInv, TypeOK, Block, ReadInv
  <1>v. UNCHANGED <<flash, rpc, rcrc, rout, rseen>>
    BY DEF Start, Overlaps, EnvInit0, EnvInit1, Loaded, SetPair, Open, Close, rvars, hvars
  <1> USE <1>f, <1>v DEF ReaderInv, Past, OneUpdate, Stopped, Reading, Stored, Load
  <1>1. ASSUME NEW q \in Requests, Start(q)
        PROVE  ReaderInv(r)'
    <2>1. rover'[r] = IF r \in Reading THEN (IF rover[r] = "none" THEN "one" ELSE "racy")
                      ELSE rover[r]
      BY <1>1 DEF Start, Overlaps
    <2>2. pc \in Stopped /\ pc' = "init0"
      BY <1>1 DEF Start
    <2>3. CASE r \in Reading
      BY <2>1, <2>2, <2>3
    <2>4. CASE r \notin Reading
      BY <2>1, <2>2, <2>4 DEF RStopped
    <2> QED
      BY <2>3, <2>4
  <1>2. CASE EnvInit0
    <2>1. CASE flash[0] # Bad
      BY <1>2, <2>1 DEF EnvInit0, Loaded, hvars
    <2>2. CASE flash[0] = Bad
      BY <1>2, <2>2 DEF EnvInit0, Loaded, Overlaps, RStopped
    <2> QED
      BY <2>1, <2>2
  <1>3. CASE EnvInit1
    BY <1>3 DEF EnvInit1, Loaded, hvars, RStopped
  <1>4. CASE SetPair
    BY <1>4 DEF SetPair, hvars, RStopped
  <1>5. CASE Open
    BY <1>5 DEF Open, hvars, RStopped
  <1>6. CASE Close
    BY <1>6 DEF Close, hvars, RStopped
  <1> QED
    BY <1>1, <1>2, <1>3, <1>4, <1>5, <1>6

\* flash_io_write rewrites the sectors under the reader.
LEMMA ReadersAndWrites ==
    ASSUME IInv, UpdateInv, ReadInv, faults = 0, NEW r \in Readers, FlashWrite
    PROVE  ReaderInv(r)'
  <1>f. /\ flash \in [{0, 1} -> Envs \cup {Bad}] /\ curdev \in {0, 1} /\ ram \in Envs
        /\ rover \in [Readers -> {"none", "one", "racy"}]
        /\ ReaderInv(r) /\ SectorsInv
    BY DEF IInv, TypeOK, Block, ReadInv
  <1>v. /\ UNCHANGED <<rpc, rcrc, rout, rover, curdev, ram>>
        /\ rseen'[r] = IF r \in Reading THEN rseen[r] \cup {Load(flash')} ELSE rseen[r]
    BY DEF FlashWrite, ErasePart, WritePart, SeenNext, rvars
  <1>1. CASE r \notin Reading
    BY <1>f, <1>v, <1>1 DEF ReaderInv, Reading, RStopped
  <1>2. CASE r \in Reading
    <2> USE <1>f, <1>v, <1>2, EnvNotBad DEF ReaderInv, Past, OneUpdate, Stopped, Reading, RStopped, Stored, Load,
            Part, SectorsInv
    <2>1. CASE ErasePart(Part(1), "erase1", "write1")
      BY <2>1 DEF ErasePart
    <2>2. CASE WritePart(Part(1), "write1", "erase2")
      BY <2>2 DEF WritePart
    <2>3. CASE ErasePart(Part(2), "erase2", "write2")
      BY <2>3 DEF ErasePart
    <2>4. CASE WritePart(Part(2), "write2", "close")
      BY <2>4 DEF WritePart
    <2> QED
      BY <2>1, <2>2, <2>3, <2>4 DEF FlashWrite
  <1> QED
    BY <1>1, <1>2

\* The reader itself, or another one, makes a step.
LEMMA ReadersStep ==
    ASSUME IInv, UpdateInv, ReadInv, faults = 0, NEW r \in Readers, NEW s \in Readers,
           PrintStart(s) \/ PrintEnv(s)
    PROVE  ReaderInv(r)'
  <1>f. /\ flash \in [{0, 1} -> Envs \cup {Bad}] /\ curdev \in {0, 1} /\ pc \in PCs /\ ram \in Envs
        /\ rpc \in [Readers -> RPCs] /\ rcrc \in [Readers -> Envs \cup {Bad}]
        /\ rout \in [Readers -> Envs] /\ rseen \in [Readers -> SUBSET Envs]
        /\ rover \in [Readers -> {"none", "one", "racy"}]
        /\ ReaderInv(r) /\ SectorsInv
    BY DEF IInv, TypeOK, Block, ReadInv
  <1>v. UNCHANGED <<flash, pc, curdev, ram>>
    BY ReaderStep DEF wvars
  <1> USE <1>f, <1>v
  <1>1. CASE r # s
    <2>1. /\ rpc'[r] = rpc[r] /\ rcrc'[r] = rcrc[r] /\ rout'[r] = rout[r]
          /\ rseen'[r] = rseen[r] /\ rover'[r] = rover[r]
      BY <1>1 DEF PrintStart, PrintEnv, ReadCrc, CrcMatches, CrcFails, hvars
    <2> QED
      BY <2>1 DEF ReaderInv, Past, OneUpdate, Reading, Stored, Load
  <1>2. CASE r = s /\ PrintStart(r)
    <2>1. /\ rpc'[r] = "crc0" /\ rseen'[r] = {Stored}
          /\ rover'[r] = IF pc \in Stopped THEN "none"
                         ELSE IF pc = "init0" \/ (curdev = 0 /\ flash # [d \in Block |-> Bad])
                              THEN "one" ELSE "racy"
      BY <1>2 DEF PrintStart
    <2>2. rover'[r] = "one" => OneUpdate
      <3> SUFFICES ASSUME rover'[r] = "one", pc # "init0"
                   PROVE  OneUpdate
        BY <2>1 DEF OneUpdate, Stopped
      <3>1. pc \notin Stopped /\ curdev = 0 /\ (flash[0] # Bad \/ flash[1] # Bad)
        BY <2>1 DEF Block
      <3> QED
        BY <3>1, EnvNotBad DEF OneUpdate, UpdateInv, SectorsInv, SourceIntact
    <2> QED
      BY <2>1, <2>2 DEF ReaderInv, OneUpdate, Reading, Stored, Load
  <1>3. CASE r = s /\ PrintEnv(r)
    <2> USE <1>3, EnvNotBad DEF ReaderInv, Reading, RStopped, Stored, Load
    <2>v. rseen'[r] = rseen[r] /\ rover'[r] = rover[r]
      BY DEF PrintEnv, ReadCrc, CrcMatches, CrcFails, hvars
    <2>1. CASE ReadCrc(r, 0, "crc0", "data0")
      BY <2>v, <2>1 DEF ReadCrc, OneUpdate
    <2>2. CASE CrcMatches(r, 0, "data0")
      BY <2>v, <2>2 DEF CrcMatches
    <2>3. CASE CrcFails(r, 0, "data0", "crc1")
      BY <2>v, <2>3 DEF CrcFails, OneUpdate, Past, Stopped, PCs, SectorsInv
    <2>4. CASE ReadCrc(r, 1, "crc1", "data1")
      BY <2>v, <2>4 DEF ReadCrc, OneUpdate, Past
    <2>5. CASE CrcMatches(r, 1, "data1")
      BY <2>v, <2>5 DEF CrcMatches, Past
    <2>6. CASE CrcFails(r, 1, "data1", "printed")
      BY <2>v, <2>6 DEF CrcFails, Past
    <2> QED
      BY <2>1, <2>2, <2>3, <2>4, <2>5, <2>6 DEF PrintEnv
  <1> QED
    BY <1>1, <1>2, <1>3

\* Every step keeps what each run of fw_printenv may rely on.
LEMMA ReadStep ==
    ASSUME IInv, UpdateInv, ReadInv, [Next]_vars
    PROVE  ReadInv'
  <1> SUFFICES ASSUME faults' = 0, NEW r \in Readers
               PROVE  ReaderInv(r)'
    BY DEF ReadInv
  <1>f. ~Fault /\ faults = 0
    BY NoFaultStep DEF IInv
  <1>1. CASE PowerLoss
    BY <1>1 DEF PowerLoss, ReaderInv, Reading, RStopped
  <1>2. CASE UNCHANGED vars
    BY <1>f, <1>2 DEF vars, wvars, rvars, hvars, ReadInv, ReaderInv, Past, OneUpdate, Reading,
                      Stored, Load
  <1> QED
    BY <1>f, <1>1, <1>2, ReadersAndCommands, ReadersAndWrites, ReadersStep DEF Next, Update

(***************************************************************************)
(* fw_printenv takes no lock, and still prints an environment that was     *)
(* stored while it ran if it met at most one update, one that found sector *)
(* 0 intact: for any number of readers, variables and values.              *)
(***************************************************************************)
THEOREM PrintsStored == Spec => []ReadsAreStored
  <1>1. Init => UpdateInv /\ ReadInv
    BY DEF Init, UpdateInv, ReadInv, ReaderInv, Reading, RStopped
  <1>2. IInv /\ UpdateInv /\ ReadInv /\ [Next]_vars => (UpdateInv /\ ReadInv)'
    BY UpdateStep, ReadStep
  <1>3. ReadInv => ReadsAreStored
    BY DEF ReadInv, ReaderInv, ReadsAreStored
  <1> QED
    BY <1>1, <1>2, <1>3, Invariant, PTL DEF Spec

\* The environment of a command that exits with success is in both sectors, and is stored.
StoredTwice == SuccessMeansStored /\ (pc = "ok" => \A d \in Block : flash[d] = ram)

(***************************************************************************)
(* Without an MTD failure "everything ok" is true: a command that exits    *)
(* with success has left its environment in both sectors, and a boot loads *)
(* it until the next command.  Only a failure that flash_io_write ignores  *)
(* can make SuccessMeansStored false.                                      *)
(***************************************************************************)
THEOREM SuccessWithoutFault == Spec => [](faults = 0 => StoredTwice)
  <1>1. Init => UpdateInv
    BY DEF Init, UpdateInv
  <1>2. IInv /\ UpdateInv /\ [Next]_vars => UpdateInv'
    BY UpdateStep
  <1>3. IInv /\ UpdateInv => (faults = 0 => StoredTwice)
    <2> SUFFICES ASSUME IInv, UpdateInv, faults = 0, pc = "ok"
                 PROVE  Stored = ram /\ \A d \in Block : flash[d] = ram
      BY DEF StoredTwice, SuccessMeansStored
    <2>1. flash[0] = ram /\ flash[1] = ram /\ ram # Bad
      BY EnvNotBad DEF UpdateInv, IInv, TypeOK
    <2> QED
      BY <2>1 DEF Stored, Load, Block
  <1> QED
    BY <1>1, <1>2, <1>3, Invariant, PTL DEF Spec

-----------------------------------------------------------------------------

(***************************************************************************)
(* What the refinement needs of an update: the environment in memory is    *)
(* the stored one with the pairs applied so far, which with those to come  *)
(* are a command line; and every environment fits.                         *)
(***************************************************************************)
Applied(p) == ram = Store!Requested(Stored, p) /\ Len(p) + Len(args) \in 1..MaxPairs

\* Memory is what the command line asks for, at each point of an update.
RequestInv ==
    faults = 0 =>
        /\ pc \in {"edit", "erase1", "write1"} => \E p \in Requests \cup {<<>>} : Applied(p)
        /\ pc = "erase2" => Stored = ram \/ \E p \in Requests \cup {<<>>} : Applied(p)
        /\ pc \in {"init0", "init1"} => Len(args) \in 1..MaxPairs
        /\ pc \in {"erase1", "write1", "erase2"} => args = <<>>

\* An environment fits into a sector.
Fit(e) == IsFiniteSet(Defined(e)) /\ Cardinality(Defined(e)) <= Capacity

\* Every environment there is fits.
FitInv == Fit(ram) /\ \A d \in Block : flash[d] # Bad => Fit(flash[d])

\* A nonempty set of numbers up to n has a largest one.
LEMMA LargestIndex ==
    ASSUME NEW n \in Nat, NEW S \in SUBSET (1..n), S # {}
    PROVE  \E i \in S : \A j \in S : j <= i
  <1> DEFINE T == {m \in Nat : \E i \in S : m = n - i}
  <1>1. T # {} /\ T \subseteq Nat
    <2>1. PICK i \in S : TRUE
      OBVIOUS
    <2>2. n - i \in T
      BY <2>1
    <2> QED
      BY <2>2
  <1> DEFINE R == OpToRel(<, Nat)
  <1>2. IsWellFoundedOn(R, Nat)
    BY NatLessThanWellFounded, Zenon
  <1>5. \A y, x \in Nat : y < x => <<y, x>> \in R
    BY DEF OpToRel
  <1> HIDE DEF T, R
  <1>3. PICK x \in T : \A y \in T : ~(<<y, x>> \in R)
    BY <1>1, <1>2, WFMin
  <1>6. ASSUME NEW y \in T
        PROVE  x <= y
    <2>1. x \in Nat /\ y \in Nat
      BY <1>1
    <2>2. ~(<<y, x>> \in R)
      BY <1>3
    <2>3. ~(y < x)
      BY <1>5, <2>1, <2>2, Zenon
    <2> QED
      BY <2>1, <2>3
  <1>7. PICK i \in S : x = n - i
    BY DEF T
  <1>8. \A j \in S : j <= i
    BY <1>6, <1>7 DEF T
  <1> QED
    BY <1>8

\* No pairs ask for no change.
LEMMA RequestedNothing ==
    ASSUME NEW e \in Envs
    PROVE  Store!Requested(e, <<>>) = e
  BY DEF Store!Requested, Envs

\* One more pair changes its variable in what was asked for so far.
LEMMA RequestedAppend ==
    ASSUME NEW e \in Envs, NEW p \in Seq(Pairs), NEW h \in Pairs
    PROVE  Store!Requested(e, Append(p, h))
             = [Store!Requested(e, p) EXCEPT ![h[1]] = h[2]]
  <1> DEFINE q == Append(p, h)
             k == Len(p) + 1
             Hits(s, n) == {i \in DOMAIN s : s[i][1] = n}
             Last(s, n) == CHOOSE i \in Hits(s, n) : \A j \in Hits(s, n) : j <= i
  <1>1. DOMAIN p = 1..Len(p) /\ DOMAIN q = 1..k /\ Len(p) \in Nat
    OBVIOUS
  <1>2. q[k] = h /\ \A i \in 1..Len(p) : q[i] = p[i]
    OBVIOUS
  <1>3. h[1] \in Names
    BY DEF Pairs
  <1>r. ASSUME NEW s
        PROVE  Store!Requested(e, s)
                 = [n \in Names |-> IF Hits(s, n) = {} THEN e[n] ELSE s[Last(s, n)][2]]
    BY DEF Store!Requested
  <1> HIDE DEF q, k
  <1>4. Hits(q, h[1]) # {} /\ Last(q, h[1]) = k
    <2>1. k \in Hits(q, h[1])
      BY <1>1, <1>2 DEF k
    <2>2. \A j \in Hits(q, h[1]) : j <= k /\ j \in Int
      BY <1>1 DEF k
    <2> DEFINE H == Hits(q, h[1])
    <2> HIDE DEF H
    <2>3. (CHOOSE i \in H : \A j \in H : j <= i) = k
      <3>1. k \in H /\ \A j \in H : j <= k /\ j \in Int
        BY <2>1, <2>2 DEF H
      <3>2. \A i \in H : (\A j \in H : j <= i) => i = k
        BY <3>1
      <3> QED
        BY <3>1, <3>2
    <2> QED
      BY <2>1, <2>3 DEF H
  <1>5. ASSUME NEW n \in Names, n # h[1]
        PROVE  /\ Hits(q, n) = Hits(p, n)
               /\ Hits(p, n) # {} => q[Last(p, n)] = p[Last(p, n)]
    <2>1. Hits(q, n) = Hits(p, n)
      BY <1>1, <1>2, <1>5 DEF k
    <2>2. ASSUME Hits(p, n) # {}
          PROVE  Last(p, n) \in 1..Len(p)
      <3> DEFINE H == Hits(p, n)
      <3>1. H \in SUBSET (1..Len(p)) /\ H # {}
        BY <1>1, <2>2
      <3> HIDE DEF H
      <3>2. \E i \in H : \A j \in H : j <= i
        BY <1>1, <3>1, LargestIndex
      <3>3. (CHOOSE i \in H : \A j \in H : j <= i) \in H
        BY <3>2
      <3> QED
        BY <3>1, <3>3 DEF H
    <2> HIDE DEF Last
    <2> QED
      BY <1>2, <2>1, <2>2
  <1>6. \A n \in Names : n # h[1] => Last(q, n) = Last(p, n)
    BY <1>5
  <1> HIDE DEF Hits, Last
  <1>7. Store!Requested(e, q)
          = [n \in Names |-> IF Hits(q, n) = {} THEN e[n] ELSE q[Last(q, n)][2]]
    BY <1>r
  <1>8. Store!Requested(e, p)
          = [n \in Names |-> IF Hits(p, n) = {} THEN e[n] ELSE p[Last(p, n)][2]]
    BY <1>r
  <1> DEFINE f == Store!Requested(e, q)
             g == Store!Requested(e, p)
  <1> HIDE DEF f, g
  <1>9. f = [g EXCEPT ![h[1]] = h[2]]
    <2>1. \A n \in Names : f[n] = IF n = h[1] THEN h[2] ELSE g[n]
      <3>1. f[h[1]] = h[2]
        BY <1>2, <1>3, <1>4, <1>7 DEF f
      <3>2. ASSUME NEW n \in Names, n # h[1]
            PROVE  f[n] = g[n]
        <4>1. f[n] = IF Hits(q, n) = {} THEN e[n] ELSE q[Last(q, n)][2]
          BY <1>7 DEF f
        <4>2. g[n] = IF Hits(p, n) = {} THEN e[n] ELSE p[Last(p, n)][2]
          BY <1>8 DEF g
        <4>3. /\ Hits(q, n) = Hits(p, n) /\ Last(q, n) = Last(p, n)
              /\ Hits(p, n) # {} => q[Last(p, n)] = p[Last(p, n)]
          BY <1>5, <1>6, <3>2
        <4> QED
          BY <4>1, <4>2, <4>3
      <3> QED
        BY <3>1, <3>2
    <2>2. f = [n \in Names |-> f[n]] /\ g = [n \in Names |-> g[n]]
      BY <1>7, <1>8 DEF f, g
    <2> QED
      BY <2>1, <2>2
  <1> QED
    BY <1>9 DEF f, g, q

\* The pairs of a command line, and its beginnings.
LEMMA CommandLine ==
    ASSUME NEW p
    PROVE  p \in Requests \cup {<<>>} <=> p \in Seq(Pairs) /\ Len(p) \in 0..MaxPairs
  <1>m. MaxPairs \in Nat
    BY ConstantsOK
  <1>1. ASSUME p \in Requests \cup {<<>>}
        PROVE  p \in Seq(Pairs) /\ Len(p) \in 0..MaxPairs
    <2>1. CASE p = <<>>
      BY <1>m, <2>1
    <2>2. CASE p \in Requests
      <3>1. PICK n \in 1..MaxPairs : p \in [1..n -> Pairs]
        BY <2>2 DEF Requests
      <3>2. p \in Seq(Pairs) /\ Len(p) = n
        BY <1>m, <3>1
      <3> QED
        BY <1>m, <3>2
    <2> QED
      BY <1>1, <2>1, <2>2
  <1>2. ASSUME p \in Seq(Pairs), Len(p) \in 0..MaxPairs
        PROVE  p \in Requests \cup {<<>>}
    <2>1. CASE Len(p) = 0
      BY <1>2, <2>1
    <2>2. CASE Len(p) # 0
      <3>1. Len(p) \in 1..MaxPairs /\ p \in [1..Len(p) -> Pairs]
        BY <1>m, <1>2, <2>2
      <3> QED
        BY <3>1 DEF Requests
    <2> QED
      BY <2>1, <2>2
  <1> QED
    BY <1>1, <1>2

\* One turn of the loop of fw_setenvs applies one more pair of the command line.
LEMMA AppliedNext ==
    ASSUME TypeOK, SetPair, pc' = "edit", NEW p \in Requests \cup {<<>>}, Applied(p)
    PROVE  \E s \in Requests \cup {<<>>} : Applied(s)'
  <1> DEFINE s == Append(p, Head(args))
  <1>1. args \in Seq(Pairs) /\ args # <<>> /\ p \in Seq(Pairs) /\ MaxPairs \in Nat
    BY CommandLine, ConstantsOK DEF TypeOK, SetPair
  <1>2. Head(args) \in Pairs /\ Len(Tail(args)) = Len(args) - 1 /\ Len(args) \in Nat /\ Len(args) # 0
    BY <1>1
  <1>3. /\ ram' = [ram EXCEPT ![Head(args)[1]] = Head(args)[2]]
        /\ args' = Tail(args) /\ flash' = flash
    BY DEF SetPair
  <1>4. Stored \in Envs /\ Stored' = Stored
    BY <1>3, ConstantsOK DEF TypeOK, Stored, Load, Block
  <1>5. s \in Seq(Pairs) /\ Len(s) = Len(p) + 1 /\ Len(p) \in Nat
    BY <1>1, <1>2
  <1>6. Len(s) + Len(args') \in 1..MaxPairs /\ Len(s) \in 0..MaxPairs
    <2>1. Len(p) + Len(args) \in 1..MaxPairs
      BY DEF Applied
    <2> HIDE DEF s
    <2> QED
      BY <1>1, <1>2, <1>3, <1>5, <2>1
  <1>7. ram' = Store!Requested(Stored', s)
    <2>1. ram = Store!Requested(Stored, p)
      BY DEF Applied
    <2>2. Store!Requested(Stored, s)
            = [Store!Requested(Stored, p) EXCEPT ![Head(args)[1]] = Head(args)[2]]
      BY <1>1, <1>2, <1>4, RequestedAppend
    <2> QED
      BY <1>3, <1>4, <2>1, <2>2
  <1> HIDE DEF s
  <1>8. s \in Requests \cup {<<>>}
    BY <1>5, <1>6, CommandLine
  <1> QED
    BY <1>6, <1>7, <1>8 DEF Applied

\* Every step keeps what the update in memory has to do with the stored environment.
LEMMA RequestStep ==
    ASSUME IInv, RequestInv, [Next]_vars
    PROVE  RequestInv'
  <1> SUFFICES ASSUME faults' = 0
               PROVE  RequestInv'
    BY DEF RequestInv
  <1>f. /\ flash \in [{0, 1} -> Envs \cup {Bad}] /\ ram \in Envs /\ curdev \in {0, 1}
        /\ TypeOK /\ SectorsInv
        /\ ~Fault /\ faults = 0
    BY NoFaultStep DEF IInv, TypeOK, Block
  <1>s. UNCHANGED <<flash, ram, args>> => \A p : Applied(p) => Applied(p)'
    BY DEF Applied, Stored, Load
  <1>1. ASSUME NEW q \in Requests, Start(q)
        PROVE  RequestInv'
    <2>1. Len(q) \in 1..MaxPairs
      <3>1. PICK n \in 1..MaxPairs : q \in [1..n -> Pairs]
        BY DEF Requests
      <3> QED
        BY <3>1, ConstantsOK
    <2> QED
      BY <1>1, <2>1 DEF Start, RequestInv
  <1>2. ASSUME EnvInit0 \/ EnvInit1
        PROVE  RequestInv'
    <2>1. UNCHANGED <<flash, args, faults>> /\ Len(args) \in 1..MaxPairs
      BY <1>2, <1>f DEF EnvInit0, EnvInit1, Loaded, RequestInv
    <2>2. CASE pc' = "edit"
      <3>1. ram' = Stored
        BY <1>2, <1>f, <2>2 DEF EnvInit0, EnvInit1, Loaded, SectorsInv, Stored, Load
      <3>2. ram' = Store!Requested(Stored', <<>>)
        BY <2>1, <3>1, <1>f, ConstantsOK, RequestedNothing DEF Stored, Load
      <3>3. Applied(<<>>)'
        BY <2>1, <3>2 DEF Applied
      <3> QED
        BY <2>2, <3>3 DEF RequestInv
    <2>3. CASE pc' = "init1"
      BY <2>1, <2>3 DEF RequestInv
    <2> QED
      BY <1>2, <2>2, <2>3 DEF EnvInit0, EnvInit1, Loaded
  <1>3. CASE SetPair
    <2>1. PICK p \in Requests \cup {<<>>} : Applied(p)
      BY <1>3, <1>f DEF SetPair, RequestInv
    <2>2. pc' \in {"edit", "failed"}
      BY <1>3 DEF SetPair
    <2>3. pc' = "edit" => \E s \in Requests \cup {<<>>} : Applied(s)'
      BY <1>3, <1>f, <2>1, AppliedNext
    <2> QED
      BY <2>2, <2>3 DEF RequestInv
  <1>4. CASE Open
    BY <1>4, <1>f, <1>s DEF Open, RequestInv
  <1>5. CASE ErasePart(Part(1), "erase1", "write1")
    <2>1. Stored' = Stored /\ UNCHANGED <<ram, args>> /\ pc = "erase1" /\ pc' = "write1"
      BY <1>5, <1>f DEF ErasePart, Part, SectorsInv, SourceIntact, Stored, Load
    <2> QED
      BY <1>f, <2>1 DEF RequestInv, Applied
  <1>6. CASE WritePart(Part(1), "write1", "erase2")
    <2>1. /\ Stored' \in {Stored, ram} /\ UNCHANGED <<ram, args>>
          /\ pc = "write1" /\ pc' = "erase2"
      BY <1>6, <1>f, EnvNotBad DEF WritePart, Part, SectorsInv, SourceIntact, Stored, Load
    <2> QED
      BY <1>f, <2>1 DEF RequestInv, Applied
  <1>7. CASE \/ ErasePart(Part(2), "erase2", "write2") \/ WritePart(Part(2), "write2", "close")
             \/ Close \/ PowerLoss
    BY <1>7 DEF ErasePart, WritePart, Close, PowerLoss, RequestInv
  <1>8. CASE UNCHANGED <<flash, faults, wvars>>
    <2>1. Stored' = Stored /\ UNCHANGED <<pc, ram, args>>
      BY <1>8 DEF wvars, Stored, Load
    <2> QED
      BY <1>f, <2>1 DEF RequestInv, Applied
  <1>9. ASSUME NEW r \in Readers, PrintStart(r) \/ PrintEnv(r)
        PROVE  RequestInv'
    BY <1>8, <1>9, ReaderStep
  <1>10. CASE UNCHANGED vars
    BY <1>8, <1>10 DEF vars
  <1> QED
    BY <1>f, <1>1, <1>2, <1>3, <1>4, <1>5, <1>6, <1>7, <1>9, <1>10 DEF Next, Update, FlashWrite

\* The overflow test of fw_setenvs keeps the environment within ENV_SIZE.
LEMMA EditFits ==
    ASSUME TypeOK, SetPair, Fit(ram)
    PROVE  Fit(ram')
  <1> DEFINE n == Head(args)[1]
             v == Head(args)[2]
             D == Defined(ram)
  <1>1. ram \in [Names -> Values \cup {NoValue}] /\ n \in Names /\ Capacity \in Nat
    BY ConstantsOK DEF TypeOK, SetPair, Pairs, Envs
  <1>2. IsFiniteSet(D) /\ Cardinality(D) \in Nat /\ Cardinality(D) <= Capacity
    BY FS_CardinalityType DEF Fit
  <1>3. ram' = ram \/ (~Overflow(n, v) /\ ram' = [ram EXCEPT ![n] = v])
    BY DEF SetPair
  <1>4. /\ IsFiniteSet(D \ {n}) /\ Cardinality(D \ {n}) \in Nat
        /\ Cardinality(D \ {n}) <= Cardinality(D)
    <2>1. D \ {n} \in SUBSET D
      OBVIOUS
    <2> HIDE DEF D, n
    <2> QED
      BY <1>2, <2>1, FS_Subset, FS_CardinalityType
  <1>5. CASE ram' = ram
    BY <1>5
  <1>6. CASE ram' = [ram EXCEPT ![n] = v] /\ v = NoValue
    <2>1. Defined(ram') = D \ {n}
      BY <1>1, <1>6 DEF Defined
    <2> HIDE DEF D, n
    <2> QED
      BY <1>1, <1>2, <1>4, <2>1 DEF Fit
  <1>7. CASE ram' = [ram EXCEPT ![n] = v] /\ v # NoValue /\ ~Overflow(n, v)
    <2>1. Defined(ram') = (D \ {n}) \cup {n}
      BY <1>1, <1>7 DEF Defined
    <2>2. Cardinality(D \ {n}) < Capacity
      BY <1>1, <1>4, <1>7 DEF Overflow
    <2> HIDE DEF D, n
    <2>3. /\ IsFiniteSet((D \ {n}) \cup {n})
          /\ Cardinality((D \ {n}) \cup {n}) = Cardinality(D \ {n}) + 1
      <3>1. n \notin D \ {n}
        OBVIOUS
      <3> QED
        BY <1>4, <3>1, FS_AddElement
    <2> QED
      BY <1>1, <1>4, <2>1, <2>2, <2>3 DEF Fit
  <1> QED
    BY <1>3, <1>5, <1>6, <1>7

\* Every step keeps every environment within ENV_SIZE, whatever has failed.
LEMMA FitStep ==
    ASSUME TypeOK, FitInv, [Next]_vars
    PROVE  FitInv'
  <1>d. Fit(Default)
    BY ConstantsOK DEF Fit, Defined
  <1>f. flash \in [{0, 1} -> Envs \cup {Bad}] /\ curdev \in {0, 1}
    BY DEF TypeOK, Block
  <1>t. FitInv <=> /\ Fit(ram) /\ (flash[0] = Bad \/ Fit(flash[0]))
                   /\ (flash[1] = Bad \/ Fit(flash[1]))
    BY DEF FitInv, Block
  <1>n. (/\ Fit(ram') /\ (flash'[0] = Bad \/ Fit(flash'[0]))
         /\ (flash'[1] = Bad \/ Fit(flash'[1]))) => FitInv'
    BY DEF FitInv, Block, Fit, Defined
  <1>1. CASE UNCHANGED <<flash, ram>>
    BY <1>1, <1>t, <1>n
  <1>2. CASE UNCHANGED flash /\ ram' \in {ram, Default, flash[0], flash[1]} /\ ram' # Bad
    BY <1>2, <1>t, <1>n, <1>d
  <1>3. CASE SetPair
    BY <1>3, <1>t, <1>n, EditFits DEF SetPair
  <1>4. ASSUME NEW d \in {0, 1}, NEW image \in {flash[d], ram, Bad},
               flash' = [flash EXCEPT ![d] = image], UNCHANGED ram
        PROVE  FitInv'
    BY <1>4, <1>f, <1>t, <1>n
  <1>p. Part(1) \in {0, 1} /\ Part(2) \in {0, 1}
    BY <1>f DEF Part
  <1>5. CASE FlashWrite
    BY <1>4, <1>5, <1>p DEF FlashWrite, ErasePart, WritePart
  <1>6. CASE FlashWriteError
    BY <1>4, <1>6, <1>p DEF FlashWriteError, EraseError, WriteError
  <1>7. ASSUME NEW q \in Requests, Start(q)
        PROVE  FitInv'
    BY <1>2, <1>7, ConstantsOK DEF Start
  <1>8. CASE EnvInit0 \/ EnvInit1
    BY <1>2, <1>8, ConstantsOK, EnvNotBad DEF EnvInit0, EnvInit1, Loaded, TypeOK
  <1>9. CASE PowerLoss
    BY <1>2, <1>9, ConstantsOK DEF PowerLoss
  <1>10. CASE Open \/ Close \/ EnvInitError \/ DeviceError \/ UNCHANGED vars
    BY <1>1, <1>10 DEF Open, Close, EnvInitError, DeviceError, vars, wvars
  <1>11. ASSUME NEW r \in Readers, PrintStart(r) \/ PrintEnv(r) \/ PrintError(r)
         PROVE  FitInv'
    BY <1>1, <1>11, ReaderStep DEF PrintError, wvars
  <1> QED
    BY <1>3, <1>5, <1>6, <1>7, <1>8, <1>9, <1>10, <1>11 DEF Next, Update, Fault

\* Every step of the tool is a step of the abstract store, or none.
LEMMA StoreStep ==
    ASSUME IInv, RequestInv, FitInv, TypeOK', [Next]_vars
    PROVE  [Store!Next]_<<Stored, faults > 0>>
  <1>f. /\ flash \in [{0, 1} -> Envs \cup {Bad}] /\ ram \in Envs /\ curdev \in {0, 1}
        /\ SectorsInv /\ faults' \in Nat
    BY ConstantsOK DEF IInv, TypeOK, Block
  <1>1. CASE faults' # 0
    <2>1. (faults > 0)' = TRUE
      BY <1>f, <1>1
    <2>2. Stored' \in Envs
      BY ConstantsOK DEF TypeOK, Stored, Load, Block
    <2> QED
      BY <2>1, <2>2 DEF Store!Next, Store!Fail, Store!Envs, Envs
  <1>2. CASE faults' = 0
    <2>z. faults = 0
      BY <1>2, FaultsGrow DEF IInv
    <2>d. (faults > 0)' = (faults > 0) /\ ~(faults > 0)
      BY <1>2, <2>z
    <2>1. CASE Stored' = Stored
      BY <2>1, <2>d
    <2>2. ASSUME Stored' = ram, pc \in {"write1", "erase2"}, Stored # ram
          PROVE  Store!Next
      <3>1. PICK p \in Requests \cup {<<>>} : Applied(p)
        BY <2>z, <2>2 DEF RequestInv
      <3>2. args = <<>>
        BY <2>z, <2>2 DEF RequestInv
      <3>3. p \in Requests
        <4>1. Len(p) + Len(args) \in 1..MaxPairs
          BY <3>1 DEF Applied
        <4>2. Len(p) # 0
          BY <3>2, <4>1, <3>1, CommandLine
        <4> QED
          BY <4>2
      <3>4. Stored' = Store!Requested(Stored, p)
        BY <2>2, <3>1 DEF Applied
      <3>5. Store!Keeps(Stored, Stored')
        <4>1. Keeps(Stored, ram)
          BY <1>f, <2>z, <2>2 DEF SectorsInv
        <4> QED
          BY <2>2, <4>1 DEF Keeps, Store!Keeps
      <3>6. Store!Fits(Stored')
        <4>1. Cardinality(Defined(ram)) <= Capacity
          BY DEF FitInv, Fit
        <4>2. Store!Defined(Stored') = Defined(ram)
          BY <2>2 DEF Store!Defined, Defined
        <4>3. Store!Cardinality(Store!Defined(Stored')) = Cardinality(Store!Defined(Stored'))
          BY DEF Store!Cardinality, Cardinality
        <4> QED
          BY <4>1, <4>2, <4>3 DEF Store!Fits
      <3>7. Store!Set(p)
        BY <2>d, <3>4, <3>5, <3>6 DEF Store!Set
      <3> QED
        BY <3>3, <3>7 DEF Store!Next, Store!Requests, Requests, Store!Pairs, Pairs
    <2>3. \/ Stored' = Stored
          \/ Stored' = ram /\ pc \in {"write1", "erase2"}
      <3> USE <1>f, <2>z, EnvNotBad DEF Part, SectorsInv, SourceIntact, Stored, Load
      <3>1. CASE UNCHANGED flash
        BY <3>1
      <3>2. CASE ErasePart(Part(1), "erase1", "write1")
        BY <3>2 DEF ErasePart
      <3>3. CASE WritePart(Part(1), "write1", "erase2")
        BY <3>3 DEF WritePart
      <3>4. CASE ErasePart(Part(2), "erase2", "write2")
        BY <3>4 DEF ErasePart
      <3>5. CASE WritePart(Part(2), "write2", "close")
        BY <3>5 DEF WritePart
      <3> QED
        BY <1>2, <3>1, <3>2, <3>3, <3>4, <3>5, FlashStep DEF FlashWrite, IInv
    <2> QED
      BY <2>1, <2>2, <2>3
  <1> QED
    BY <1>1, <1>2

(***************************************************************************)
(* Refinement: the two sectors, the loop over the pairs and the order in   *)
(* which flash_io_write rewrites them implement the store of EnvStore, for *)
(* all names, values, capacities and command lines.                        *)
(***************************************************************************)
THEOREM Refinement == Spec => StoreSpec
  <1>1. Init => Store!Init /\ RequestInv /\ FitInv
    <2> SUFFICES ASSUME Init
                 PROVE  Store!Init /\ RequestInv /\ FitInv
      OBVIOUS
    <2>1. Stored = Default /\ (faults > 0) = FALSE
      BY ConstantsOK DEF Init, Stored, Load, Block
    <2>2. RequestInv
      BY DEF Init, RequestInv
    <2>3. Fit(Default)
      BY ConstantsOK DEF Fit, Defined
    <2>4. ram = Default /\ \A d \in Block : flash[d] \in {Bad, Default}
      BY DEF Init
    <2>5. FitInv
      BY <2>3, <2>4 DEF FitInv
    <2> QED
      BY <2>1, <2>2, <2>5 DEF Store!Init
  <1>2. IInv /\ RequestInv /\ FitInv /\ [Next]_vars => (RequestInv /\ FitInv)'
    BY RequestStep, FitStep DEF IInv
  <1>3. IInv /\ RequestInv /\ FitInv /\ TypeOK' /\ [Next]_vars
          => [Store!Next]_<<Stored, faults > 0>>
    BY StoreStep
  <1> QED
    BY <1>1, <1>2, <1>3, Invariant, TypeCorrect, PTL DEF Spec, StoreSpec, Store!Spec
=============================================================================
