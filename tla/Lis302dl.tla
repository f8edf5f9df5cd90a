------------------------------ MODULE Lis302dl ------------------------------
(***************************************************************************)
(* The accelerometer driver (drivers/i2c/chips/lis302dl.c): its level      *)
(* triggered interrupt with the work that answers it, and the sysfs files  *)
(* threshold, duration and config.                                         *)
(*                                                                         *)
(* A store changes the driver's copy without the lock, and then writes the *)
(* register under the lock from the copy.  What the work does under the    *)
(* lock is one step, so the lock itself is not a variable.  The three      *)
(* files have the same code and share no data, so a behaviour follows one. *)
(*                                                                         *)
(* The copy is an unsigned int and the register a byte, and no store tests *)
(* the range.  A text is the number it spells, negative with a minus sign. *)
(***************************************************************************)
EXTENDS Integers

CONSTANTS
    AppValues,   \* the numbers applications write to the file
    Word,        \* the number of values of an unsigned int
    None         \* no store in progress

Byte == 256      \* the number of values of a register

ASSUME ConstantsOK ==
    /\ AppValues \subseteq Int /\ None \notin Int
    /\ Word \in Nat /\ Word > 2 * Byte

Attrs == {"threshold", "duration", "config"}
Writers == {"script", "app"}

VARIABLES
    attr,      \* the file the behaviour follows
    data,      \* the driver's copy
    reg,       \* the register of the chip
    storing,   \* the value each writer is storing
    lost,      \* the last write of the register failed (history)
    line,      \* the chip asserts its interrupt (latched until the source is read)
    irqOn,     \* the interrupt is enabled
    work       \* irq_work: idle, queued, read

attrVars == <<attr, data, reg, storing, lost>>
irqVars == <<line, irqOn, work>>
lisVars == <<attrVars, irqVars>>

\* The probe: 350 mg, no duration; LIR, ZHIE, YHIE, XHIE.
Default == [threshold |-> 20, duration |-> 0, config |-> 106]

LisInit ==
    /\ attr \in Attrs
    /\ data = Default[attr] /\ reg = data % Byte /\ lost = FALSE
    /\ storing = [w \in Writers |-> None]
    /\ line = FALSE /\ irqOn = TRUE /\ work = "idle"

-----------------------------------------------------------------------------

\* The file prints the unsigned copy with %d.
Shown(d) == IF 2 * d < Word THEN d ELSE d - Word

\* simple_strtoul wraps, and reads no digit of a text with a minus sign.
Readable(text) == text >= 0
Parsed(text) == text % Word

\* The first half of a store: nothing to do for EINVAL, or if the value is the driver's.
Store(w, text) ==
    /\ storing[w] = None
    /\ IF Readable(text) /\ Parsed(text) # data
       THEN data' = Parsed(text) /\ storing' = [storing EXCEPT ![w] = Parsed(text)]
       ELSE UNCHANGED <<data, storing>>
    /\ UNCHANGED <<attr, reg, lost, irqVars>>

\* Faulty variant: the writer's own value goes to the register.
StoreWriteOwn(w) ==
    /\ storing[w] # None
    /\ reg' = storing[w] % Byte /\ lost' = FALSE
    /\ storing' = [storing EXCEPT ![w] = None]
    /\ UNCHANGED <<attr, data, irqVars>>

\* The second half, under the lock: the register gets the low byte of what the copy is now.
StoreWrite(w) ==
    /\ storing[w] # None
    /\ reg' = data % Byte /\ lost' = FALSE
    /\ storing' = [storing EXCEPT ![w] = None]
    /\ UNCHANGED <<attr, data, irqVars>>

\* The transfer to the chip fails: the result is dropped, and the copy stays.
StoreWriteFails(w) ==
    /\ storing[w] # None
    /\ lost' = TRUE
    /\ storing' = [storing EXCEPT ![w] = None]
    /\ UNCHANGED <<attr, data, reg, irqVars>>

\* The device is moved.
Motion ==
    /\ ~line
    /\ line' = TRUE
    /\ UNCHANGED <<attrVars, irqOn, work>>

\* lis302dl_irq: the interrupt stays off until the work has run.
Irq ==
    /\ line /\ irqOn
    /\ irqOn' = FALSE /\ work' = "queued"
    /\ UNCHANGED <<attrVars, line>>

\* lis302dl_irq_work: reading the source releases the line.
WorkRead ==
    /\ work = "queued"
    /\ line' = FALSE /\ work' = "read"
    /\ UNCHANGED <<attrVars, irqOn>>

\* Faulty variant: the interrupt stays off when the chip has moved on.
WorkReportIfQuiet ==
    /\ work = "read"
    /\ work' = "idle" /\ irqOn' = ~line
    /\ UNCHANGED <<attrVars, line>>

\* The position is reported, and the interrupt enabled again.
WorkReport ==
    /\ work = "read"
    /\ work' = "idle" /\ irqOn' = TRUE
    /\ UNCHANGED <<attrVars, line>>

-----------------------------------------------------------------------------

LisTypeOK ==
    /\ attr \in Attrs
    /\ data \in 0 .. Word - 1 /\ reg \in 0 .. Byte - 1
    /\ storing \in [Writers -> 0 .. Word - 1 \cup {None}] /\ lost \in BOOLEAN
    /\ line \in BOOLEAN /\ irqOn \in BOOLEAN
    /\ work \in {"idle", "queued", "read"}

(***************************************************************************)
(* Whatever two writers do at the same time, the register of the chip has  *)
(* the low byte of the value the driver holds once no store is in          *)
(* progress, unless the last write of the register failed: the driver does *)
(* not notice, and writes no value again that it takes to be there.        *)
(***************************************************************************)
RegisterFollows ==
    (\A w \in Writers : storing[w] = None) => lost \/ reg = data % Byte
=============================================================================
