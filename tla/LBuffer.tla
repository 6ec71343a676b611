------------------------------ MODULE LBuffer ------------------------------
(***************************************************************************)
(* LBuffer (src/src/structs/lbuffer.rs): a single-writer, multi-reader,    *)
(* append-only buffer of fixed capacity, optionally with a bit-packed null *)
(* mask that is filled in step with the values.                            *)
(*                                                                         *)
(* Every atomic access and every store a reader could see is a step.  The  *)
(* writer is one thread (`&mut self`); readers hold views, which clone an  *)
(* Arc, and load the published state field by field while it moves.  Each  *)
(* cross-thread store is a Release after the writes it publishes and each  *)
(* load that guards them an Acquire, so a reader that lags behind the      *)
(* writer is a reader scheduled earlier and interleaving the steps loses   *)
(* nothing.                                                                *)
(***************************************************************************)
EXTENDS Integers, FiniteSets

CONSTANTS
    Elem,       \* element values
    Default,    \* T::default(), the value written under a null
    Unwritten,  \* what a slot holds before its first write
    Capacity,   \* elements the value cell can hold
    W,          \* bits in a mask byte (8 in the code)
    MASK,       \* is this a masked buffer
    Reader      \* names for views, bitmasks and windows in use at once

ASSUME ElemAssumption     == Default \in Elem /\ Unwritten \notin Elem
ASSUME CapacityAssumption == Capacity \in Nat \ {0}
ASSUME WidthAssumption    == W \in Nat \ {0, 1}
ASSUME MaskAssumption     == MASK \in BOOLEAN

VARIABLES
    base,         \* value cell: its slots
    len,          \* value cell: published length
    sealed,       \* value cell: sealed flag
    bits,         \* mask cell: its bits, W to the byte
    tail,         \* mask cell: LMaskTail, (byte_index, filled)
    mask_sealed,  \* mask cell: sealed flag
    cell,         \* ownership of the two allocations
    writer,       \* the writer thread: what it is doing
    reader,       \* the readers: what they hold and what they have loaded
    frozen        \* {} until freeze returned, then what it returned

value_cell == <<base, len, sealed>>
mask_cell  == <<bits, tail, mask_sealed>>
vars       == <<base, len, sealed, bits, tail, mask_sealed, cell, writer, reader, frozen>>

NBytes == (Capacity + W - 1) \div W
Bit    == {"set", "clear", "uninit"}

(* Logical bit length of a cursor, and the bits of the byte it points at.  *)
Bits(t)     == t.index * W + t.filled
LastByte(t) == t.index * W .. t.index * W + W - 1

(* "live" while an Arc exists; "freed" with its elements when the last one *)
(* drops; "moved" when freeze handed the allocation to a Vec64.            *)
CellState == {"live", "moved", "freed"}

(* Where the writer is: between calls, in a push ("write" a slot, "store"  *)
(* a fresh mask byte, "clear" a bit, "publish" the cursor, publish "len"), *)
(* in a seal ("finalise", "seal_mask"), in freeze ("freeze", "unwrap",     *)
(* "copy"), about to drop its Arcs ("release"), or gone.                   *)
WriterPc == {"idle", "write", "store", "clear", "publish", "len", "finalise",
             "seal_mask", "freeze", "unwrap", "copy", "release", "gone"}

(* A batch of `total` elements, of which `wrote` are in their slots and    *)
(* `masked` in the mask; valid is FALSE for nulls.  next: after a seal.    *)
Idle == [pc |-> "idle", total |-> 0, wrote |-> 0, masked |-> 0,
         valid |-> TRUE, next |-> "idle"]

(* A reader is a live view (an LBufferV with, for a masked buffer, the     *)
(* Bitmask beside it) or a window onto values or onto mask bits.           *)
ReaderKind == {"none", "view", "window", "bitmask_window"}

Holds(kind) == {c \in {"value", "mask"} :
                   \/ kind = "view" /\ (c = "mask" => MASK)
                   \/ kind = "window" /\ c = "value"
                   \/ kind = "bitmask_window" /\ c = "mask"}

(* pc counts the loads of one look through a view, in the order an array   *)
(* takes them: sealed, len, then mask_state's cursor and mask sealed flag. *)
(* upto: the mask bits in the whole bytes a bitmask window covers.         *)
Nothing == [kind |-> "none", pc |-> "sealed", sealed |-> FALSE, n |-> 0,
            tail |-> [index |-> 0, filled |-> 0], mask_sealed |-> FALSE, upto |-> 0]

Cursor == [index : Nat, filled : 0 .. W - 1]

WriterState == [pc : WriterPc, total : Nat, wrote : Nat, masked : Nat,
                valid : BOOLEAN, next : {"idle", "freeze", "release"}]
ReaderState == [kind : ReaderKind, pc : {"sealed", "len", "tail", "flag", "done"},
                sealed : BOOLEAN, n : Nat, tail : Cursor, mask_sealed : BOOLEAN,
                upto : Nat]

TypeOK ==
    /\ base \in [0 .. Capacity - 1 -> Elem \cup {Unwritten}]
    /\ len \in 0 .. Capacity
    /\ sealed \in BOOLEAN
    /\ bits \in [0 .. NBytes * W - 1 -> Bit]
    /\ tail \in Cursor
    /\ mask_sealed \in BOOLEAN
    /\ cell \in [value : CellState, mask : CellState]
    /\ writer \in WriterState
    /\ reader \in [Reader -> ReaderState]
    /\ frozen \subseteq [0 .. len - 1 -> Elem]

(* with_capacity, or with_capacity_masked when MASK: neither initialises   *)
(* what it allocates.                                                      *)
Init ==
    /\ base = [i \in 0 .. Capacity - 1 |-> Unwritten]
    /\ len = 0
    /\ sealed = FALSE
    /\ bits = [b \in 0 .. NBytes * W - 1 |-> "uninit"]
    /\ tail = [index |-> 0, filled |-> 0]
    /\ mask_sealed = FALSE
    /\ cell = [value |-> "live", mask |-> IF MASK THEN "live" ELSE "freed"]
    /\ writer = Idle
    /\ reader = [r \in Reader |-> Nothing]
    /\ frozen = {}

-----------------------------------------------------------------------------
(* The writer: push, push_null, push_nulls, push_slice                     *)

\* Mutant: a push that does not look at the sealed flag.
BeginUnsealed(total, valid) ==
    /\ writer.pc = "idle"
    /\ len + total <= Capacity
    /\ writer' = [Idle EXCEPT !.pc = "write", !.total = total, !.valid = valid]
    /\ UNCHANGED <<value_cell, mask_cell, cell, reader, frozen>>

(* A call that the sealed flag, the capacity or MASK rejects changes       *)
(* nothing.  An accepted one has a whole batch to write.                   *)
Begin(total, valid) ==
    /\ writer.pc = "idle"
    /\ ~sealed
    /\ len + total <= Capacity
    /\ writer' = [Idle EXCEPT !.pc = "write", !.total = total, !.valid = valid]
    /\ UNCHANGED <<value_cell, mask_cell, cell, reader, frozen>>

Push             == Begin(1, TRUE)
PushSlice(count) == Begin(count, TRUE)
PushNulls(count) == MASK /\ Begin(count, FALSE)

\* Mutants: a byte that is never, or always, refreshed.
AdvanceNeverFresh(valid)  == IF valid THEN "publish" ELSE "clear"
AdvanceAlwaysFresh(valid) == "store"

(* advance_mask begins with a fresh byte, a bit to clear, or neither.      *)
Advance(valid) == IF tail.filled = 0 THEN "store"
                  ELSE IF valid THEN "publish" ELSE "clear"

\* Mutant: the length is published without moving the mask.
AfterWriteUnmasked == IF writer.wrote + 1 < writer.total THEN "write" ELSE "len"

(* Values are copied in before the mask moves; nulls are written and       *)
(* masked one by one.                                                      *)
AfterWrite == IF MASK /\ (writer.wrote + 1 = writer.total \/ ~writer.valid)
              THEN Advance(writer.valid)
              ELSE IF writer.wrote + 1 < writer.total THEN "write" ELSE "len"

WriteSlot ==
    /\ writer.pc = "write"
    /\ \E e \in Elem :
          /\ ~writer.valid => e = Default
          /\ base' = [base EXCEPT ![len + writer.wrote] = e]
    /\ writer' = [writer EXCEPT !.wrote = @ + 1, !.pc = AfterWrite]
    /\ UNCHANGED <<len, sealed, mask_cell, cell, reader, frozen>>

(* advance_mask: a fresh byte is stored all set.                           *)
StoreByte ==
    /\ writer.pc = "store"
    /\ bits' = [b \in DOMAIN bits |-> IF b \in LastByte(tail) THEN "set" ELSE bits[b]]
    /\ writer' = [writer EXCEPT !.pc = IF writer.valid THEN "publish" ELSE "clear"]
    /\ UNCHANGED <<value_cell, tail, mask_sealed, cell, reader, frozen>>

\* Mutant: the bit of the row before this one.
PreviousRowBit == IF tail.filled > 0 THEN Bits(tail) - 1 ELSE Bits(tail)

(* advance_mask: the row's bit.                                            *)
RowBit == Bits(tail)

ClearBit ==
    /\ writer.pc = "clear"
    /\ bits' = [bits EXCEPT ![RowBit] = "clear"]
    /\ writer' = [writer EXCEPT !.pc = "publish"]
    /\ UNCHANGED <<value_cell, tail, mask_sealed, cell, reader, frozen>>

\* Mutant: the cursor moves to the next byte one bit too late.
NextTailLate(t) == IF t.filled = W THEN [index |-> t.index + 1, filled |-> 0]
                                   ELSE [t EXCEPT !.filled = @ + 1]

(* advance_mask: the cursor moves on, to the next byte when this is full.  *)
NextTail(t) == IF t.filled + 1 = W THEN [index |-> t.index + 1, filled |-> 0]
                                   ELSE [t EXCEPT !.filled = @ + 1]

PublishTail ==
    /\ writer.pc = "publish"
    /\ tail' = NextTail(tail)
    /\ writer' = [writer EXCEPT
          !.masked = @ + 1,
          !.pc = IF writer.masked + 1 = writer.total THEN "len"
                 ELSE IF ~writer.valid THEN "write"
                 ELSE IF NextTail(tail).filled = 0 THEN "store" ELSE "publish"]
    /\ UNCHANGED <<value_cell, bits, mask_sealed, cell, reader, frozen>>

(* One Release store publishes the batch.                                  *)
PublishLen ==
    /\ writer.pc = "len"
    /\ len' = len + writer.total
    /\ writer' = Idle
    /\ UNCHANGED <<base, sealed, mask_cell, cell, reader, frozen>>

-----------------------------------------------------------------------------
(* The writer: seal, drop and freeze                                       *)

\* Mutant: the mask flag never goes up.
BeginSealValueOnly(next) ==
    /\ writer.pc = "idle"
    /\ sealed' = TRUE
    /\ writer' = [Idle EXCEPT !.pc = next, !.next = next]
    /\ UNCHANGED <<base, len, mask_cell, cell, reader, frozen>>

(* seal, and the seal inside drop and freeze: value flag, then padding,    *)
(* then mask flag.                                                         *)
BeginSeal(next) ==
    /\ writer.pc = "idle"
    /\ sealed' = TRUE
    /\ writer' = [Idle EXCEPT !.pc = IF MASK THEN "finalise" ELSE next, !.next = next]
    /\ UNCHANGED <<base, len, mask_cell, cell, reader, frozen>>

Seal == BeginSeal("idle")
Drop == BeginSeal("release")
FreezeSealing == ~sealed /\ BeginSeal("freeze")

FreezeSealed ==
    /\ writer.pc = "idle" /\ sealed
    /\ writer' = [Idle EXCEPT !.pc = "freeze"]
    /\ UNCHANGED <<value_cell, mask_cell, cell, reader, frozen>>

\* Mutant: one padding bit too many is kept.
KeptOneMore(b) == b <= Bits(tail)

(* The bits finalise_mask_byte keeps in a partly filled last byte.         *)
Kept(b) == b < Bits(tail)

FinaliseMaskByte ==
    /\ writer.pc = "finalise"
    /\ bits' = [b \in DOMAIN bits |->
                   IF tail.filled > 0 /\ b \in LastByte(tail) /\ ~Kept(b)
                   THEN "clear" ELSE bits[b]]
    /\ writer' = [writer EXCEPT !.pc = "seal_mask"]
    /\ UNCHANGED <<value_cell, tail, mask_sealed, cell, reader, frozen>>

SealMask ==
    /\ writer.pc = "seal_mask"
    /\ mask_sealed' = TRUE
    /\ writer' = [Idle EXCEPT !.pc = writer.next]
    /\ UNCHANGED <<value_cell, bits, tail, cell, reader, frozen>>

Holders(c) == {r \in Reader : c \in Holds(reader[r].kind)}

(* freeze lets the mask's Arc go before the value cell's.                  *)
WriterHolds(c) == /\ writer.pc # "gone"
                  /\ writer.pc \in {"unwrap", "copy"} => c = "value"

(* The state of a cell once the writer's Arc on it is dropped.             *)
WithoutWriter(c) == IF Holders(c) = {} /\ cell[c] = "live" THEN "freed" ELSE cell[c]

\* Mutant: freeze does not look for views.
AssumeSole == TRUE

(* Is the writer's the only Arc on the value cell?                         *)
SoleOwner == Holders("value") = {}

(* freeze: the null mask is not part of the returned buffer.               *)
DropMaskArc ==
    /\ writer.pc = "freeze"
    /\ cell' = [cell EXCEPT !.mask = WithoutWriter("mask")]
    /\ writer' = [writer EXCEPT !.pc = "unwrap"]
    /\ UNCHANGED <<value_cell, mask_cell, reader, frozen>>

(* freeze: Arc::try_unwrap.  A sole owner moves the allocation out.        *)
Unwrap ==
    /\ writer.pc = "unwrap"
    /\ IF SoleOwner
       THEN /\ cell' = [cell EXCEPT !.value = "moved"]
            /\ frozen' = {[i \in 0 .. len - 1 |-> base[i]]}
            /\ writer' = [writer EXCEPT !.pc = "gone"]
       ELSE /\ writer' = [writer EXCEPT !.pc = "copy"]
            /\ UNCHANGED <<cell, frozen>>
    /\ UNCHANGED <<value_cell, mask_cell, reader>>

(* freeze: views share the cell, so copy its elements and drop the Arc.    *)
CopyOut ==
    /\ writer.pc = "copy"
    /\ frozen' = {[i \in 0 .. len - 1 |-> base[i]]}
    /\ cell' = [cell EXCEPT !.value = WithoutWriter("value")]
    /\ writer' = [writer EXCEPT !.pc = "gone"]
    /\ UNCHANGED <<value_cell, mask_cell, reader>>

(* The end of drop: both Arcs go.                                          *)
ReleaseCells ==
    /\ writer.pc = "release"
    /\ cell' = [value |-> WithoutWriter("value"), mask |-> WithoutWriter("mask")]
    /\ writer' = [Idle EXCEPT !.pc = "gone"]
    /\ UNCHANGED <<value_cell, mask_cell, reader, frozen>>

-----------------------------------------------------------------------------
(* Readers: obtaining and releasing a share of a cell                      *)

Share(r, seen) ==
    /\ reader[r].kind = "none"
    /\ reader' = [reader EXCEPT ![r] = seen]
    /\ UNCHANGED <<value_cell, mask_cell, cell, writer, frozen>>

(* view or as_buffer, with as_bitmask beside it for a masked buffer: the   *)
(* share an array takes.  They borrow the LBuffer, so no push is running.  *)
View(r) ==
    /\ writer.pc = "idle"
    /\ Share(r, [Nothing EXCEPT !.kind = "view"])

(* window(offset, len), by its end.                                        *)
Window(r, end) ==
    /\ writer.pc = "idle"
    /\ end <= len
    /\ Share(r, [Nothing EXCEPT !.kind = "window", !.n = end])

(* The bits bitmask_window may share.                                      *)
FinalBits == IF mask_sealed THEN Bits(tail) ELSE tail.index * W

(* bitmask_window(offset, len), by its end: shares whole bytes.            *)
BitmaskWindow(r, end) ==
    /\ MASK
    /\ writer.pc = "idle"
    /\ end <= FinalBits
    /\ Share(r, [Nothing EXCEPT !.kind = "bitmask_window",
                                !.upto = ((end + W - 1) \div W) * W])

(* Clone of a view, a buffer, a bitmask or a window, at any time.          *)
CloneView(r, s) ==
    /\ reader[r].kind # "none"
    /\ Share(s, reader[r])

(* A share is dropped; the last one out frees the cell and its elements.   *)
Release(r) ==
    /\ reader[r].kind # "none"
    /\ reader' = [reader EXCEPT ![r] = Nothing]
    /\ cell' = [c \in {"value", "mask"} |->
                   IF Holders(c) = {r} /\ ~WriterHolds(c) /\ cell[c] = "live"
                   THEN "freed" ELSE cell[c]]
    /\ UNCHANGED <<value_cell, mask_cell, writer, frozen>>

-----------------------------------------------------------------------------
(* Readers: one look at the buffer, one load at a time                     *)

Load(r, pc, seen) ==
    /\ reader[r].kind = "view"
    /\ reader[r].pc = pc
    /\ reader' = [reader EXCEPT ![r] = seen]
    /\ UNCHANGED <<value_cell, mask_cell, cell, writer, frozen>>

LoadSealed(r) ==      \* LBufferV::is_sealed
    Load(r, "sealed", [reader[r] EXCEPT !.pc = "len", !.sealed = sealed])

LoadLen(r) ==         \* LBufferV::len, and the load inside get and as_slice
    Load(r, "len", [reader[r] EXCEPT !.pc = IF MASK THEN "tail" ELSE "done", !.n = len])

LoadTail(r) ==        \* LBufferV::mask_state, the cursor
    Load(r, "tail", [reader[r] EXCEPT !.pc = "flag", !.tail = tail])

LoadMaskSealed(r) ==  \* LBufferV::mask_state, the flag
    Load(r, "flag", [reader[r] EXCEPT !.pc = "done", !.mask_sealed = mask_sealed])

LookAgain(r) ==
    Load(r, "done", [Nothing EXCEPT !.kind = "view"])

-----------------------------------------------------------------------------
BeginCall ==
    \/ Push
    \/ \E count \in 1 .. Capacity : PushSlice(count) \/ PushNulls(count)
    \/ Seal
    \/ Drop
    \/ FreezeSealing
    \/ FreezeSealed

(* The steps a call takes once it has begun.                               *)
InCall ==
    \/ WriteSlot \/ StoreByte \/ ClearBit \/ PublishTail \/ PublishLen
    \/ FinaliseMaskByte \/ SealMask
    \/ DropMaskArc \/ Unwrap \/ CopyOut \/ ReleaseCells

ReaderStep(r) ==
    \/ View(r)
    \/ \E end \in 0 .. Capacity : Window(r, end) \/ BitmaskWindow(r, end)
    \/ \E s \in Reader : CloneView(r, s)
    \/ Release(r)
    \/ LoadSealed(r) \/ LoadLen(r) \/ LoadTail(r) \/ LoadMaskSealed(r)
    \/ LookAgain(r)

Next == BeginCall \/ InCall \/ \E r \in Reader : ReaderStep(r)

Spec == Init /\ [][Next]_vars

(* A call runs to completion: nothing in it waits for another thread.      *)
FairSpec == Spec /\ WF_vars(InCall)

-----------------------------------------------------------------------------
(* Properties                                                              *)

(* The log an LBuffer is, as its readers decode it from the two cells.     *)
Published == 0 .. len - 1
Rows == [i \in Published |-> [val |-> base[i], valid |-> MASK => bits[i] = "set"]]

Log == INSTANCE AppendLog WITH rows <- Rows, closed <- sealed

(* The buffer is an append-only log: no push, batch, null, seal, drop or   *)
(* freeze ever changes, or exposes half of, a published row's value or     *)
(* validity, and nothing is published after the seal.                      *)
ImplementsLog == Log!Spec

(* A length loaded from the values is covered by any cursor loaded after   *)
(* it: the order in which a push publishes its two halves.                 *)
MaskCoversValues ==
    \A r \in Reader : reader[r].pc \in {"flag", "done"} /\ MASK
        => reader[r].n <= Bits(reader[r].tail)

(* Every row that a length or a cursor admits a reader to was written, in  *)
(* both halves, since the allocations were uninitialised memory.           *)
AdmittedIsWritten ==
    /\ \A i \in Published : base[i] \in Elem
    /\ MASK => \A b \in 0 .. Bits(tail) - 1 : bits[b] # "uninit"

(* is_sealed: once sealed, the published length is final.                  *)
SealedLengthIsFinal ==
    \A r \in Reader : reader[r].sealed /\ reader[r].pc # "len" => reader[r].n = len

(* The bytes below a loaded cursor, and the filled bits of the byte it     *)
(* points at, are never written with anything else while the reader uses   *)
(* them; nor is a whole byte that a bitmask window covers; nor any byte of *)
(* a sealed mask cell.                                                     *)
KeepsBelowCursor(r) == \A b \in 0 .. Bits(reader[r].tail) - 1 : bits'[b] = bits[b]
KeepsWindow(r) == \A b \in 0 .. reader[r].upto - 1 : bits'[b] = bits[b]

SharedBytesAreFinal ==
    [][/\ \A r \in Reader : KeepsBelowCursor(r) /\ KeepsWindow(r)
       /\ mask_sealed => UNCHANGED <<bits, tail>>]_vars

(* The padding above the last row of a sealed mask is clear, as Arrow      *)
(* requires.                                                               *)
SealedPaddingIsClear ==
    mask_sealed /\ tail.filled > 0
        => \A b \in LastByte(tail) : b >= Bits(tail) => bits[b] = "clear"

(* A cell outlives every view, bitmask and window on it: freeze moves the  *)
(* allocation out only when nobody shares it; and when the last Arc on a   *)
(* cell is gone the cell was freed or moved.                               *)
SharesKeepCells ==
    \A c \in {"value", "mask"} :
        /\ Holders(c) # {} => cell[c] = "live"
        /\ Holders(c) = {} /\ ~WriterHolds(c) => cell[c] # "live"

(* A seal the writer began reaches the mask readers' flag.                 *)
SealReachesMask == MASK => (sealed ~> mask_sealed)
=============================================================================
