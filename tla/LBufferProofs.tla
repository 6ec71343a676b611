--------------------------- MODULE LBufferProofs ---------------------------
(***************************************************************************)
(* Proofs about LBuffer for every capacity, byte width, element set and    *)
(* set of readers, masked or not: that what is published is written, that  *)
(* the mask covers the values, and that the buffer implements AppendLog.   *)
(***************************************************************************)
EXTENDS LBuffer, TLAPS

USE ElemAssumption, CapacityAssumption, WidthAssumption, MaskAssumption

InPush  == {"write", "store", "clear", "publish", "len"}
Masking == {"store", "clear", "publish"}
AfterSeal == {"finalise", "seal_mask", "freeze", "unwrap", "copy", "release", "gone"}

(* A batch in progress fits, and its slots are written one by one.         *)
BatchOK ==
    /\ writer.pc \in InPush => /\ ~sealed
                               /\ len + writer.total <= Capacity
                               /\ writer.wrote <= writer.total
    /\ writer.pc = "write" => writer.wrote < writer.total
    /\ writer.pc = "len" => writer.wrote = writer.total
    /\ writer.pc \notin InPush => writer.wrote = 0 /\ writer.masked = 0

(* The cursor runs ahead of the published length by the rows of the batch  *)
(* that the mask already has, and a fresh byte is stored only when the one *)
(* before it is full.                                                      *)
MaskOK ==
    /\ MASK => Bits(tail) = len + writer.masked
    /\ writer.pc \in Masking => /\ MASK
                                /\ writer.masked < writer.wrote
                                /\ writer.valid => writer.wrote = writer.total
                                /\ ~writer.valid => writer.wrote = writer.masked + 1
    /\ writer.pc = "write" /\ ~writer.valid /\ MASK => writer.masked = writer.wrote
    /\ writer.pc = "write" /\ writer.valid => writer.masked = 0
    /\ writer.pc = "len" /\ MASK => writer.masked = writer.total
    /\ writer.pc = "store" => tail.filled = 0

(* Only a sealed buffer is frozen, released or gone.                       *)
SealOK ==
    /\ writer.pc \in AfterSeal => sealed
    /\ frozen # {} => writer.pc = "gone"

(* What a view has loaded is not ahead of what is published, and a length  *)
(* loaded after a raised flag is the last one.                             *)
ReaderOK ==
    \A r \in Reader :
        /\ reader[r].n <= len
        /\ reader[r].pc = "sealed" => ~reader[r].sealed
        /\ reader[r].sealed => sealed
        /\ reader[r].sealed /\ reader[r].pc # "len" => reader[r].n = len

(* Slots and bits up to where the writer is have been written: the bits of *)
(* the whole last byte, once it is in use.                                 *)
SlotsWritten == \A i \in 0 .. len + writer.wrote - 1 : base[i] \in Elem

BitsWritten ==
    MASK => /\ \A b \in 0 .. Bits(tail) - 1 : bits[b] # "uninit"
            /\ tail.filled > 0 \/ writer.pc \in {"clear", "publish"}
                 => \A b \in LastByte(tail) : b \in DOMAIN bits => bits[b] # "uninit"

Inv ==
    /\ TypeOK
    /\ BatchOK
    /\ MaskOK
    /\ SealOK
    /\ ReaderOK
    /\ MaskCoversValues
    /\ SlotsWritten
    /\ BitsWritten

-----------------------------------------------------------------------------
(* Arithmetic of packed cursors                                            *)

(* Division by the width of a mask byte.                                 *)
LEMMA DivType ==
    ASSUME NEW x \in Nat
    PROVE  x \div W \in Nat /\ (x \div W) * W \in Nat /\ x < (x \div W) * W + W
  <1>1. x \div W \in Nat
    OBVIOUS
  <1>2. (x \div W) * W \in Nat
    BY <1>1
  <1> QED
    BY <1>1, <1>2

(* The mask allocation has a bit for every element.                        *)
LEMMA MaskIsLargeEnough == Capacity <= NBytes * W /\ NBytes * W \in Nat
  <1>1. Capacity + W - 1 \in Nat
    OBVIOUS
  <1> QED
    BY <1>1, DivType DEF NBytes

(* A cursor counts whole bytes and less than one more.                   *)
LEMMA TailBits ==
    ASSUME NEW t \in Cursor
    PROVE  /\ t.index * W \in Nat
           /\ Bits(t) \in Nat
           /\ t.index * W <= Bits(t)
           /\ Bits(t) <= t.index * W + W - 1
           /\ t.filled = 0 => Bits(t) = t.index * W
  <1>1. t.index \in Nat /\ t.filled \in 0 .. W - 1
    BY DEF Cursor
  <1>2. t.index * W \in Nat
    BY <1>1
  <1> QED
    BY <1>1, <1>2 DEF Bits

(* Advancing the cursor adds one bit and keeps it normalised.              *)
LEMMA NextTailBits ==
    ASSUME NEW t \in Cursor
    PROVE  /\ NextTail(t) \in Cursor
           /\ Bits(NextTail(t)) = Bits(t) + 1
           /\ NextTail(t).filled > 0 => NextTail(t).index = t.index
  <1>1. t.index \in Nat /\ t.filled \in 0 .. W - 1
    BY DEF Cursor
  <1>2. (t.index + 1) * W = t.index * W + W /\ t.index * W \in Nat
    BY <1>1
  <1>3. CASE t.filled + 1 = W
    <2>1. NextTail(t) = [index |-> t.index + 1, filled |-> 0]
      BY <1>3 DEF NextTail
    <2> QED
      BY <1>1, <1>2, <1>3, <2>1 DEF Cursor, Bits
  <1>4. CASE t.filled + 1 # W
    <2>1. /\ NextTail(t) \in Cursor
          /\ NextTail(t).index = t.index /\ NextTail(t).filled = t.filled + 1
      BY <1>1, <1>4 DEF NextTail, Cursor
    <2> QED
      BY <1>1, <1>2, <2>1 DEF Bits
  <1> QED
    BY <1>3, <1>4

-----------------------------------------------------------------------------
(* The new buffer satisfies the invariant.                               *)
LEMMA InitInv == Init => Inv
  <1> SUFFICES ASSUME Init PROVE Inv
    OBVIOUS
  <1>0. NBytes * W \in Nat
    BY MaskIsLargeEnough
  <1>1. /\ tail \in Cursor /\ Bits(tail) = 0
        /\ \A r \in Reader : reader[r] = Nothing
    BY DEF Init, Cursor, Bits
  <1>2. TypeOK
    <2>1. Nothing \in ReaderState
      BY DEF Nothing, ReaderKind, Cursor, ReaderState
    <2>2. Idle \in WriterState
      BY DEF Idle, WriterPc, WriterState
    <2>3. bits \in [0 .. NBytes * W - 1 -> Bit]
      BY DEF Init, Bit
    <2>4. cell \in [value : CellState, mask : CellState]
      BY DEF Init, CellState
    <2>5. base \in [0 .. Capacity - 1 -> Elem \cup {Unwritten}]
      BY DEF Init
    <2>7. len \in 0 .. Capacity
      BY DEF Init
    <2>8. sealed \in BOOLEAN /\ mask_sealed \in BOOLEAN
      BY DEF Init
    <2>6. /\ writer \in WriterState /\ reader \in [Reader -> ReaderState]
          /\ frozen \subseteq [0 .. len - 1 -> Elem]
      BY <2>1, <2>2 DEF Init
    <2> QED
      BY <1>1, <2>3, <2>4, <2>5, <2>6, <2>7, <2>8 DEF TypeOK
  <1>3. BatchOK /\ MaskOK /\ SealOK
    BY <1>1 DEF Init, Idle, BatchOK, MaskOK, SealOK, InPush, Masking, AfterSeal
  <1>4. ReaderOK /\ MaskCoversValues
    BY <1>1 DEF Init, Nothing, ReaderOK, MaskCoversValues
  <1>5. SlotsWritten /\ BitsWritten
    BY <1>1 DEF Init, Idle, SlotsWritten, BitsWritten
  <1> QED
    BY <1>2, <1>3, <1>4, <1>5 DEF Inv

-----------------------------------------------------------------------------
(* Writer steps                                                            *)

(* Readers stand where they stood when the length grows on an open buffer. *)
LEMMA ReadersKept ==
    ASSUME Inv, UNCHANGED reader,
           \/ len' = len /\ (sealed => sealed')
           \/ ~sealed /\ len' \in Nat /\ len <= len' /\ sealed' = sealed
    PROVE  ReaderOK' /\ MaskCoversValues'
  <1>1. len \in Nat /\ reader \in [Reader -> ReaderState] /\ sealed \in BOOLEAN
    BY DEF Inv, TypeOK
  <1>2. \A r \in Reader : reader[r].n \in Nat
    BY <1>1 DEF ReaderState
  <1>3. ReaderOK'
    BY <1>1, <1>2 DEF Inv, ReaderOK
  <1>4. MaskCoversValues'
    BY DEF Inv, MaskCoversValues, Bits
  <1> QED
    BY <1>3, <1>4

(* The shape of the writer's state.                                        *)
LEMMA WriterShape ==
    ASSUME Inv
    PROVE  /\ writer.pc \in WriterPc /\ writer.valid \in BOOLEAN
           /\ writer.total \in Nat /\ writer.wrote \in Nat /\ writer.masked \in Nat
           /\ writer.next \in {"idle", "freeze", "release"}
           /\ len \in Nat /\ len <= Capacity /\ tail \in Cursor
           /\ DOMAIN base = 0 .. Capacity - 1 /\ DOMAIN bits = 0 .. NBytes * W - 1
  BY DEF Inv, TypeOK, WriterState

(* The updates of the writer's record keep its type.                     *)
LEMMA WriterUpdate ==
    ASSUME Inv, NEW pc \in WriterPc, NEW k \in Nat
    PROVE  /\ [writer EXCEPT !.wrote = k, !.pc = pc] \in WriterState
           /\ [writer EXCEPT !.masked = k, !.pc = pc] \in WriterState
           /\ [writer EXCEPT !.pc = pc] \in WriterState
           /\ [Idle EXCEPT !.pc = pc] \in WriterState
  BY DEF Inv, TypeOK, WriterState, Idle

(* A batch that fits may begin.                                          *)
LEMMA BeginInv ==
    ASSUME Inv, NEW total \in 1 .. Capacity, NEW valid \in BOOLEAN, ~valid => MASK,
           Begin(total, valid)
    PROVE  Inv'
  <1> USE WriterShape DEF Begin, value_cell, mask_cell
  <1>1. /\ writer'.pc = "write" /\ writer'.total = total /\ writer'.valid = valid
        /\ writer'.wrote = 0 /\ writer'.masked = 0 /\ writer'.next = "idle"
        /\ writer' \in WriterState
    <2>1. writer' = [pc |-> "write", total |-> total, wrote |-> 0, masked |-> 0,
                     valid |-> valid, next |-> "idle"]
      BY DEF Idle
    <2> QED
      BY ONLY <2>1, total \in 1 .. Capacity, valid \in BOOLEAN, CapacityAssumption
         DEF WriterState, WriterPc
  <1>2. writer.wrote = 0 /\ writer.masked = 0
    BY DEF Inv, BatchOK, InPush
  <1>3. TypeOK'
    BY <1>1 DEF Inv, TypeOK, Cursor, ReaderState
  <1>4. BatchOK'
    BY <1>1 DEF BatchOK, InPush
  <1>5. MaskOK'
    BY <1>1, <1>2 DEF Inv, MaskOK, InPush, Masking, Bits
  <1>6. SealOK'
    BY <1>1 DEF Inv, SealOK, AfterSeal
  <1>7. ReaderOK' /\ MaskCoversValues'
    BY ReadersKept
  <1>8. SlotsWritten' /\ BitsWritten'
    BY <1>1, <1>2 DEF Inv, SlotsWritten, BitsWritten, Bits, LastByte
  <1> QED
    BY <1>3, <1>4, <1>5, <1>6, <1>7, <1>8 DEF Inv

(* A slot past the published length is written.                          *)
LEMMA WriteSlotInv ==
    ASSUME Inv, WriteSlot
    PROVE  Inv'
  <1> USE WriterShape DEF WriteSlot, value_cell, mask_cell
  <1>1. /\ writer'.wrote = writer.wrote + 1 /\ writer'.total = writer.total
        /\ writer'.masked = writer.masked /\ writer'.valid = writer.valid
        /\ writer'.next = writer.next /\ writer'.pc = AfterWrite
    BY DEF Inv, TypeOK, WriterState
  <1>2. /\ ~sealed /\ len + writer.total <= Capacity /\ writer.wrote < writer.total
    BY DEF Inv, BatchOK, InPush
  <1>3. /\ AfterWrite \in {"write", "store", "clear", "publish", "len"}
        /\ AfterWrite = "write" => writer.wrote + 1 < writer.total /\ (writer.valid \/ ~MASK)
        /\ AfterWrite = "len" => writer.wrote + 1 = writer.total /\ ~MASK
        /\ AfterWrite = "store" => tail.filled = 0
        /\ AfterWrite \in {"clear", "publish"} => tail.filled # 0
        /\ AfterWrite \in Masking => MASK /\ (writer.wrote + 1 = writer.total \/ ~writer.valid)
    BY <1>2 DEF AfterWrite, Advance, Masking
  <1>4. \E e \in Elem : base' = [base EXCEPT ![len + writer.wrote] = e]
    OBVIOUS
  <1>5. TypeOK'
    <2>1. writer' \in WriterState
      <3>1. AfterWrite \in WriterPc /\ writer.wrote + 1 \in Nat
        BY <1>3 DEF WriterPc
      <3> QED
        BY <3>1, WriterUpdate
    <2>2. base' \in [0 .. Capacity - 1 -> Elem \cup {Unwritten}]
      BY <1>4 DEF Inv, TypeOK
    <2> QED
      BY <2>1, <2>2 DEF Inv, TypeOK, Cursor, ReaderState
  <1>6. BatchOK'
    BY <1>1, <1>2, <1>3 DEF BatchOK, InPush
  <1>7. MaskOK'
    BY <1>1, <1>2, <1>3 DEF Inv, MaskOK, InPush, Masking, Bits
  <1>8. SealOK'
    BY <1>1, <1>3 DEF Inv, SealOK, AfterSeal
  <1>9. ReaderOK' /\ MaskCoversValues'
    BY ReadersKept
  <1>10. SlotsWritten'
    <2>1. ASSUME NEW i \in 0 .. len + writer.wrote PROVE base'[i] \in Elem
      <3>0. len \in Nat /\ writer.wrote \in Nat /\ writer.total \in Nat
        OBVIOUS
      <3>1. i \in 0 .. Capacity - 1 /\ (i = len + writer.wrote \/ i \in 0 .. len + writer.wrote - 1)
        BY ONLY <1>2, <3>0, i \in 0 .. len + writer.wrote, CapacityAssumption
      <3> QED
        BY <3>1, <1>4 DEF Inv, SlotsWritten
    <2> QED
      BY <2>1, <1>1 DEF SlotsWritten
  <1>11. BitsWritten'
    BY <1>1, <1>3 DEF Inv, BitsWritten, Bits, LastByte, Cursor
  <1> QED
    BY <1>5, <1>6, <1>7, <1>8, <1>9, <1>10, <1>11 DEF Inv

(* Storing a fresh byte writes nothing below the cursor.                   *)
LEMMA StoreByteInv ==
    ASSUME Inv, StoreByte
    PROVE  Inv'
  <1> USE WriterShape DEF StoreByte, value_cell, mask_cell
  <1>1. /\ writer'.wrote = writer.wrote /\ writer'.total = writer.total
        /\ writer'.masked = writer.masked /\ writer'.valid = writer.valid
        /\ writer'.next = writer.next /\ writer'.pc \in {"publish", "clear"}
    BY DEF Inv, TypeOK, WriterState
  <1>2. TypeOK'
    <2>1. writer' \in WriterState
      BY <1>1 DEF Inv, TypeOK, WriterState, WriterPc
    <2>2. bits' \in [0 .. NBytes * W - 1 -> Bit]
      BY DEF Inv, TypeOK, Bit
    <2> QED
      BY <2>1, <2>2 DEF Inv, TypeOK, Cursor, ReaderState
  <1>3. BatchOK'
    BY <1>1 DEF Inv, BatchOK, InPush
  <1>4. MaskOK'
    BY <1>1 DEF Inv, MaskOK, InPush, Masking, Bits
  <1>5. SealOK'
    BY <1>1 DEF Inv, SealOK, AfterSeal
  <1>6. ReaderOK' /\ MaskCoversValues'
    BY ReadersKept
  <1>7. SlotsWritten'
    BY <1>1 DEF Inv, SlotsWritten
  <1>8. BitsWritten'
    <2>1. \A b \in DOMAIN bits : bits[b] # "uninit" => bits'[b] # "uninit"
      OBVIOUS
    <2>2. \A b \in LastByte(tail) : b \in DOMAIN bits => bits'[b] = "set"
      OBVIOUS
    <2>3. /\ MASK => Bits(tail) <= Capacity
      BY DEF Inv, MaskOK, BatchOK, InPush, Masking
    <2>4. \A b \in 0 .. Bits(tail) - 1 : MASK => b \in DOMAIN bits
      BY <2>3, TailBits, MaskIsLargeEnough
    <2>5. DOMAIN bits' = DOMAIN bits /\ tail' = tail
      OBVIOUS
    <2> QED
      BY <2>1, <2>2, <2>4, <2>5 DEF Inv, BitsWritten, Bits, LastByte
  <1> QED
    BY <1>2, <1>3, <1>4, <1>5, <1>6, <1>7, <1>8 DEF Inv

(* Clearing a bit past the cursor disturbs no reader.                    *)
LEMMA ClearBitInv ==
    ASSUME Inv, ClearBit
    PROVE  Inv'
  <1> USE WriterShape DEF ClearBit, value_cell, mask_cell
  <1>1. /\ writer'.wrote = writer.wrote /\ writer'.total = writer.total
        /\ writer'.masked = writer.masked /\ writer'.valid = writer.valid
        /\ writer'.next = writer.next /\ writer'.pc = "publish"
    BY DEF Inv, TypeOK, WriterState
  <1>2. TypeOK'
    <2>1. writer' \in WriterState
      BY <1>1 DEF Inv, TypeOK, WriterState, WriterPc
    <2>2. bits' \in [0 .. NBytes * W - 1 -> Bit]
      BY DEF Inv, TypeOK, Bit
    <2> QED
      BY <2>1, <2>2 DEF Inv, TypeOK, Cursor, ReaderState
  <1>3. BatchOK'
    BY <1>1 DEF Inv, BatchOK, InPush
  <1>4. MaskOK'
    BY <1>1 DEF Inv, MaskOK, InPush, Masking, Bits
  <1>5. SealOK'
    BY <1>1 DEF Inv, SealOK, AfterSeal
  <1>6. ReaderOK' /\ MaskCoversValues'
    BY ReadersKept
  <1>7. SlotsWritten'
    BY <1>1 DEF Inv, SlotsWritten
  <1>8. BitsWritten'
    <2>1. \A b : bits[b] # "uninit" /\ b \in DOMAIN bits => bits'[b] # "uninit"
      OBVIOUS
    <2>3. /\ MASK => Bits(tail) <= Capacity
      BY DEF Inv, MaskOK, BatchOK, InPush, Masking
    <2>4. \A b \in 0 .. Bits(tail) - 1 : MASK => b \in DOMAIN bits
      BY <2>3, TailBits, MaskIsLargeEnough
    <2>5. DOMAIN bits' = DOMAIN bits /\ tail' = tail
      BY DEF Inv, TypeOK
    <2> QED
      BY <2>1, <2>4, <2>5 DEF Inv, BitsWritten, Bits, LastByte
  <1> QED
    BY <1>2, <1>3, <1>4, <1>5, <1>6, <1>7, <1>8 DEF Inv

(* The cursor moves on over a bit that was written.                      *)
LEMMA PublishTailInv ==
    ASSUME Inv, PublishTail
    PROVE  Inv'
  <1> USE WriterShape DEF PublishTail, value_cell, mask_cell
  <1>1. /\ writer'.wrote = writer.wrote /\ writer'.total = writer.total
        /\ writer'.masked = writer.masked + 1 /\ writer'.valid = writer.valid
        /\ writer'.next = writer.next
        /\ writer'.pc = IF writer.masked + 1 = writer.total THEN "len"
                 ELSE IF ~writer.valid THEN "write"
                 ELSE IF NextTail(tail).filled = 0 THEN "store" ELSE "publish"
    BY DEF Inv, TypeOK, WriterState
  <1>2. /\ MASK /\ ~sealed /\ len + writer.total <= Capacity /\ writer.wrote <= writer.total
        /\ writer.masked < writer.wrote /\ Bits(tail) = len + writer.masked
        /\ writer.valid => writer.wrote = writer.total
        /\ ~writer.valid => writer.wrote = writer.masked + 1
    BY DEF Inv, BatchOK, MaskOK, InPush, Masking
  <1>3. /\ tail' \in Cursor /\ Bits(tail)' = Bits(tail) + 1
        /\ tail'.filled > 0 => tail'.index = tail.index
    BY NextTailBits DEF Bits
  <1>4. TypeOK'
    <2>1. writer' \in WriterState
      <3>1. writer'.pc \in WriterPc /\ writer.masked + 1 \in Nat
        BY <1>1 DEF WriterPc
      <3>2. writer' = [writer EXCEPT !.masked = writer.masked + 1, !.pc = writer'.pc]
        BY <1>1
      <3> QED
        BY <3>1, <3>2, WriterUpdate
    <2> QED
      BY <2>1, <1>3 DEF Inv, TypeOK, ReaderState
  <1>5. BatchOK'
    BY <1>1, <1>2 DEF BatchOK, InPush
  <1>6. MaskOK'
    BY <1>1, <1>2, <1>3 DEF MaskOK, InPush, Masking
  <1>7. SealOK'
    BY <1>1 DEF Inv, SealOK, AfterSeal
  <1>8. ReaderOK' /\ MaskCoversValues'
    BY ReadersKept
  <1>9. SlotsWritten'
    BY <1>1 DEF Inv, SlotsWritten
  <1>10. BitsWritten'
    <2>1. \A b \in LastByte(tail) : b \in DOMAIN bits => bits[b] # "uninit"
      BY <1>2 DEF Inv, BitsWritten
    <2>2. Bits(tail) \in LastByte(tail) /\ Bits(tail) \in DOMAIN bits
      BY <1>2, TailBits, MaskIsLargeEnough DEF LastByte
    <2>3. bits[Bits(tail)] # "uninit"
      BY <2>1, <2>2
    <2>4. \A b \in 0 .. Bits(tail)' - 1 : bits'[b] # "uninit"
      <3>1. \A b \in 0 .. Bits(tail) - 1 : bits[b] # "uninit"
        BY <1>2 DEF Inv, BitsWritten
      <3>2. Bits(tail) \in Nat
        BY <1>2, TailBits
      <3>3. bits' = bits
        OBVIOUS
      <3> QED
        BY ONLY <1>3, <2>3, <3>1, <3>2, <3>3
    <2>5. tail'.filled > 0 => LastByte(tail)' = LastByte(tail)
      BY <1>3 DEF LastByte
    <2>6. writer'.pc \in {"clear", "publish"} => tail'.filled > 0
      BY <1>1, <1>3 DEF Cursor
    <2> QED
      BY <2>1, <2>4, <2>5, <2>6 DEF BitsWritten
  <1> QED
    BY <1>4, <1>5, <1>6, <1>7, <1>8, <1>9, <1>10 DEF Inv

(* The length is published when mask and slots are ready.                *)
LEMMA PublishLenInv ==
    ASSUME Inv, PublishLen
    PROVE  Inv'
  <1> USE WriterShape DEF PublishLen, value_cell, mask_cell
  <1>1. /\ writer'.wrote = 0 /\ writer'.total = 0 /\ writer'.masked = 0
        /\ writer'.pc = "idle" /\ writer' \in WriterState
    BY DEF Idle, WriterState, WriterPc
  <1>2. /\ ~sealed /\ len + writer.total <= Capacity /\ writer.wrote = writer.total
        /\ MASK => writer.masked = writer.total
        /\ frozen = {}
    BY DEF Inv, BatchOK, MaskOK, InPush, SealOK
  <1>3. len' = len + writer.total /\ len' \in 0 .. Capacity
    BY <1>2
  <1>4. TypeOK'
    BY <1>1, <1>2, <1>3 DEF Inv, TypeOK, Cursor, ReaderState
  <1>5. BatchOK'
    BY <1>1 DEF BatchOK, InPush
  <1>6. MaskOK'
    BY <1>1, <1>2, <1>3 DEF Inv, MaskOK, InPush, Masking, Bits
  <1>7. SealOK'
    BY <1>1, <1>2 DEF SealOK, AfterSeal
  <1>8. ReaderOK' /\ MaskCoversValues'
    BY <1>2, <1>3, ReadersKept
  <1>9. SlotsWritten'
    BY <1>1, <1>2, <1>3 DEF Inv, SlotsWritten
  <1>10. BitsWritten'
    BY <1>1 DEF Inv, BitsWritten, Bits, LastByte
  <1> QED
    BY <1>4, <1>5, <1>6, <1>7, <1>8, <1>9, <1>10 DEF Inv

(* Steps that only move the writer between calls and through seal, drop    *)
(* and freeze: no slot, length or cursor changes.                          *)
LEMMA QuietStep ==
    ASSUME Inv, writer.pc \notin InPush,
           writer' \in WriterState, writer'.pc \notin InPush,
           writer'.wrote = 0, writer'.masked = 0,
           UNCHANGED <<base, len, tail, reader>>,
           bits' \in [0 .. NBytes * W - 1 -> Bit],
           \A b \in DOMAIN bits : bits[b] # "uninit" => bits'[b] # "uninit",
           mask_sealed' \in BOOLEAN, cell' \in [value : CellState, mask : CellState],
           sealed => sealed', sealed' \in BOOLEAN,
           writer'.pc \in AfterSeal => sealed',
           \/ frozen' = frozen /\ (writer.pc = "gone" => writer'.pc = "gone")
           \/ writer'.pc = "gone" /\ frozen' \subseteq [0 .. len - 1 -> Elem]
    PROVE  Inv'
  <1> USE WriterShape
  <1>0. writer.wrote = 0 /\ writer.masked = 0
    BY DEF Inv, BatchOK
  <1>1. TypeOK'
    BY DEF Inv, TypeOK, ReaderState, Cursor
  <1>2. BatchOK'
    BY DEF BatchOK, InPush
  <1>3. MaskOK'
    BY <1>0 DEF Inv, MaskOK, InPush, Masking, Bits
  <1>4. SealOK'
    BY DEF Inv, SealOK, AfterSeal
  <1>5. ReaderOK' /\ MaskCoversValues'
    BY ReadersKept
  <1>6. SlotsWritten'
    BY <1>0 DEF Inv, SlotsWritten
  <1>7. BitsWritten'
    <2>1. MASK => Bits(tail) <= Capacity
      BY <1>0 DEF Inv, MaskOK
    <2>2. \A b \in 0 .. Bits(tail) - 1 : MASK => b \in DOMAIN bits
      BY <2>1, TailBits, MaskIsLargeEnough
    <2>3. DOMAIN bits' = DOMAIN bits
      OBVIOUS
    <2>4. writer'.pc \notin {"clear", "publish"}
      BY DEF InPush
    <2> QED
      BY <2>2, <2>3, <2>4 DEF Inv, BitsWritten, Bits, LastByte
  <1> QED
    BY <1>1, <1>2, <1>3, <1>4, <1>5, <1>6, <1>7 DEF Inv

(* The bits of a step that leaves the mask alone.                          *)
LEMMA BitsKept ==
    ASSUME Inv, bits' = bits
    PROVE  /\ bits' \in [0 .. NBytes * W - 1 -> Bit]
           /\ \A b \in DOMAIN bits : bits[b] # "uninit" => bits'[b] # "uninit"
  BY DEF Inv, TypeOK

(* Raising the sealed flag between pushes.                               *)
LEMMA BeginSealInv ==
    ASSUME Inv, NEW next \in {"idle", "freeze", "release"}, BeginSeal(next)
    PROVE  Inv'
  <1>1. /\ writer'.pc \in {"finalise", next} /\ writer'.wrote = 0 /\ writer'.masked = 0
    BY DEF BeginSeal, Idle
  <1>2. writer' \in WriterState
    BY DEF BeginSeal, Idle, WriterState, WriterPc
  <1>3. UNCHANGED <<base, len, bits, tail, mask_sealed, cell, reader, frozen>> /\ sealed' = TRUE
    BY DEF BeginSeal, mask_cell
  <1>4. writer.pc = "idle"
    BY DEF BeginSeal
  <1>5. mask_sealed' \in BOOLEAN /\ cell' \in [value : CellState, mask : CellState]
    BY <1>3 DEF Inv, TypeOK
  <1>6. writer'.pc \notin InPush /\ writer.pc \notin InPush
    BY <1>1, <1>4 DEF InPush
  <1> QED
    BY <1>1, <1>2, <1>3, <1>4, <1>5, <1>6, BitsKept, QuietStep

(* Freezing a buffer that was sealed before.                             *)
LEMMA FreezeSealedInv ==
    ASSUME Inv, FreezeSealed
    PROVE  Inv'
  <1>1. /\ writer'.pc = "freeze" /\ writer'.wrote = 0 /\ writer'.masked = 0
        /\ writer' \in WriterState
    BY DEF FreezeSealed, Idle, WriterState, WriterPc
  <1>2. /\ UNCHANGED <<base, len, sealed, bits, tail, mask_sealed, cell, reader, frozen>>
        /\ writer.pc = "idle" /\ sealed
    BY DEF FreezeSealed, value_cell, mask_cell
  <1>3. /\ mask_sealed' \in BOOLEAN /\ cell' \in [value : CellState, mask : CellState]
        /\ sealed' \in BOOLEAN
    BY <1>2 DEF Inv, TypeOK
  <1>4. writer'.pc \notin InPush /\ writer.pc \notin InPush
    BY <1>1, <1>2 DEF InPush
  <1> QED
    BY <1>1, <1>2, <1>3, <1>4, BitsKept, QuietStep

(* Clearing the padding leaves the bits of rows alone.                   *)
LEMMA FinaliseInv ==
    ASSUME Inv, FinaliseMaskByte
    PROVE  Inv'
  <1>1. /\ writer'.pc = "seal_mask" /\ writer'.wrote = writer.wrote
        /\ writer'.masked = writer.masked /\ writer' = [writer EXCEPT !.pc = "seal_mask"]
    BY DEF FinaliseMaskByte, Inv, TypeOK, WriterState
  <1>2. /\ UNCHANGED <<base, len, sealed, tail, mask_sealed, cell, reader, frozen>>
        /\ writer.pc = "finalise"
    BY DEF FinaliseMaskByte, value_cell
  <1>3. /\ mask_sealed' \in BOOLEAN /\ cell' \in [value : CellState, mask : CellState]
        /\ sealed' \in BOOLEAN
    BY <1>2 DEF Inv, TypeOK
  <1>4. writer'.pc \notin InPush /\ writer.pc \notin InPush
    BY <1>1, <1>2 DEF InPush
  <1>5. writer' \in WriterState
    BY <1>1, WriterUpdate, 0 \in Nat DEF WriterPc
  <1>6. writer.wrote = 0 /\ writer.masked = 0 /\ sealed
    BY <1>2, <1>4 DEF Inv, BatchOK, SealOK, AfterSeal
  <1>7. /\ bits' \in [0 .. NBytes * W - 1 -> Bit]
        /\ \A b \in DOMAIN bits : bits[b] # "uninit" => bits'[b] # "uninit"
    BY DEF FinaliseMaskByte, Inv, TypeOK, Bit
  <1> QED
    BY <1>1, <1>2, <1>3, <1>4, <1>5, <1>6, <1>7, QuietStep

(* Raising the mask's sealed flag.                                       *)
LEMMA SealMaskInv ==
    ASSUME Inv, SealMask
    PROVE  Inv'
  <1>1. /\ writer'.pc = writer.next /\ writer'.wrote = 0 /\ writer'.masked = 0
        /\ writer' = [Idle EXCEPT !.pc = writer.next]
    BY DEF SealMask, Idle
  <1>2. /\ UNCHANGED <<base, len, sealed, bits, tail, cell, reader, frozen>>
        /\ writer.pc = "seal_mask" /\ mask_sealed' = TRUE
    BY DEF SealMask, value_cell
  <1>3. writer.next \in {"idle", "freeze", "release"}
    BY WriterShape
  <1>4. /\ cell' \in [value : CellState, mask : CellState] /\ sealed' \in BOOLEAN
    BY <1>2 DEF Inv, TypeOK
  <1>5. writer'.pc \notin InPush /\ writer.pc \notin InPush
    BY <1>1, <1>2, <1>3 DEF InPush
  <1>6. writer' \in WriterState
    BY <1>1, <1>3, WriterUpdate, 0 \in Nat DEF WriterPc
  <1>7. sealed
    BY <1>2 DEF Inv, SealOK, AfterSeal
  <1> QED
    BY <1>1, <1>2, <1>4, <1>5, <1>6, <1>7, BitsKept, QuietStep

(* The elements freeze hands out are published, hence written.             *)
LEMMA FrozenType ==
    ASSUME Inv
    PROVE  [i \in 0 .. len - 1 |-> base[i]] \in [0 .. len - 1 -> Elem]
  <1>1. ASSUME NEW i \in 0 .. len - 1 PROVE base[i] \in Elem
    <2>1. i \in 0 .. len + writer.wrote - 1
      BY WriterShape
    <2> QED
      BY <2>1 DEF Inv, SlotsWritten
  <1> QED
    BY <1>1

(* Freezing and dropping write nothing a reader reads.                   *)
LEMMA EndOfLifeInv ==
    ASSUME Inv, DropMaskArc \/ Unwrap \/ CopyOut \/ ReleaseCells
    PROVE  Inv'
  <1>1. /\ UNCHANGED <<base, len, sealed, bits, tail, mask_sealed, reader>>
        /\ writer.pc \in {"freeze", "unwrap", "copy", "release"}
    BY DEF DropMaskArc, Unwrap, CopyOut, ReleaseCells, value_cell, mask_cell
  <1>2. sealed /\ writer.wrote = 0 /\ writer.masked = 0 /\ writer.pc \notin InPush
    BY <1>1 DEF Inv, SealOK, AfterSeal, BatchOK, InPush
  <1>3. /\ \E pc \in {"unwrap", "copy", "gone"} :
               \/ writer' = [writer EXCEPT !.pc = pc]
               \/ writer' = [Idle EXCEPT !.pc = pc]
    BY DEF DropMaskArc, Unwrap, CopyOut, ReleaseCells
  <1>4. writer' \in WriterState
    BY <1>3, WriterUpdate, 0 \in Nat DEF WriterPc
  <1>5. /\ writer'.pc \in {"unwrap", "copy", "gone"} /\ writer'.wrote = 0 /\ writer'.masked = 0
    BY <1>2, <1>3 DEF Inv, TypeOK, WriterState, Idle
  <1>6. cell' \in [value : CellState, mask : CellState]
    <2>1. \A c \in {"value", "mask"} : WithoutWriter(c) \in CellState
      BY DEF WithoutWriter, Inv, TypeOK, CellState
    <2>2. "moved" \in CellState /\ cell \in [value : CellState, mask : CellState]
      BY DEF CellState, Inv, TypeOK
    <2> HIDE DEF WithoutWriter
    <2> QED
      BY <2>1, <2>2 DEF DropMaskArc, Unwrap, CopyOut, ReleaseCells
  <1>7. \/ frozen' = frozen
        \/ writer'.pc = "gone" /\ frozen' = {[i \in 0 .. len - 1 |-> base[i]]}
    BY DEF DropMaskArc, Unwrap, CopyOut, ReleaseCells, Inv, TypeOK, WriterState
  <1>8. sealed' \in BOOLEAN /\ mask_sealed' \in BOOLEAN /\ sealed'
    BY <1>1, <1>2 DEF Inv, TypeOK
  <1>9. writer'.pc \notin InPush
    BY <1>5 DEF InPush
  <1> QED
    BY <1>1, <1>2, <1>4, <1>5, <1>6, <1>7, <1>8, <1>9, FrozenType, BitsKept, QuietStep

-----------------------------------------------------------------------------
(* Reader steps change what readers hold and know, and who owns the cells. *)

(* What one reader may have loaded so far.                                 *)
KnowsNoMore(seen) ==
    /\ seen.n <= len
    /\ seen.pc = "sealed" => ~seen.sealed
    /\ seen.sealed => sealed
    /\ seen.sealed /\ seen.pc # "len" => seen.n = len
    /\ seen.pc \in {"flag", "done"} /\ MASK => seen.n <= Bits(seen.tail)

(* Readers change only what they have loaded.                            *)
LEMMA ReaderStepInv ==
    ASSUME Inv, NEW r \in Reader, ReaderStep(r)
    PROVE  Inv'
  <1> USE WriterShape
  <1>1. UNCHANGED <<base, len, sealed, bits, tail, mask_sealed, writer, frozen>>
    BY DEF ReaderStep, View, Window, BitmaskWindow, CloneView, Share, Release, LoadSealed,
       LoadLen, LoadTail, LoadMaskSealed, LookAgain, Load, value_cell, mask_cell
  <1>2. cell' \in [value : CellState, mask : CellState]
    <2>1. cell \in [value : CellState, mask : CellState] /\ "freed" \in CellState
      BY DEF Inv, TypeOK, CellState
    <2>2. CASE Release(r)
      BY <2>1, <2>2 DEF Release
    <2>3. CASE ~Release(r)
      BY <2>1, <2>3 DEF ReaderStep, View, Window, BitmaskWindow, CloneView, Share, LoadSealed,
         LoadLen, LoadTail, LoadMaskSealed, LookAgain, Load
    <2> QED
      BY <2>2, <2>3
  <1>3. ASSUME NEW k \in Reader PROVE KnowsNoMore(reader[k])
    BY DEF Inv, TypeOK, ReaderOK, MaskCoversValues, KnowsNoMore
  <1> DEFINE OneReaderMoves ==
        \E k \in Reader, seen \in ReaderState :
            KnowsNoMore(seen) /\ reader' = [reader EXCEPT ![k] = seen]
  <1>4. OneReaderMoves
    <2>1. KnowsNoMore(Nothing) /\ Nothing.n = 0 /\ Nothing.pc = "sealed" /\ Nothing \in ReaderState
      BY DEF KnowsNoMore, Nothing, ReaderState, ReaderKind, Cursor
    <2>2. reader[r] \in ReaderState /\ KnowsNoMore(reader[r])
      BY <1>3 DEF Inv, TypeOK
    <2>3. CASE View(r)
      <3>1. [Nothing EXCEPT !.kind = "view"] \in ReaderState
        BY <2>1 DEF ReaderState, ReaderKind
      <3>2. KnowsNoMore([Nothing EXCEPT !.kind = "view"])
        BY DEF KnowsNoMore, Nothing
      <3> QED
        BY <2>3, <3>1, <3>2 DEF View, Share
    <2>4. ASSUME NEW end \in 0 .. Capacity, Window(r, end)
          PROVE  OneReaderMoves
      <3> DEFINE seen == [Nothing EXCEPT !.kind = "window", !.n = end]
      <3>0. end \in Nat
        OBVIOUS
      <3>1. seen \in ReaderState
        BY <2>1, <3>0 DEF ReaderState, ReaderKind
      <3>2. KnowsNoMore(seen)
        BY <2>4 DEF KnowsNoMore, Nothing, Window
      <3> QED
        BY <2>4, <3>1, <3>2 DEF Window, Share
    <2>5. ASSUME NEW end \in 0 .. Capacity, BitmaskWindow(r, end)
          PROVE  OneReaderMoves
      <3> DEFINE bound == ((end + W - 1) \div W) * W
                 seen == [Nothing EXCEPT !.kind = "bitmask_window", !.upto = bound]
      <3>0. end + W - 1 \in Nat
        OBVIOUS
      <3>1. bound \in Nat
        BY <3>0, DivType
      <3>2. reader' = [reader EXCEPT ![r] = seen]
        BY <2>5 DEF BitmaskWindow, Share
      <3> HIDE DEF bound
      <3>3. seen \in ReaderState
        BY <2>1, <3>1 DEF ReaderState, ReaderKind
      <3>4. KnowsNoMore(seen)
        BY <3>1 DEF KnowsNoMore, Nothing
      <3> QED
        BY <3>2, <3>3, <3>4
    <2>6. ASSUME NEW k \in Reader, CloneView(r, k)
          PROVE  OneReaderMoves
      BY <2>2, <2>6 DEF CloneView, Share
    <2>7. CASE Release(r)
      BY <2>1, <2>7 DEF Release
    <2>8. CASE LoadSealed(r)
      <3> DEFINE seen == [reader[r] EXCEPT !.pc = "len", !.sealed = sealed]
      <3>1. seen \in ReaderState
        BY <2>2 DEF ReaderState, Inv, TypeOK
      <3>2. KnowsNoMore(seen)
        BY <2>2 DEF ReaderState, KnowsNoMore
      <3> QED
        BY <2>8, <3>1, <3>2 DEF LoadSealed, Load
    <2>9. CASE LoadLen(r)
      <3> DEFINE seen == [reader[r] EXCEPT !.pc = IF MASK THEN "tail" ELSE "done", !.n = len]
      <3>1. seen \in ReaderState
        BY <2>2 DEF ReaderState
      <3>2. KnowsNoMore(seen)
        BY <2>2 DEF ReaderState, KnowsNoMore
      <3> QED
        BY <2>9, <3>1, <3>2 DEF LoadLen, Load
    <2>10. CASE LoadTail(r)
      <3> DEFINE seen == [reader[r] EXCEPT !.pc = "flag", !.tail = tail]
      <3>1. seen \in ReaderState
        BY <2>2 DEF ReaderState
      <3>2. MASK => len <= Bits(tail)
        BY DEF Inv, MaskOK
      <3>3. reader[r].n \in Nat /\ Bits(tail) \in Nat /\ reader[r].pc = "tail"
        BY <2>2, <2>10, TailBits DEF ReaderState, LoadTail, Load
      <3>4. /\ seen.n = reader[r].n /\ seen.tail = tail /\ seen.pc = "flag"
            /\ seen.sealed = reader[r].sealed
        BY <2>2 DEF ReaderState
      <3> HIDE DEF seen
      <3>5. KnowsNoMore(seen)
        BY <2>2, <3>2, <3>3, <3>4 DEF KnowsNoMore
      <3> QED
        BY <2>10, <3>1, <3>5 DEF LoadTail, Load, seen
    <2>11. CASE LoadMaskSealed(r)
      <3> DEFINE seen == [reader[r] EXCEPT !.pc = "done", !.mask_sealed = mask_sealed]
      <3>1. seen \in ReaderState
        BY <2>2 DEF ReaderState, Inv, TypeOK
      <3>2. reader[r].pc = "flag"
        BY <2>11 DEF LoadMaskSealed, Load
      <3>3. /\ seen.n = reader[r].n /\ seen.tail = reader[r].tail /\ seen.pc = "done"
            /\ seen.sealed = reader[r].sealed
        BY <2>2 DEF ReaderState
      <3> HIDE DEF seen
      <3>4. KnowsNoMore(seen)
        BY <2>2, <3>2, <3>3 DEF KnowsNoMore
      <3> QED
        BY <2>11, <3>1, <3>4 DEF LoadMaskSealed, Load, seen
    <2>12. CASE LookAgain(r)
      <3>1. [Nothing EXCEPT !.kind = "view"] \in ReaderState
        BY <2>1 DEF ReaderState, ReaderKind
      <3>2. KnowsNoMore([Nothing EXCEPT !.kind = "view"])
        BY DEF KnowsNoMore, Nothing
      <3> QED
        BY <2>12, <3>1, <3>2 DEF LookAgain, Load
    <2> QED
      BY <2>3, <2>4, <2>5, <2>6, <2>7, <2>8, <2>9, <2>10, <2>11, <2>12 DEF ReaderStep
  <1>5. reader' \in [Reader -> ReaderState] /\ \A k \in Reader : KnowsNoMore(reader'[k])
    BY <1>3, <1>4 DEF Inv, TypeOK
  <1>6. TypeOK'
    BY <1>1, <1>2, <1>5 DEF Inv, TypeOK
  <1>7. ReaderOK' /\ MaskCoversValues'
    BY <1>1, <1>5 DEF KnowsNoMore, ReaderOK, MaskCoversValues, Bits
  <1>8. BatchOK' /\ MaskOK' /\ SealOK' /\ SlotsWritten' /\ BitsWritten'
    BY <1>1 DEF Inv, BatchOK, MaskOK, SealOK, SlotsWritten, BitsWritten, Bits, LastByte
  <1> QED
    BY <1>6, <1>7, <1>8 DEF Inv

-----------------------------------------------------------------------------
(* Every step keeps the invariant.                                       *)
LEMMA NextInv == Inv /\ [Next]_vars => Inv'
  <1> SUFFICES ASSUME Inv, [Next]_vars PROVE Inv'
    OBVIOUS
  <1>1. ASSUME BeginCall PROVE Inv'
    <2>1. CASE Push
      <3>1. Begin(1, TRUE)
        BY <2>1 DEF Push
      <3>2. 1 \in 1 .. Capacity
        OBVIOUS
      <3> QED
        BY <3>1, <3>2, BeginInv
    <2>2. ASSUME NEW count \in 1 .. Capacity, PushSlice(count) \/ PushNulls(count)
          PROVE  Inv'
      BY <2>2, BeginInv DEF PushSlice, PushNulls
    <2>3. CASE Seal \/ Drop \/ FreezeSealing
      BY <2>3, BeginSealInv DEF Seal, Drop, FreezeSealing
    <2> QED
      BY <1>1, <2>1, <2>2, <2>3, FreezeSealedInv DEF BeginCall
  <1>2. ASSUME InCall PROVE Inv'
    BY <1>2, WriteSlotInv, StoreByteInv, ClearBitInv, PublishTailInv, PublishLenInv,
       FinaliseInv, SealMaskInv, EndOfLifeInv DEF InCall
  <1>3. ASSUME NEW r \in Reader, ReaderStep(r) PROVE Inv'
    BY <1>3, ReaderStepInv
  <1>4. CASE UNCHANGED vars
    BY <1>4 DEF vars, Inv, TypeOK, BatchOK, MaskOK, SealOK, ReaderOK, MaskCoversValues,
       SlotsWritten, BitsWritten, Bits, LastByte
  <1> QED
    BY <1>1, <1>2, <1>3, <1>4 DEF Next

(* The invariant holds for ever.                                         *)
LEMMA Invariance == Spec => []Inv
  BY InitInv, NextInv, PTL DEF Spec

(* push, push_null, push_nulls and push_slice publish the mask before the  *)
(* values: a reader that loads the length first finds a validity bit for   *)
(* every row of it, whatever the writer does between its loads.            *)
THEOREM MaskAlwaysCovers == Spec => []MaskCoversValues
  <1>1. Inv => MaskCoversValues
    BY DEF Inv
  <1> QED
    BY <1>1, Invariance, PTL

(* Uninitialised memory is never admitted to a reader: every published     *)
(* slot and every mask bit below the cursor was written before.            *)
THEOREM AdmittedWasWritten == Spec => []AdmittedIsWritten
  <1>1. Inv => AdmittedIsWritten
    <2> SUFFICES ASSUME Inv PROVE AdmittedIsWritten
      OBVIOUS
    <2>1. ASSUME NEW i \in Published PROVE base[i] \in Elem
      <3>1. i \in 0 .. len + writer.wrote - 1
        BY WriterShape DEF Published
      <3> QED
        BY <3>1 DEF Inv, SlotsWritten
    <2> QED
      BY <2>1 DEF Inv, BitsWritten, AdmittedIsWritten
  <1> QED
    BY <1>1, Invariance, PTL

(* A reader that found the buffer sealed and then loaded the length loaded *)
(* the final one.                                                          *)
THEOREM SealedLengthFinal == Spec => []SealedLengthIsFinal
  <1>1. Inv => SealedLengthIsFinal
    BY DEF Inv, ReaderOK, SealedLengthIsFinal
  <1> QED
    BY <1>1, Invariance, PTL

-----------------------------------------------------------------------------
(* Refinement                                                              *)

(* A step that moves no length and disturbs nothing below it stutters.     *)
LEMMA RowsKept ==
    ASSUME len' = len, \A i \in Published : base'[i] = base[i],
           MASK => \A i \in Published : bits'[i] = bits[i]
    PROVE  Rows' = Rows
  BY DEF Rows, Published

(* Only the writer's steps inside a push write slots and bits, and all of  *)
(* them at or above the published length.                                  *)
LEMMA PublishedKept ==
    ASSUME Inv, [Next]_vars
    PROVE  /\ \A i \in Published : base'[i] = base[i]
           /\ MASK => \A i \in Published : bits'[i] = bits[i]
  <1> USE WriterShape
  <1>0. /\ Published \subseteq DOMAIN base
        /\ MASK => Published \subseteq 0 .. Bits(tail) - 1
        /\ Published \subseteq DOMAIN bits
    <2>1. MASK => len <= Bits(tail)
      BY DEF Inv, MaskOK
    <2> QED
      BY <2>1, TailBits, MaskIsLargeEnough DEF Published
  <1>1. CASE WriteSlot
    <2>1. \E e : base' = [base EXCEPT ![len + writer.wrote] = e]
      BY <1>1 DEF WriteSlot
    <2>2. \A i \in Published : i # len + writer.wrote
      BY DEF Published
    <2>3. bits' = bits
      BY <1>1 DEF WriteSlot, mask_cell
    <2> QED
      BY <2>1, <2>2, <2>3, <1>0
  <1>2. CASE StoreByte
    <2>1. /\ bits' = [b \in DOMAIN bits |-> IF b \in LastByte(tail) THEN "set" ELSE bits[b]]
          /\ base' = base /\ tail.filled = 0
      BY <1>2 DEF StoreByte, value_cell, Inv, MaskOK
    <2>2. \A b \in 0 .. Bits(tail) - 1 : b \notin LastByte(tail)
      BY <2>1, TailBits DEF LastByte
    <2> QED
      BY <2>1, <2>2, <1>0
  <1>3. CASE ClearBit
    <2>1. bits' = [bits EXCEPT ![Bits(tail)] = "clear"] /\ base' = base
      BY <1>3 DEF ClearBit, value_cell, RowBit
    <2>2. \A b \in 0 .. Bits(tail) - 1 : b # Bits(tail)
      BY TailBits
    <2> QED
      BY <2>1, <2>2, <1>0
  <1>4. CASE FinaliseMaskByte
    <2>1. /\ \A b \in DOMAIN bits : b < Bits(tail) => bits'[b] = bits[b]
          /\ base' = base
      BY <1>4 DEF FinaliseMaskByte, Kept, value_cell
    <2>2. \A b \in 0 .. Bits(tail) - 1 : b < Bits(tail)
      BY TailBits
    <2> QED
      BY <2>1, <2>2, <1>0
  <1>5. CASE UNCHANGED <<base, bits>>
    BY <1>5
  <1>6. ASSUME NEW r \in Reader, ReaderStep(r) PROVE UNCHANGED <<base, bits>>
    BY <1>6 DEF ReaderStep, View, Window, BitmaskWindow, CloneView, Share, Release, LoadSealed,
       LoadLen, LoadTail, LoadMaskSealed, LookAgain, Load, value_cell, mask_cell
  <1>7. ASSUME BeginCall PROVE UNCHANGED <<base, bits>>
    BY <1>7 DEF BeginCall, Push, PushSlice, PushNulls, Begin, Seal, Drop, FreezeSealing,
       FreezeSealed, BeginSeal, value_cell, mask_cell
  <1>8. ASSUME PublishTail \/ PublishLen \/ SealMask \/ DropMaskArc \/ Unwrap \/ CopyOut
               \/ ReleaseCells
        PROVE  UNCHANGED <<base, bits>>
    BY <1>8 DEF PublishTail, PublishLen, SealMask, DropMaskArc, Unwrap, CopyOut, ReleaseCells,
       value_cell, mask_cell
  <1> QED
    BY <1>1, <1>2, <1>3, <1>4, <1>5, <1>6, <1>7, <1>8 DEF Next, InCall, vars

(* The length moves in one step, and the sealed flag in another.           *)
LEMMA WhoPublishes ==
    ASSUME [Next]_vars, ~PublishLen
    PROVE  len' = len /\ (sealed' = sealed \/ sealed' = TRUE)
  <1>1. ASSUME NEW r \in Reader, ReaderStep(r) PROVE UNCHANGED <<len, sealed>>
    BY <1>1 DEF ReaderStep, View, Window, BitmaskWindow, CloneView, Share, Release, LoadSealed,
       LoadLen, LoadTail, LoadMaskSealed, LookAgain, Load, value_cell
  <1>2. ASSUME BeginCall PROVE len' = len /\ (sealed' = sealed \/ sealed' = TRUE)
    BY <1>2 DEF BeginCall, Push, PushSlice, PushNulls, Begin, Seal, Drop, FreezeSealing,
       FreezeSealed, BeginSeal, value_cell
  <1>3. ASSUME InCall PROVE UNCHANGED <<len, sealed>>
    BY <1>3 DEF InCall, WriteSlot, StoreByte, ClearBit, PublishTail, FinaliseMaskByte, SealMask,
       DropMaskArc, Unwrap, CopyOut, ReleaseCells, value_cell
  <1> QED
    BY <1>1, <1>2, <1>3 DEF Next, vars

(* The new buffer is the empty log.                                      *)
LEMMA LogInit == Init => Log!Init
  <1> SUFFICES ASSUME Init PROVE Log!Init
    OBVIOUS
  <1>1. Rows \in [0 .. -1 -> Log!Row]
    BY DEF Init, Rows, Published
  <1> QED
    BY <1>1 DEF Init, Log!Init

(* A push publishes slots that were all written.                         *)
LEMMA PublishedWritten ==
    ASSUME Inv, PublishLen PROVE \A i \in 0 .. len' - 1 : base'[i] \in Elem
  <1>1. writer.pc = "len" /\ len' = len + writer.total /\ base' = base
    BY DEF PublishLen
  <1>2. writer.wrote = writer.total
    BY <1>1 DEF Inv, BatchOK
  <1>3. \A i \in 0 .. len + writer.wrote - 1 : base[i] \in Elem
    BY DEF Inv, SlotsWritten
  <1>4. \A i \in 0 .. len + writer.total - 1 : base[i] \in Elem
    BY <1>2, <1>3
  <1>5. len \in Int /\ writer.total \in Int
    BY DEF Inv, TypeOK, WriterState
  <1> QED
    BY <1>1, <1>4, <1>5

(* Every step appends to the log, closes it, or is not seen.             *)
LEMMA LogStep ==
    Inv /\ [Next]_vars => [Log!Append \/ Log!Close]_<<Rows, sealed>>
  <1> SUFFICES ASSUME Inv, [Next]_vars PROVE [Log!Append \/ Log!Close]_<<Rows, sealed>>
    OBVIOUS
  <1>1. CASE ~PublishLen
    <2>1. Rows' = Rows /\ (sealed' = sealed \/ sealed' = TRUE)
      BY <1>1, WhoPublishes, PublishedKept, RowsKept
    <2> QED
      BY <2>1 DEF Log!Close
  <1>2. CASE PublishLen
    <2>1. Inv'
      BY NextInv
    <2>2. ~sealed /\ sealed' = sealed /\ len' \in 0 .. Capacity /\ len <= len' /\ len \in Nat
      BY <1>2, <2>1 DEF PublishLen, Inv, BatchOK, InPush, TypeOK, WriterState
    <2>3. Rows' \in Log!Logs
      <3>1. \A i \in 0 .. len' - 1 : base'[i] \in Elem
        BY <1>2, PublishedWritten
      <3>2. Rows' \in [0 .. len' - 1 -> Log!Row]
        BY <3>1 DEF Rows, Published, Log!Row
      <3> QED
        BY <2>2, <3>2 DEF Log!Logs
    <2>4. \A i \in DOMAIN Rows : i \in DOMAIN Rows' /\ Rows'[i] = Rows[i]
      BY <2>2, PublishedKept DEF Rows, Published
    <2> QED
      BY <2>2, <2>3, <2>4 DEF Log!Append
  <1> QED
    BY <1>1, <1>2

(* The buffer its readers decode from two cells, whatever they interleave  *)
(* with, is the append-only log of AppendLog: rows are added at the end    *)
(* while it is open, and no published value or validity bit ever changes.  *)
THEOREM Refinement == Spec => ImplementsLog
  <1>1. Log!Init /\ [][Log!Append \/ Log!Close]_<<Rows, sealed>> => Log!Spec
    BY DEF Log!Spec
  <1>2. Spec => Log!Init /\ [][Log!Append \/ Log!Close]_<<Rows, sealed>>
    BY LogInit, LogStep, Invariance, PTL DEF Spec
  <1> QED
    BY <1>1, <1>2 DEF ImplementsLog

-----------------------------------------------------------------------------
(* The sealed mask, and what readers share                                 *)

(* A mask is sealed after its buffer, and its padding is cleared first.    *)
SealedMaskOK ==
    /\ mask_sealed => MASK /\ sealed
    /\ writer.pc \in {"finalise", "seal_mask"} => MASK
    /\ (mask_sealed \/ writer.pc = "seal_mask") /\ tail.filled > 0
         => \A b \in LastByte(tail) : b >= Bits(tail) => bits[b] = "clear"

(* A loaded cursor is not ahead of the published one; a window on the bits *)
(* of an open mask ends before the byte being filled.                      *)
SharesNoMore(seen) ==
    /\ Bits(seen.tail) <= Bits(tail)
    /\ mask_sealed \/ seen.upto <= tail.index * W

SharesOK == \A r \in Reader : SharesNoMore(reader[r])

(* A cell is live while the writer or a reader holds it, and no longer.    *)
CellOK(c) ==
    /\ Holders(c) # {} => cell[c] = "live"
    /\ Holders(c) = {} /\ ~WriterHolds(c) => cell[c] # "live"
    /\ WriterHolds(c) /\ (c = "mask" => MASK) => cell[c] = "live"

CellsOK ==
    /\ \A c \in {"value", "mask"} : CellOK(c)
    /\ ~MASK => \A r \in Reader : reader[r].kind # "bitmask_window"

SharingInv == SealedMaskOK /\ SharesOK /\ CellsOK

(* Multiples of the width keep the order of their factors.                 *)
LEMMA MultiplesOrdered ==
    ASSUME NEW i \in Nat, NEW j \in Nat
    PROVE  /\ i <= j => i * W <= j * W
           /\ i * W < j * W => i + 1 <= j
  <1>1. ASSUME NEW k \in Nat, NEW l \in Nat, k <= l PROVE k * W <= l * W
    <2>1. PICK d \in Nat : l = k + d
      <3>1. l - k \in Nat /\ l = k + (l - k)
        BY <1>1
      <3> QED
        BY <3>1
    <2>2. (k + d) * W = k * W + d * W /\ d * W \in Nat /\ k * W \in Nat
      OBVIOUS
    <2> QED
      BY <2>1, <2>2
  <1>2. ASSUME i * W < j * W, ~(i + 1 <= j) PROVE FALSE
    <2>1. j * W <= i * W
      BY <1>1, <1>2
    <2>2. i * W \in Nat /\ j * W \in Nat
      OBVIOUS
    <2> QED
      BY <1>2, <2>1, <2>2
  <1> QED
    BY <1>1, <1>2

(* Whole bytes that cover bits of whole bytes are the same bytes.          *)
LEMMA RoundedUp ==
    ASSUME NEW end \in Nat, NEW k \in Nat, end <= k * W
    PROVE  ((end + W - 1) \div W) * W <= k * W
  <1> DEFINE x == end + W - 1
             q == x \div W
  <1>1. x \in Nat /\ q \in Nat /\ q * W \in Nat /\ k * W \in Nat
    BY DivType
  <1>2. q * W <= x
    BY <1>1
  <1>3. q * W < (k + 1) * W
    <2>1. (k + 1) * W = k * W + W
      OBVIOUS
    <2> QED
      BY <1>1, <1>2, <2>1
  <1> HIDE DEF q
  <1>4. q <= k
    <2>1. q + 1 <= k + 1
      BY <1>1, <1>3, MultiplesOrdered
    <2> QED
      BY <1>1, <2>1
  <1> QED
    BY <1>1, <1>4, MultiplesOrdered DEF q

(* The bits a cursor is about to publish lie in the allocation, with the   *)
(* rest of their byte, and so does the byte a push writes.                 *)
LEMMA MaskFits ==
    ASSUME Inv, MASK
    PROVE  /\ Bits(tail) <= Capacity
           /\ \A b \in 0 .. Bits(tail) - 1 : b \in DOMAIN bits
           /\ tail.filled > 0 => \A b \in LastByte(tail) : b \in DOMAIN bits
           /\ writer.pc \in Masking => \A b \in LastByte(tail) : b \in DOMAIN bits
  <1>0. /\ tail \in Cursor /\ DOMAIN bits = 0 .. NBytes * W - 1
        /\ len \in Nat /\ len <= Capacity /\ writer.masked \in Nat
        /\ writer.wrote \in Nat /\ writer.total \in Nat /\ writer.pc \in WriterPc
    BY WriterShape
  <1>1. Bits(tail) <= Capacity
    <2>1. Bits(tail) = len + writer.masked
      BY DEF Inv, MaskOK
    <2>2. CASE writer.pc \in InPush
      <3>1. len + writer.total <= Capacity /\ writer.wrote <= writer.total
        BY <2>2 DEF Inv, BatchOK
      <3>2. writer.masked <= writer.total
        <4>1. CASE writer.pc \in Masking
          BY <1>0, <3>1, <4>1 DEF Inv, MaskOK
        <4>2. CASE writer.pc = "write"
          BY <1>0, <3>1, <4>2 DEF Inv, MaskOK, TypeOK, WriterState
        <4>3. CASE writer.pc = "len"
          BY <1>0, <4>3 DEF Inv, MaskOK
        <4> QED
          BY <2>2, <4>1, <4>2, <4>3 DEF InPush, Masking
      <3> QED
        BY <1>0, <2>1, <3>1, <3>2
    <2>3. CASE writer.pc \notin InPush
      BY <1>0, <2>1, <2>3 DEF Inv, BatchOK
    <2> QED
      BY <2>2, <2>3
  <1>2. /\ Capacity <= NBytes * W /\ NBytes * W \in Nat /\ NBytes \in Nat
    <2>1. Capacity + W - 1 \in Nat
      OBVIOUS
    <2> QED
      BY <2>1, MaskIsLargeEnough, DivType DEF NBytes
  <1>3. tail.index \in Nat /\ tail.filled \in 0 .. W - 1 /\ tail.index * W \in Nat
        /\ Bits(tail) = tail.index * W + tail.filled
    BY <1>0, TailBits DEF Cursor, Bits
  <1>4. \A b \in 0 .. Bits(tail) - 1 : b \in DOMAIN bits
    BY <1>0, <1>1, <1>2, <1>3
  <1>6. writer.pc \in Masking => Bits(tail) < Capacity
    BY <1>0 DEF Inv, BatchOK, MaskOK, InPush, Masking
  <1>5. ASSUME tail.filled > 0 \/ writer.pc \in Masking, NEW b \in LastByte(tail) PROVE b \in DOMAIN bits
    <2> DEFINE i == tail.index
    <2>1. i * W < NBytes * W /\ b \in i * W .. i * W + W - 1
      <3>1. tail.index * W < Bits(tail) \/ Bits(tail) < Capacity
        BY <1>3, <1>5, <1>6
      <3> QED
        BY <1>1, <1>2, <1>3, <1>5, <3>1 DEF LastByte
    <2>2. i + 1 <= NBytes
      BY <1>2, <1>3, <2>1, MultiplesOrdered
    <2>3. (i + 1) * W <= NBytes * W /\ (i + 1) * W = i * W + W
      <3>1. i + 1 \in Nat /\ i \in Nat
        BY <1>3
      <3>2. (i + 1) * W <= NBytes * W
        BY <1>2, <2>2, <3>1, MultiplesOrdered
      <3> HIDE DEF i
      <3> QED
        BY <3>1, <3>2
    <2> HIDE DEF i
    <2> QED
      BY <1>0, <1>2, <1>3, <2>1, <2>3 DEF i
  <1> QED
    BY <1>1, <1>4, <1>5

(* The cursor counts no more rows than the buffer has room for, and the    *)
(* byte it points at, partly filled or about to be written by a push, is   *)
(* one of the mask's.                                                      *)
CursorInMask ==
    MASK => /\ Bits(tail) <= Capacity
            /\ tail.filled > 0 \/ writer.pc \in Masking => LastByte(tail) \subseteq DOMAIN bits

(* Cells, cursor, writer and readers keep their types, no length passes    *)
(* the capacity, no fill count reaches a whole byte, and the unchecked     *)
(* writes of advance_mask and finalise_mask_byte stay in the allocation,   *)
(* as their SAFETY comments say (lbuffer.rs:430-434, 604-606).             *)
THEOREM TypeCorrect == Spec => [](TypeOK /\ CursorInMask)
  <1>1. Inv => TypeOK /\ CursorInMask
    BY MaskFits DEF Inv, CursorInMask
  <1> QED
    BY <1>1, Invariance, PTL

(* The cursor only moves on, in a push, and a sealed mask stays sealed.    *)
LEMMA CursorMoves ==
    ASSUME Inv, [Next]_vars
    PROVE  /\ Bits(tail) <= Bits(tail') /\ tail.index * W <= tail'.index * W
           /\ mask_sealed => mask_sealed'
           /\ tail' # tail => PublishTail
  <1>1. tail \in Cursor
    BY WriterShape
  <1>2. CASE PublishTail
    <2>1. tail' = NextTail(tail) /\ mask_sealed' = mask_sealed
      BY <1>2 DEF PublishTail
    <2>2. Bits(tail') = Bits(tail) + 1 /\ Bits(tail) \in Nat
      BY <1>1, <2>1, NextTailBits, TailBits
    <2>3. tail.index \in Nat /\ (tail'.index = tail.index \/ tail'.index = tail.index + 1)
      BY <1>1, <2>1 DEF NextTail, Cursor
    <2>4. tail.index <= tail'.index /\ tail'.index \in Nat
      BY <2>3
    <2>5. tail.index * W <= tail'.index * W
      BY <2>3, <2>4, MultiplesOrdered
    <2> QED
      BY <1>2, <2>1, <2>2, <2>5
  <1>3. CASE ~PublishTail
    <2>1. UNCHANGED tail /\ (mask_sealed => mask_sealed')
      <3>1. ASSUME NEW r \in Reader, ReaderStep(r) PROVE UNCHANGED <<tail, mask_sealed>>
        BY <3>1 DEF ReaderStep, View, Window, BitmaskWindow, CloneView, Share, Release, LoadSealed,
           LoadLen, LoadTail, LoadMaskSealed, LookAgain, Load, mask_cell
      <3>2. ASSUME BeginCall PROVE UNCHANGED <<tail, mask_sealed>>
        BY <3>2 DEF BeginCall, Push, PushSlice, PushNulls, Begin, Seal, Drop, FreezeSealing,
           FreezeSealed, BeginSeal, mask_cell
      <3>3. ASSUME InCall PROVE UNCHANGED tail /\ (mask_sealed => mask_sealed')
        BY <1>3, <3>3 DEF InCall, WriteSlot, StoreByte, ClearBit, PublishLen, FinaliseMaskByte,
           SealMask, DropMaskArc, Unwrap, CopyOut, ReleaseCells, mask_cell
      <3>4. CASE UNCHANGED vars
        BY <3>4 DEF vars
      <3> QED
        BY <3>1, <3>2, <3>3, <3>4 DEF Next
    <2>2. Bits(tail) \in Nat /\ tail.index * W \in Nat
      BY <1>1, TailBits
    <2>3. Bits(tail') = Bits(tail)
      BY <2>1
    <2> QED
      BY <2>1, <2>2, <2>3
  <1> QED
    BY <1>2, <1>3

(* The new buffer shares nothing.                                          *)
LEMMA SharingInit == Init => SharingInv
  <1> SUFFICES ASSUME Init PROVE SharingInv
    OBVIOUS
  <1>1. SealedMaskOK
    BY DEF Init, Idle, SealedMaskOK
  <1>2. SharesOK
    <2>1. 0 * W = 0 /\ tail.index * W = 0
      BY DEF Init
    <2> QED
      BY <2>1 DEF Init, Nothing, SharesOK, SharesNoMore, Bits
  <1>3. CellsOK
    <2>1. \A c \in {"value", "mask"} : Holders(c) = {} /\ WriterHolds(c)
      BY DEF Init, Nothing, Idle, Holders, Holds, WriterHolds
    <2> QED
      BY <2>1 DEF Init, Nothing, CellsOK, CellOK
  <1> QED
    BY <1>1, <1>2, <1>3 DEF SharingInv

(* What the writer does before it lets go.                                 *)
Working == \/ BeginCall \/ WriteSlot \/ StoreByte \/ ClearBit \/ PublishTail \/ PublishLen
           \/ FinaliseMaskByte \/ SealMask

LEMMA WorkingKeeps ==
    ASSUME Inv, Working
    PROVE  /\ UNCHANGED <<cell, reader>>
           /\ writer.pc \notin {"unwrap", "copy", "gone"}
           /\ writer'.pc \notin {"unwrap", "copy", "gone"}
  <1>0. writer.next \in {"idle", "freeze", "release"} /\ writer \in WriterState
    BY WriterShape DEF Inv, TypeOK
  <1>1. CASE BeginCall
    BY <1>1 DEF BeginCall, Push, PushSlice, PushNulls, Begin, Seal, Drop, FreezeSealing,
       FreezeSealed, BeginSeal, Idle
  <1>2. CASE WriteSlot
    <2>1. writer'.pc = AfterWrite
      BY <1>0, <1>2 DEF WriteSlot, WriterState
    <2> QED
      BY <1>2, <2>1 DEF WriteSlot, AfterWrite, Advance
  <1>3. CASE StoreByte \/ ClearBit
    BY <1>0, <1>3 DEF StoreByte, ClearBit, WriterState
  <1>4. CASE PublishTail
    BY <1>0, <1>4 DEF PublishTail, WriterState
  <1>5. CASE PublishLen \/ FinaliseMaskByte \/ SealMask
    BY <1>0, <1>5 DEF PublishLen, FinaliseMaskByte, SealMask, WriterState, Idle
  <1> QED
    BY <1>1, <1>2, <1>3, <1>4, <1>5 DEF Working

(* While the writer works, the cells stay where they are.                  *)
LEMMA WorkingCells ==
    ASSUME Inv, SharingInv, Working PROVE CellsOK'
  <1>1. /\ UNCHANGED <<cell, reader>>
        /\ writer.pc \notin {"unwrap", "copy", "gone"}
        /\ writer'.pc \notin {"unwrap", "copy", "gone"}
    BY WorkingKeeps
  <1>2. \A c \in {"value", "mask"} : WriterHolds(c) /\ WriterHolds(c)' /\ Holders(c)' = Holders(c)
    BY <1>1 DEF WriterHolds, Holders
  <1> QED
    BY <1>1, <1>2 DEF SharingInv, CellsOK, CellOK

(* A push runs only while the buffer is open, and the bits of a sealed     *)
(* mask are cleared past the last row before its flag goes up.             *)
LEMMA SealedMaskKept ==
    ASSUME Inv, SharingInv, [Next]_vars PROVE SealedMaskOK'
  <1>0. SealedMaskOK /\ writer \in WriterState
    BY DEF SharingInv, Inv, TypeOK
  <1>1. ASSUME UNCHANGED <<bits, tail, mask_sealed>>, sealed => sealed',
               writer'.pc = "finalise" => MASK \/ writer.pc = "finalise",
               writer'.pc = "seal_mask" => writer.pc = "seal_mask"
        PROVE  SealedMaskOK'
    <2>1. Bits(tail') = Bits(tail) /\ LastByte(tail') = LastByte(tail)
      BY <1>1
    <2> QED
      BY <1>0, <1>1, <2>1 DEF SealedMaskOK
  <1>2. CASE UNCHANGED vars
    BY <1>1, <1>2 DEF vars
  <1>3. ASSUME NEW r \in Reader, ReaderStep(r) PROVE SealedMaskOK'
    <2>1. UNCHANGED <<sealed, bits, tail, mask_sealed, writer>>
      BY <1>3 DEF ReaderStep, View, Window, BitmaskWindow, CloneView, Share, Release, LoadSealed,
         LoadLen, LoadTail, LoadMaskSealed, LookAgain, Load, value_cell, mask_cell
    <2> QED
      BY <1>1, <2>1
  <1>4. CASE BeginCall
    <2>1. ASSUME NEW next \in {"idle", "release", "freeze"}, BeginSeal(next)
          PROVE  SealedMaskOK'
      <3>1. /\ UNCHANGED <<bits, tail, mask_sealed>> /\ sealed'
            /\ writer' = [Idle EXCEPT !.pc = IF MASK THEN "finalise" ELSE next, !.next = next]
        BY <2>1 DEF BeginSeal, mask_cell
      <3>2. writer'.pc = IF MASK THEN "finalise" ELSE next
        BY <3>1 DEF Idle
      <3>3. (writer'.pc = "finalise" => MASK) /\ writer'.pc # "seal_mask"
        BY <3>2
      <3> QED
        BY <1>1, <3>1, <3>3
    <2>2. ASSUME NEW total, NEW valid, Begin(total, valid) \/ FreezeSealed
          PROVE  SealedMaskOK'
      <3>1. /\ UNCHANGED <<sealed, bits, tail, mask_sealed>>
            /\ writer'.pc \in {"write", "freeze"}
        BY <2>2 DEF Begin, FreezeSealed, Idle, value_cell, mask_cell
      <3> QED
        BY <1>1, <3>1
    <2> QED
      BY <1>4, <2>1, <2>2 DEF BeginCall, Push, PushSlice, PushNulls, Seal, Drop, FreezeSealing
  <1>5. CASE WriteSlot \/ StoreByte \/ ClearBit \/ PublishTail \/ PublishLen
    <2>1. writer.pc \in InPush /\ UNCHANGED mask_sealed
      BY <1>5 DEF WriteSlot, StoreByte, ClearBit, PublishTail, PublishLen, InPush, mask_cell
    <2>2. ~sealed /\ ~mask_sealed
      BY <1>0, <2>1 DEF Inv, BatchOK, SealedMaskOK
    <2>3. writer'.pc \notin {"finalise", "seal_mask"}
      <3>1. CASE WriteSlot
        <4>1. writer'.pc = AfterWrite
          BY <1>0, <3>1 DEF WriteSlot, WriterState
        <4> QED
          BY <4>1 DEF AfterWrite, Advance
      <3>2. CASE StoreByte \/ ClearBit
        BY <1>0, <3>2 DEF StoreByte, ClearBit, WriterState
      <3>3. CASE PublishTail
        BY <1>0, <3>3 DEF PublishTail, WriterState
      <3>4. CASE PublishLen
        BY <3>4 DEF PublishLen, Idle
      <3> QED
        BY <1>5, <3>1, <3>2, <3>3, <3>4
    <2> QED
      BY <2>1, <2>2, <2>3 DEF SealedMaskOK
  <1>6. CASE FinaliseMaskByte
    <2>1. /\ writer.pc = "finalise" /\ writer'.pc = "seal_mask"
          /\ UNCHANGED <<sealed, tail, mask_sealed>>
          /\ bits' = [b \in DOMAIN bits |->
                        IF tail.filled > 0 /\ b \in LastByte(tail) /\ ~Kept(b)
                        THEN "clear" ELSE bits[b]]
      BY <1>0, <1>6 DEF FinaliseMaskByte, WriterState, value_cell
    <2>2. MASK
      BY <1>0, <2>1 DEF SealedMaskOK
    <2>3. ASSUME tail.filled > 0, NEW b \in LastByte(tail), b >= Bits(tail)
          PROVE  bits'[b] = "clear"
      <3>1. b \in DOMAIN bits
        BY <2>2, <2>3, MaskFits
      <3>2. ~Kept(b)
        <4>1. Bits(tail) \in Nat /\ b \in Int
          <5>1. tail \in Cursor
            BY WriterShape
          <5>2. tail.index * W \in Nat
            BY <5>1, TailBits
          <5> QED
            BY <5>1, <5>2, TailBits DEF LastByte
        <4> QED
          BY <2>3, <4>1 DEF Kept
      <3> QED
        BY <2>1, <2>3, <3>1, <3>2
    <2>4. Bits(tail') = Bits(tail) /\ LastByte(tail') = LastByte(tail)
      BY <2>1
    <2> QED
      BY <1>0, <2>1, <2>2, <2>3, <2>4 DEF SealedMaskOK
  <1>7. CASE SealMask
    <2>1. /\ writer.pc = "seal_mask" /\ writer'.pc = writer.next
          /\ UNCHANGED <<sealed, bits, tail>>
      BY <1>7 DEF SealMask, Idle, value_cell
    <2>2. MASK /\ sealed
      BY <1>0, <2>1 DEF SealedMaskOK, Inv, SealOK, AfterSeal
    <2>3. writer'.pc \notin {"finalise", "seal_mask"}
      BY <2>1, WriterShape
    <2>4. Bits(tail') = Bits(tail) /\ LastByte(tail') = LastByte(tail)
      BY <2>1
    <2> QED
      BY <1>0, <2>1, <2>2, <2>3, <2>4 DEF SealedMaskOK
  <1>8. CASE DropMaskArc \/ Unwrap \/ CopyOut \/ ReleaseCells
    <2>1. /\ UNCHANGED <<sealed, bits, tail, mask_sealed>>
          /\ writer'.pc \notin {"finalise", "seal_mask"}
      BY <1>0, <1>8 DEF DropMaskArc, Unwrap, CopyOut, ReleaseCells, WriterState, Idle,
         value_cell, mask_cell
    <2> QED
      BY <1>1, <2>1
  <1> QED
    BY <1>2, <1>3, <1>4, <1>5, <1>6, <1>7, <1>8 DEF Next, InCall

(* What a reader holds once it has taken a share, or taken another look.   *)
LEMMA ReaderSees ==
    ASSUME Inv, SharingInv, NEW r \in Reader, ReaderStep(r), NEW k \in Reader
    PROVE  SharesNoMore(reader'[k])
  <1>0. /\ reader \in [Reader -> ReaderState] /\ tail \in Cursor
        /\ \A s \in Reader : SharesNoMore(reader[s])
    BY WriterShape DEF Inv, TypeOK, SharingInv, SharesOK
  <1>1. /\ Bits(tail) \in Nat /\ tail.index * W \in Nat /\ tail.index \in Nat
        /\ tail.index * W <= Bits(tail)
    BY <1>0, TailBits DEF Cursor
  <1>2. ASSUME NEW s \in Reader, NEW seen, reader' = [reader EXCEPT ![s] = seen], SharesNoMore(seen)
        PROVE  SharesNoMore(reader'[k])
    <2>1. reader'[k] = IF k = s THEN seen ELSE reader[k]
      BY <1>0, <1>2
    <2> QED
      BY <1>0, <1>2, <2>1
  <1>3. ASSUME NEW seen, seen.tail = Nothing.tail, seen.upto = 0
        PROVE  SharesNoMore(seen)
    <2>1. 0 * W = 0 /\ Bits(Nothing.tail) = 0
      BY DEF Nothing, Bits
    <2>2. Bits(seen.tail) = 0
      BY <1>3, <2>1
    <2> QED
      BY <1>1, <1>3, <2>2 DEF SharesNoMore
  <1>4. CASE View(r) \/ LookAgain(r)
    <2>1. reader' = [reader EXCEPT ![r] = [Nothing EXCEPT !.kind = "view"]]
      BY <1>4 DEF View, LookAgain, Share, Load
    <2>2. /\ [Nothing EXCEPT !.kind = "view"].tail = Nothing.tail
          /\ [Nothing EXCEPT !.kind = "view"].upto = 0
      BY DEF Nothing
    <2> QED
      BY <1>2, <1>3, <2>1, <2>2
  <1>5. ASSUME NEW end \in 0 .. Capacity, Window(r, end) PROVE SharesNoMore(reader'[k])
    <2> DEFINE seen == [Nothing EXCEPT !.kind = "window", !.n = end]
    <2>1. reader' = [reader EXCEPT ![r] = seen]
      BY <1>5 DEF Window, Share
    <2>2. seen.tail = Nothing.tail /\ seen.upto = 0
      BY DEF Nothing
    <2> HIDE DEF seen
    <2> QED
      BY <1>2, <1>3, <2>1, <2>2
  <1>6. ASSUME NEW end \in 0 .. Capacity, BitmaskWindow(r, end) PROVE SharesNoMore(reader'[k])
    <2> DEFINE bound == ((end + W - 1) \div W) * W
               seen == [Nothing EXCEPT !.kind = "bitmask_window", !.upto = bound]
    <2>1. reader' = [reader EXCEPT ![r] = seen] /\ end <= FinalBits /\ end \in Nat
      BY <1>6 DEF BitmaskWindow, Share
    <2> HIDE DEF bound
    <2>2. seen.tail = Nothing.tail /\ seen.upto = bound
      BY DEF Nothing
    <2> HIDE DEF seen
    <2>3. mask_sealed \/ bound <= tail.index * W
      <3>1. ASSUME ~mask_sealed PROVE bound <= tail.index * W
        <4>1. end <= tail.index * W
          BY <2>1, <3>1 DEF FinalBits
        <4> QED
          BY <1>1, <2>1, <4>1, RoundedUp DEF bound
      <3> QED
        BY <3>1
    <2>4. Bits(Nothing.tail) = 0
      <3>1. 0 * W = 0
        OBVIOUS
      <3> QED
        BY <3>1 DEF Nothing, Bits
    <2>5. Bits(seen.tail) = 0
      BY <2>2, <2>4
    <2>6. SharesNoMore(seen)
      BY <1>1, <2>2, <2>3, <2>5 DEF SharesNoMore
    <2> QED
      BY <1>2, <2>1, <2>6
  <1>7. ASSUME NEW s \in Reader, CloneView(r, s) PROVE SharesNoMore(reader'[k])
    BY <1>0, <1>2, <1>7 DEF CloneView, Share
  <1>8. CASE Release(r)
    <2>1. reader' = [reader EXCEPT ![r] = Nothing] /\ Nothing.upto = 0
      BY <1>8 DEF Release, Nothing
    <2> QED
      BY <1>2, <1>3, <2>1
  <1>9. CASE LoadSealed(r) \/ LoadLen(r) \/ LoadMaskSealed(r)
    <2>1. PICK seen : /\ reader' = [reader EXCEPT ![r] = seen]
                      /\ seen.tail = reader[r].tail /\ seen.upto = reader[r].upto
      <3>1. reader[r] \in ReaderState
        BY <1>0
      <3> QED
        BY <1>9, <3>1 DEF LoadSealed, LoadLen, LoadMaskSealed, Load, ReaderState
    <2>2. SharesNoMore(seen)
      BY <1>0, <2>1 DEF SharesNoMore
    <2> QED
      BY <1>2, <2>1, <2>2
  <1>10. CASE LoadTail(r)
    <2> DEFINE seen == [reader[r] EXCEPT !.pc = "flag", !.tail = tail]
    <2>1. reader' = [reader EXCEPT ![r] = seen]
      BY <1>10 DEF LoadTail, Load
    <2>2. seen.tail = tail /\ seen.upto = reader[r].upto
      <3>1. reader[r] \in ReaderState
        BY <1>0
      <3> QED
        BY <3>1 DEF ReaderState
    <2> HIDE DEF seen
    <2>3. SharesNoMore(seen)
      BY <1>0, <1>1, <2>2 DEF SharesNoMore
    <2> QED
      BY <1>2, <2>1, <2>3
  <1> QED
    BY <1>4, <1>5, <1>6, <1>7, <1>8, <1>9, <1>10 DEF ReaderStep

(* Only readers change what readers hold.                                  *)
LEMMA SharesKept ==
    ASSUME Inv, SharingInv, [Next]_vars PROVE SharesOK'
  <1>1. ASSUME NEW k \in Reader PROVE SharesNoMore(reader'[k])
    <2>1. ASSUME UNCHANGED reader PROVE SharesNoMore(reader'[k])
      BY <2>1 DEF SharingInv, SharesOK
    <2>2. BeginCall \/ InCall => UNCHANGED reader
      <3>1. Working => UNCHANGED reader
        BY WorkingKeeps
      <3>2. DropMaskArc \/ Unwrap \/ CopyOut \/ ReleaseCells => UNCHANGED reader
        BY DEF DropMaskArc, Unwrap, CopyOut, ReleaseCells
      <3> QED
        BY <3>1, <3>2 DEF InCall, Working
    <2>3. ASSUME NEW r \in Reader, ReaderStep(r) PROVE SharesNoMore(reader'[k])
      BY <2>3, ReaderSees
    <2> QED
      BY <2>1, <2>2, <2>3 DEF Next, vars
  <1>2. Inv'
    BY NextInv
  <1>3. ASSUME NEW k \in Reader PROVE SharesNoMore(reader[k])'
    <2>1. reader'[k].tail \in Cursor /\ reader'[k].upto \in Nat /\ tail \in Cursor /\ tail' \in Cursor
      BY <1>2 DEF Inv, TypeOK, ReaderState
    <2>2. /\ Bits(reader'[k].tail) \in Nat /\ Bits(tail) \in Nat /\ Bits(tail') \in Nat
          /\ tail.index * W \in Nat /\ tail'.index * W \in Nat
      BY <2>1, TailBits
    <2>3. /\ Bits(tail) <= Bits(tail') /\ tail.index * W <= tail'.index * W
          /\ mask_sealed => mask_sealed'
      BY CursorMoves
    <2>4. Bits(reader'[k].tail) <= Bits(tail) /\ (mask_sealed \/ reader'[k].upto <= tail.index * W)
      BY <1>1 DEF SharesNoMore
    <2>5. Bits(reader'[k].tail) <= Bits(tail') /\ (mask_sealed' \/ reader'[k].upto <= tail'.index * W)
      BY <2>1, <2>2, <2>3, <2>4
    <2> QED
      BY <2>5 DEF SharesNoMore
  <1> QED
    BY <1>3 DEF SharesOK

(* A cell whose writer lets go stays for its readers, or goes.             *)
LEMMA ArcDropped ==
    ASSUME CellsOK, NEW c \in {"value", "mask"}
    PROVE  /\ Holders(c) # {} => WithoutWriter(c) = "live"
           /\ Holders(c) = {} => WithoutWriter(c) # "live"
  BY DEF CellsOK, CellOK, WithoutWriter

(* The end of the writer leaves shared cells alive and no other.           *)
LEMMA EndOfLifeCells ==
    ASSUME Inv, SharingInv, DropMaskArc \/ Unwrap \/ CopyOut \/ ReleaseCells
    PROVE  CellsOK'
  <1>0. CellsOK /\ cell \in [value : CellState, mask : CellState] /\ writer \in WriterState
    BY DEF SharingInv, Inv, TypeOK
  <1>1. UNCHANGED reader /\ \A c \in {"value", "mask"} : Holders(c)' = Holders(c)
    BY DEF DropMaskArc, Unwrap, CopyOut, ReleaseCells, Holders
  <1>2. CASE DropMaskArc
    <2>1. /\ writer.pc = "freeze" /\ writer'.pc = "unwrap"
          /\ cell' = [cell EXCEPT !.mask = WithoutWriter("mask")]
      BY <1>0, <1>2 DEF DropMaskArc, WriterState
    <2>2. cell'["value"] = cell["value"] /\ cell'["mask"] = WithoutWriter("mask")
      BY <1>0, <2>1
    <2>3. WriterHolds("value") /\ WriterHolds("value")' /\ ~WriterHolds("mask")'
      BY <2>1 DEF WriterHolds
    <2> QED
      BY <1>0, <1>1, <2>2, <2>3, ArcDropped DEF CellsOK, CellOK
  <1>3. CASE Unwrap
    <2>1. CASE SoleOwner
      <3>1. /\ writer.pc = "unwrap" /\ writer'.pc = "gone" /\ Holders("value") = {}
            /\ cell' = [cell EXCEPT !.value = "moved"]
        BY <1>0, <1>3, <2>1 DEF Unwrap, WriterState, SoleOwner
      <3>2. cell'["value"] = "moved" /\ cell'["mask"] = cell["mask"]
        BY <1>0, <3>1
      <3>3. ~WriterHolds("mask") /\ ~WriterHolds("value")' /\ ~WriterHolds("mask")'
        BY <3>1 DEF WriterHolds
      <3> QED
        BY <1>0, <1>1, <3>1, <3>2, <3>3 DEF CellsOK, CellOK
    <2>2. CASE ~SoleOwner
      <3>1. writer.pc = "unwrap" /\ writer'.pc = "copy" /\ cell' = cell
        BY <1>0, <1>3, <2>2 DEF Unwrap, WriterState
      <3>2. \A c \in {"value", "mask"} : WriterHolds(c)' <=> WriterHolds(c)
        BY <3>1 DEF WriterHolds
      <3> QED
        BY <1>0, <1>1, <3>1, <3>2 DEF CellsOK, CellOK
    <2> QED
      BY <2>1, <2>2
  <1>4. CASE CopyOut
    <2>1. /\ writer.pc = "copy" /\ writer'.pc = "gone"
          /\ cell' = [cell EXCEPT !.value = WithoutWriter("value")]
      BY <1>0, <1>4 DEF CopyOut, WriterState
    <2>2. cell'["value"] = WithoutWriter("value") /\ cell'["mask"] = cell["mask"]
      BY <1>0, <2>1
    <2>3. ~WriterHolds("mask") /\ ~WriterHolds("value")' /\ ~WriterHolds("mask")'
      BY <2>1 DEF WriterHolds
    <2> QED
      BY <1>0, <1>1, <2>2, <2>3, ArcDropped DEF CellsOK, CellOK
  <1>5. CASE ReleaseCells
    <2>1. /\ writer'.pc = "gone"
          /\ cell' = [value |-> WithoutWriter("value"), mask |-> WithoutWriter("mask")]
      BY <1>5 DEF ReleaseCells, Idle
    <2>2. cell'["value"] = WithoutWriter("value") /\ cell'["mask"] = WithoutWriter("mask")
      BY <2>1
    <2>3. ~WriterHolds("value")' /\ ~WriterHolds("mask")'
      BY <2>1 DEF WriterHolds
    <2> QED
      BY <1>0, <1>1, <2>2, <2>3, ArcDropped DEF CellsOK, CellOK
  <1> QED
    BY <1>2, <1>3, <1>4, <1>5

(* A share is taken of live cells only.                                    *)
LEMMA ShareCells ==
    ASSUME Inv, SharingInv, NEW r \in Reader, NEW seen, Share(r, seen),
           \A c \in Holds(seen.kind) : cell[c] = "live",
           ~MASK => seen.kind # "bitmask_window"
    PROVE  CellsOK'
  <1>1. /\ reader[r].kind = "none" /\ reader \in [Reader -> ReaderState]
        /\ reader' = [reader EXCEPT ![r] = seen]
        /\ UNCHANGED <<cell, writer>>
    BY DEF Share, Inv, TypeOK
  <1>2. reader'[r] = seen /\ \A k \in Reader : k # r => reader'[k] = reader[k]
    BY <1>1
  <1>3. ASSUME NEW c \in {"value", "mask"} PROVE CellOK(c)'
    <2>1. CellOK(c) /\ r \notin Holders(c)
      BY <1>1 DEF SharingInv, CellsOK, Holders, Holds
    <2>2. WriterHolds(c)' <=> WriterHolds(c)
      BY <1>1 DEF WriterHolds
    <2>3. Holders(c)' = {k \in Reader : c \in Holds(reader'[k].kind)}
      BY DEF Holders
    <2>4. CASE c \in Holds(seen.kind)
      <3>1. cell[c] = "live" /\ r \in Holders(c)'
        BY <1>2, <2>3, <2>4
      <3> QED
        BY <1>1, <3>1 DEF CellOK
    <2>5. CASE c \notin Holds(seen.kind)
      <3>1. Holders(c)' = Holders(c)
        BY <1>2, <2>1, <2>3, <2>5 DEF Holders
      <3> QED
        BY <1>1, <2>1, <2>2, <3>1 DEF CellOK
    <2> QED
      BY <2>4, <2>5
  <1>4. ~MASK => \A k \in Reader : reader'[k].kind # "bitmask_window"
    BY <1>2 DEF SharingInv, CellsOK
  <1> QED
    BY <1>3, <1>4 DEF CellsOK

(* Shares come from the writer between calls, or from another share; the   *)
(* last one out frees the cell.                                            *)
LEMMA ReaderCells ==
    ASSUME Inv, SharingInv, NEW r \in Reader, ReaderStep(r) PROVE CellsOK'
  <1>0. CellsOK /\ reader \in [Reader -> ReaderState]
    BY DEF SharingInv, Inv, TypeOK
  <1>1. ASSUME writer.pc = "idle", NEW c \in {"value", "mask"}, c = "mask" => MASK
        PROVE  cell[c] = "live"
    <2>1. WriterHolds(c)
      BY <1>1 DEF WriterHolds
    <2> QED
      BY <1>0, <1>1, <2>1 DEF CellsOK, CellOK
  <1>2. CASE View(r)
    <2> DEFINE seen == [Nothing EXCEPT !.kind = "view"]
    <2>1. writer.pc = "idle" /\ Share(r, seen)
      BY <1>2 DEF View
    <2>2. seen.kind = "view"
      BY DEF Nothing
    <2> HIDE DEF seen
    <2>3. \A c \in Holds(seen.kind) : cell[c] = "live"
      BY <1>1, <2>1, <2>2 DEF Holds
    <2> QED
      BY <2>1, <2>2, <2>3, ShareCells
  <1>3. ASSUME NEW end \in 0 .. Capacity, Window(r, end) PROVE CellsOK'
    <2> DEFINE seen == [Nothing EXCEPT !.kind = "window", !.n = end]
    <2>1. writer.pc = "idle" /\ Share(r, seen)
      BY <1>3 DEF Window
    <2>2. seen.kind = "window"
      BY DEF Nothing
    <2> HIDE DEF seen
    <2>3. \A c \in Holds(seen.kind) : cell[c] = "live"
      BY <1>1, <2>1, <2>2 DEF Holds
    <2> QED
      BY <2>1, <2>2, <2>3, ShareCells
  <1>4. ASSUME NEW end \in 0 .. Capacity, BitmaskWindow(r, end) PROVE CellsOK'
    <2> DEFINE bound == ((end + W - 1) \div W) * W
               seen == [Nothing EXCEPT !.kind = "bitmask_window", !.upto = bound]
    <2>1. MASK /\ writer.pc = "idle" /\ Share(r, seen)
      BY <1>4 DEF BitmaskWindow
    <2> HIDE DEF bound
    <2>2. seen.kind = "bitmask_window"
      BY DEF Nothing
    <2> HIDE DEF seen
    <2>3. \A c \in Holds(seen.kind) : cell[c] = "live"
      BY <1>1, <2>1, <2>2 DEF Holds
    <2> QED
      BY <2>1, <2>3, ShareCells
  <1>5. ASSUME NEW s \in Reader, CloneView(r, s) PROVE CellsOK'
    <2>1. Share(s, reader[r])
      BY <1>5 DEF CloneView
    <2>2. ASSUME NEW c \in Holds(reader[r].kind) PROVE cell[c] = "live"
      <3>1. c \in {"value", "mask"} /\ r \in Holders(c)
        BY <2>2 DEF Holds, Holders
      <3> QED
        BY <1>0, <3>1 DEF CellsOK, CellOK
    <2> QED
      BY <1>0, <2>1, <2>2, ShareCells DEF CellsOK
  <1>6. CASE Release(r)
    <2>1. /\ reader' = [reader EXCEPT ![r] = Nothing] /\ UNCHANGED writer
          /\ cell' = [c \in {"value", "mask"} |->
                        IF Holders(c) = {r} /\ ~WriterHolds(c) /\ cell[c] = "live"
                        THEN "freed" ELSE cell[c]]
      BY <1>6 DEF Release
    <2>2. reader'[r].kind = "none" /\ \A k \in Reader : k # r => reader'[k] = reader[k]
      BY <1>0, <2>1 DEF Nothing
    <2>3. ASSUME NEW c \in {"value", "mask"} PROVE CellOK(c)'
      <3>1. CellOK(c) /\ (WriterHolds(c)' <=> WriterHolds(c))
        BY <1>0, <2>1 DEF CellsOK, WriterHolds
      <3>2. Holders(c)' = {k \in Reader : c \in Holds(reader'[k].kind)}
        BY DEF Holders
      <3>3. Holders(c)' = Holders(c) \ {r}
        BY <2>2, <3>2 DEF Holders, Holds
      <3>4. CASE Holders(c) = {r} /\ ~WriterHolds(c)
        <4>1. cell'[c] = "freed" /\ Holders(c)' = {}
          BY <2>1, <3>1, <3>3, <3>4 DEF CellOK
        <4> QED
          BY <3>1, <3>4, <4>1 DEF CellOK
      <3>5. CASE ~(Holders(c) = {r} /\ ~WriterHolds(c))
        <4>1. cell'[c] = cell[c]
          BY <2>1, <3>5
        <4>2. Holders(c)' # {} => Holders(c) # {}
          BY <3>3
        <4>3. Holders(c)' = {} => Holders(c) = {} \/ Holders(c) = {r}
          BY <3>3
        <4> QED
          BY <3>1, <3>5, <4>1, <4>2, <4>3 DEF CellOK
      <3> QED
        BY <3>4, <3>5
    <2>4. ~MASK => \A k \in Reader : reader'[k].kind # "bitmask_window"
      BY <1>0, <2>2 DEF CellsOK
    <2> QED
      BY <2>3, <2>4 DEF CellsOK
  <1>7. CASE LoadSealed(r) \/ LoadLen(r) \/ LoadTail(r) \/ LoadMaskSealed(r) \/ LookAgain(r)
    <2>1. PICK seen : /\ reader' = [reader EXCEPT ![r] = seen]
                      /\ seen.kind = reader[r].kind
      <3>1. reader[r] \in ReaderState
        BY <1>0
      <3> QED
        BY <1>7, <3>1 DEF LoadSealed, LoadLen, LoadTail, LoadMaskSealed, LookAgain, Load,
           ReaderState, Nothing
    <2>2. UNCHANGED <<cell, writer>>
      BY <1>7 DEF LoadSealed, LoadLen, LoadTail, LoadMaskSealed, LookAgain, Load
    <2>3. \A k \in Reader : reader'[k].kind = reader[k].kind
      BY <1>0, <2>1
    <2>4. \A c \in {"value", "mask"} :
            Holders(c)' = Holders(c) /\ (WriterHolds(c)' <=> WriterHolds(c))
      BY <2>2, <2>3 DEF Holders, WriterHolds
    <2> QED
      BY <1>0, <2>2, <2>3, <2>4 DEF CellsOK, CellOK
  <1> QED
    BY <1>2, <1>3, <1>4, <1>5, <1>6, <1>7 DEF ReaderStep

(* Every step keeps the invariant of the shares.                           *)
LEMMA SharingNext == Inv /\ SharingInv /\ [Next]_vars => SharingInv'
  <1> SUFFICES ASSUME Inv, SharingInv, [Next]_vars PROVE SharingInv'
    OBVIOUS
  <1>1. SealedMaskOK' /\ SharesOK'
    BY SealedMaskKept, SharesKept
  <1>2. CellsOK'
    <2>1. CASE UNCHANGED vars
      <3>1. UNCHANGED <<cell, reader, writer>>
        BY <2>1 DEF vars
      <3>2. \A c \in {"value", "mask"} :
              Holders(c)' = Holders(c) /\ (WriterHolds(c)' <=> WriterHolds(c))
        BY <3>1 DEF Holders, WriterHolds
      <3> QED
        BY <3>1, <3>2 DEF SharingInv, CellsOK, CellOK
    <2> QED
      BY <2>1, WorkingCells, EndOfLifeCells, ReaderCells DEF Next, InCall, Working
  <1> QED
    BY <1>1, <1>2 DEF SharingInv

(* It holds for ever.                                                      *)
LEMMA SharingInvariance == Spec => [](Inv /\ SharingInv)
  <1>1. Inv /\ SharingInv /\ [Next]_vars => Inv' /\ SharingInv'
    BY NextInv, SharingNext
  <1> QED
    BY <1>1, InitInv, SharingInit, PTL DEF Spec

(* seal, drop and freeze clear what is past the last row of the mask       *)
(* before they raise its flag, and nothing is written afterwards           *)
(* (lbuffer.rs:581-610).                                                   *)
THEOREM SealedPaddingClear == Spec => []SealedPaddingIsClear
  <1>1. SharingInv => SealedPaddingIsClear
    BY DEF SharingInv, SealedMaskOK, SealedPaddingIsClear
  <1> QED
    BY <1>1, SharingInvariance, PTL

(* The value and the mask cell outlive every view, bitmask and window on   *)
(* them, whether the writer is dropped, freezes by moving or freezes by    *)
(* copying, and neither leaks (lbuffer.rs:534-573, 780-795).               *)
THEOREM SharedCellsKept == Spec => []SharesKeepCells
  <1>1. SharingInv => SharesKeepCells
    BY DEF SharingInv, CellsOK, CellOK, SharesKeepCells
  <1> QED
    BY <1>1, SharingInvariance, PTL

(* Below the cursor, no step writes.                                       *)
LEMMA BelowCursorKept ==
    ASSUME Inv, SharingInv, [Next]_vars, NEW b \in 0 .. Bits(tail) - 1
    PROVE  bits'[b] = bits[b]
  <1>0. /\ tail \in Cursor /\ Bits(tail) \in Nat /\ b \in Int /\ b < Bits(tail)
        /\ tail.filled = 0 => b < tail.index * W
    <2>1. tail \in Cursor
      BY WriterShape
    <2> QED
      BY <2>1, TailBits
  <1>1. CASE StoreByte \/ ClearBit \/ FinaliseMaskByte
    <2>1. MASK
      BY <1>1 DEF StoreByte, ClearBit, FinaliseMaskByte, Inv, MaskOK, Masking, SharingInv, SealedMaskOK
    <2>2. b \in DOMAIN bits
      BY <2>1, MaskFits
    <2>3. CASE StoreByte
      <3>1. tail.filled = 0
        BY <2>3 DEF StoreByte, Inv, MaskOK
      <3>2. b \notin LastByte(tail)
        BY <1>0, <3>1, TailBits DEF LastByte
      <3> QED
        BY <2>2, <2>3, <3>2 DEF StoreByte
    <2>4. CASE ClearBit
      BY <1>0, <2>2, <2>4 DEF ClearBit, RowBit
    <2>5. CASE FinaliseMaskByte
      BY <1>0, <2>2, <2>5 DEF FinaliseMaskByte, Kept
    <2> QED
      BY <1>1, <2>3, <2>4, <2>5
  <1>2. CASE ~(StoreByte \/ ClearBit \/ FinaliseMaskByte)
    <2>1. ASSUME NEW r \in Reader, ReaderStep(r) PROVE UNCHANGED bits
      BY <2>1 DEF ReaderStep, View, Window, BitmaskWindow, CloneView, Share, Release, LoadSealed,
         LoadLen, LoadTail, LoadMaskSealed, LookAgain, Load, mask_cell
    <2>2. ASSUME BeginCall PROVE UNCHANGED bits
      BY <2>2 DEF BeginCall, Push, PushSlice, PushNulls, Begin, Seal, Drop, FreezeSealing,
         FreezeSealed, BeginSeal, mask_cell
    <2>3. ASSUME InCall PROVE UNCHANGED bits
      BY <1>2, <2>3 DEF InCall, WriteSlot, PublishTail, PublishLen, SealMask, DropMaskArc, Unwrap,
         CopyOut, ReleaseCells, mask_cell
    <2> QED
      BY <2>1, <2>2, <2>3 DEF Next, vars
  <1> QED
    BY <1>1, <1>2

(* A sealed mask is not written at all: another seal clears clear bits.    *)
LEMMA SealedMaskIsFinal ==
    ASSUME Inv, SharingInv, [Next]_vars, mask_sealed
    PROVE  UNCHANGED <<bits, tail>>
  <1>0. /\ sealed /\ writer.pc \notin InPush /\ tail \in Cursor
        /\ bits = [b \in DOMAIN bits |-> bits[b]]
    BY WriterShape DEF SharingInv, SealedMaskOK, Inv, BatchOK, TypeOK
  <1>1. ~(WriteSlot \/ StoreByte \/ ClearBit \/ PublishTail \/ PublishLen)
    BY <1>0 DEF WriteSlot, StoreByte, ClearBit, PublishTail, PublishLen, InPush
  <1>2. CASE FinaliseMaskByte
    <2>1. /\ UNCHANGED tail
          /\ bits' = [b \in DOMAIN bits |->
                        IF tail.filled > 0 /\ b \in LastByte(tail) /\ ~Kept(b)
                        THEN "clear" ELSE bits[b]]
      BY <1>2 DEF FinaliseMaskByte
    <2>2. ASSUME NEW b \in DOMAIN bits, tail.filled > 0, b \in LastByte(tail), ~Kept(b)
          PROVE  bits[b] = "clear"
      <3>1. Bits(tail) \in Nat /\ tail.index * W \in Nat
        BY <1>0, TailBits
      <3>2. b >= Bits(tail)
        BY <2>2, <3>1 DEF Kept, LastByte
      <3> QED
        BY <2>2, <3>2 DEF SharingInv, SealedMaskOK
    <2> QED
      BY <1>0, <2>1, <2>2
  <1>3. CASE ~FinaliseMaskByte
    <2>1. ASSUME NEW r \in Reader, ReaderStep(r) PROVE UNCHANGED <<bits, tail>>
      BY <2>1 DEF ReaderStep, View, Window, BitmaskWindow, CloneView, Share, Release, LoadSealed,
         LoadLen, LoadTail, LoadMaskSealed, LookAgain, Load, mask_cell
    <2>2. ASSUME BeginCall PROVE UNCHANGED <<bits, tail>>
      BY <2>2 DEF BeginCall, Push, PushSlice, PushNulls, Begin, Seal, Drop, FreezeSealing,
         FreezeSealed, BeginSeal, mask_cell
    <2>3. ASSUME InCall PROVE UNCHANGED <<bits, tail>>
      BY <1>1, <1>3, <2>3 DEF InCall, SealMask, DropMaskArc, Unwrap, CopyOut, ReleaseCells,
         mask_cell
    <2> QED
      BY <2>1, <2>2, <2>3 DEF Next, vars
  <1> QED
    BY <1>2, <1>3

(* No step writes what a reader may be looking at: not a bit below a       *)
(* cursor it loaded, not a byte its bitmask window covers, and nothing of  *)
(* a sealed mask (lbuffer.rs:219-226, 596-610, 723-757).                   *)
THEOREM SharedBytesFinal == Spec => SharedBytesAreFinal
  <1> DEFINE Final == /\ \A r \in Reader : KeepsBelowCursor(r) /\ KeepsWindow(r)
                      /\ mask_sealed => UNCHANGED <<bits, tail>>
  <1>1. Inv /\ SharingInv /\ [Next]_vars => Final
    <2> SUFFICES ASSUME Inv, SharingInv, [Next]_vars PROVE Final
      OBVIOUS
    <2>1. mask_sealed => UNCHANGED <<bits, tail>>
      BY SealedMaskIsFinal
    <2>2. ASSUME NEW r \in Reader PROVE KeepsBelowCursor(r) /\ KeepsWindow(r)
      <3>1. /\ tail \in Cursor /\ reader[r].tail \in Cursor /\ reader[r].upto \in Nat
        BY WriterShape DEF Inv, TypeOK, ReaderState
      <3>2. /\ Bits(tail) \in Nat /\ Bits(reader[r].tail) \in Nat
            /\ tail.index * W \in Nat /\ tail.index * W <= Bits(tail)
        BY <3>1, TailBits
      <3>3. Bits(reader[r].tail) <= Bits(tail) /\ (mask_sealed \/ reader[r].upto <= tail.index * W)
        BY DEF SharingInv, SharesOK, SharesNoMore
      <3>4. KeepsBelowCursor(r)
        <4>1. \A b \in 0 .. Bits(reader[r].tail) - 1 : b \in 0 .. Bits(tail) - 1
          BY <3>2, <3>3
        <4> QED
          BY <4>1, BelowCursorKept DEF KeepsBelowCursor
      <3>5. KeepsWindow(r)
        <4>1. CASE mask_sealed
          BY <2>1, <4>1 DEF KeepsWindow
        <4>2. CASE ~mask_sealed
          <5>1. \A b \in 0 .. reader[r].upto - 1 : b \in 0 .. Bits(tail) - 1
            BY <3>1, <3>2, <3>3, <4>2
          <5> QED
            BY <5>1, BelowCursorKept DEF KeepsWindow
        <4> QED
          BY <4>1, <4>2
      <3> QED
        BY <3>4, <3>5
    <2> QED
      BY <2>1, <2>2
  <1> HIDE DEF Final
  <1>2. Spec => [][Final]_vars
    BY <1>1, SharingInvariance, PTL DEF Spec
  <1> QED
    BY <1>2 DEF SharedBytesAreFinal, Final
=============================================================================
