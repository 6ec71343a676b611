------------------------------ MODULE Bitmask ------------------------------
(***************************************************************************)
(* Bit-packed masks (src/structs/bitmask.rs): the validity of every array  *)
(* and the values of boolean arrays.  A mask is a row of bytes and a bit   *)
(* count; its operations work byte by byte and word by word, and are       *)
(* compared here with what they mean on the sequence of bits.              *)
(*                                                                         *)
(* A byte is the set of the positions of its set bits.  W stands for the   *)
(* 8 bits of a byte and WordBytes for the 8 bytes of a word; bytes are     *)
(* numbered from zero, as in the code.                                     *)
(*                                                                         *)
(* The backing Buffer is owned memory, so it is a function from indices to *)
(* bytes, except for a mask over an LBuffer: its buffer has no element     *)
(* (the cell's element count stays zero) and its bits are read through the *)
(* view.                                                                   *)
(***************************************************************************)
EXTENDS Integers, FiniteSets

CONSTANTS W,          \* bits in a byte
          WordBytes,  \* bytes in a word
          MaxLen,     \* bound: bits of a mask
          Start       \* how the mask came to be ("new", "imported", "lbuffer")

ASSUME WidthAssumption == W \in Nat \ {0, 1} /\ WordBytes \in Nat \ {0}
ASSUME BoundAssumption == MaxLen \in Nat /\ Start \in {"new", "imported", "lbuffer"}

VARIABLE mask         \* one mask and what calls make of it

Byte == SUBSET (0..W-1)
BitSeqs(n) == [0..n-1 -> BOOLEAN]

Low(n) == 0..n-1                                      \* (1 << n) - 1
Shr(b, s) == {k - s : k \in {x \in b : x >= s}}
Shl(b, s) == {k + s : k \in b}
AsByte(b) == b \cap Low(W)
BytesFor(n) == (n + W - 1) \div W
Least(a, b) == IF a < b THEN a ELSE b
Size(bytes) == Cardinality(DOMAIN bytes)

(* The W bits that start at bit sh of byte i: (lo >> sh) | (hi << (8 - sh)),  *)
(* with zeros past the end of the buffer.                                  *)
Straddle(bytes, i, sh) ==
  AsByte(Shr(bytes[i], sh) \cup
         (IF sh = 0 \/ i + 1 \notin DOMAIN bytes THEN {} ELSE Shl(bytes[i + 1], W - sh)))

(* Bitmask::new: the bytes are taken as they are.  A mask holds at most    *)
(* one view; what the view shows is its row of bits.                       *)
New(bytes, n) == [bytes |-> bytes, len |-> n, view |-> {}]
(* Bitmask::from_lbuffer *)
FromLBuffer(bits) == [bytes |-> <<>>, len |-> 0, view |-> {bits}]

(* Buffer::resize; every writer of a buffer first makes it owned, which    *)
(* copies the elements of the buffer: none for a view over a mask cell.    *)
Resized(bytes, n, fill) == [i \in 0..n-1 |-> IF i \in DOMAIN bytes THEN bytes[i] ELSE fill]

(* What the mask means. *)
Viewed(m) == CHOOSE bits \in m.view : TRUE
LenOf(m) == IF m.view = {} THEN m.len ELSE Size(Viewed(m))
Get(m, i) == IF m.view = {} THEN i < m.len /\ i % W \in m.bytes[i \div W] ELSE Viewed(m)[i]
Bits(m) == [i \in 0..LenOf(m)-1 |-> Get(m, i)]

(* mask_trailing_bits: the bits of the last byte past the length. *)
NoneTrailing(n) == Low(W)
Trailing(n) == IF n % W = 0 THEN Low(W) ELSE Low(n % W)
MaskTrailing(m) ==
  IF m.len = 0 THEN m ELSE [m EXCEPT !.bytes[BytesFor(m.len) - 1] = @ \cap Trailing(m.len)]

Fill(v) == IF v THEN Low(W) ELSE {}
NewSetAll(n, v) == MaskTrailing(New([i \in 0..BytesFor(n)-1 |-> Fill(v)], n))

(* set_unchecked, on every index of S in turn *)
PutBits(m, S, v) ==
  LET hit(k) == {i % W : i \in {x \in S : x \div W = k}}
  IN New([k \in DOMAIN m.bytes |-> IF v THEN m.bytes[k] \cup hit(k) ELSE m.bytes[k] \ hit(k)], m.len)

EnsureCapacity(m, n) ==
  LET bytes == Resized(m.bytes, IF Size(m.bytes) < BytesFor(n) THEN BytesFor(n) ELSE Size(m.bytes), {})
  IN IF n > m.len THEN MaskTrailing(New(bytes, n)) ELSE New(bytes, m.len)

SetBit(m, i, v) == MaskTrailing(PutBits(EnsureCapacity(m, i + 1), {i}, v))

(* set_range: bit by bit at both ends, whole bytes in the middle. *)
MiddleToEnd(s, e) == BytesFor(s) .. BytesFor(e) - 1
Middle(s, e) == BytesFor(s) .. e \div W - 1
SetRange(m, s, e, v) ==
  LET g == EnsureCapacity(m, e)
      head == PutBits(g, s .. Least(e, BytesFor(s) * W) - 1, v)
      middle == New([k \in DOMAIN g.bytes |-> IF k \in Middle(s, e) THEN Fill(v) ELSE head.bytes[k]], g.len)
  IN IF s >= e THEN m
     ELSE IF BytesFor(s) * W >= e THEN head
     ELSE PutBits(middle, (e \div W) * W .. e - 1, v)

(* resize: added bytes are filled whole; bits added to the old last byte,  *)
(* which the padding left clear, are set one by one.                       *)
OldByte(len, n, v) ==
  IF v /\ n > len /\ len % W # 0 THEN len .. Least(n, BytesFor(len) * W) - 1 ELSE {}
Resize(m, n, v) ==
  MaskTrailing(PutBits(New(Resized(m.bytes, BytesFor(n), Fill(v)), n), OldByte(m.len, n, v), TRUE))

(* delete_range: whole bytes go when both ends are on a byte boundary;     *)
(* otherwise the tail moves down in place, each byte made of two bytes     *)
(* not yet overwritten and keeping its own bits below the deleted range,   *)
(* and the buffer is truncated.                                            *)
KeptBelow(s, i) == IF i = s \div W THEN Low(s % W) ELSE {}
ShiftDown(bytes, s, span, i) ==
  LET shifted == Straddle(bytes, i + span \div W, span % W)
  IN [bytes EXCEPT ![i] = (@ \cap KeptBelow(s, i)) \cup (shifted \ KeptBelow(s, i))]

ShiftedDown(bytes, s, span, n) ==
  LET after[k \in 0..n] ==
        IF k = 0 THEN bytes ELSE ShiftDown(after[k - 1], s, span, s \div W + k - 1)
  IN after[n]

Truncated(bytes, n) == [k \in 0..n-1 |-> AsByte(bytes[k])]
OnBytes(s, e) == s % W = 0 /\ e % W = 0
DeleteRange(m, s, e) ==
  LET n == m.len - (e - s)
      cut == e \div W - s \div W
      kept == [i \in 0..Size(m.bytes) - cut - 1 |-> m.bytes[IF i < s \div W THEN i ELSE i + cut]]
      moved == (n - 1) \div W - s \div W + 1
      bytes == IF OnBytes(s, e) THEN kept
               ELSE Truncated(IF e = m.len THEN m.bytes ELSE ShiftedDown(m.bytes, s, e - s, moved), BytesFor(n))
  IN IF s = e THEN m ELSE MaskTrailing(New(bytes, n))

(* extend_from_slice: a row of whole words, then of bytes, each shifted up *)
(* with the bits the previous one spilled; the last spill goes to the next *)
(* byte when there is one.  The source is cut to the bytes of n bits.      *)
WordAt(src, i) == UNION {Shl(src[i + b], b * W) : b \in 0..WordBytes-1}
PutWord(bytes, i, word) ==
  [k \in DOMAIN bytes |-> IF k \in i..i+WordBytes-1 THEN AsByte(Shr(word, (k - i) * W)) ELSE bytes[k]]
SpillPerByte(word, width, sh) == Shr(word, W - sh)
Spill(word, width, sh) == Shr(word, width - sh)

(* What the loop has written and the spill it carries, d bytes up.         *)
ShiftWord(st, src, d, sh, i) ==
  LET word == WordAt(src, i)
  IN [bytes |-> PutWord(st.bytes, d + i, Shl(word, sh) \cup st.spill),
      spill |-> Spill(word, W * WordBytes, sh)]
ShiftByte(st, src, d, sh, i) ==
  [bytes |-> [st.bytes EXCEPT ![d + i] = AsByte(Shl(src[i], sh) \cup st.spill)],
   spill |-> Spill(src[i], W, sh)]
ShiftedUp(bytes, src, d, sh, words, steps) ==
  LET after[j \in 0..steps] ==
        IF j = 0 THEN [bytes |-> bytes, spill |-> bytes[d] \cap Low(sh)]
        ELSE IF j <= words THEN ShiftWord(after[j - 1], src, d, sh, (j - 1) * WordBytes)
        ELSE ShiftByte(after[j - 1], src, d, sh, words * WordBytes + j - 1 - words)
  IN after[steps]

ExtendShifted(bytes, start, src, n) ==
  LET d == start \div W
      nsrc == BytesFor(n)
      words == nsrc \div WordBytes
      last == ShiftedUp(bytes, src, d, start % W, words, words + nsrc - words * WordBytes)
  IN [k \in DOMAIN bytes |-> AsByte(IF k = d + nsrc THEN last.spill ELSE last.bytes[k])]

ExtendFromSlice(m, src, n) ==
  LET g == Resize(m, m.len + n, FALSE)
      d == m.len \div W
      full == n \div W
      aligned == [k \in DOMAIN g.bytes |->
                    IF k \in d..d+full-1 THEN src[k - d]
                    ELSE IF k = d + full /\ n % W # 0
                    THEN (g.bytes[k] \ Low(n % W)) \cup (src[full] \cap Low(n % W))
                    ELSE g.bytes[k]]
      bytes == IF m.len % W = 0 THEN aligned
               ELSE IF n = 0 THEN g.bytes
               ELSE ExtendShifted(g.bytes, m.len, src, n)
  IN MaskTrailing(New(bytes, m.len + n))

(* extend_from_bitmask_range: a source that starts inside a byte is first  *)
(* shifted down to a byte boundary.                                        *)
AlignedFrom(src, off, n) ==
  LET lo == off \div W
      bytes == IF off % W = 0 THEN Size(src) - lo ELSE Least(BytesFor(n) + 1, Size(src) - lo)
  IN [k \in 0..bytes - 1 |-> Straddle(src, lo + k, off % W)]
ExtendFromRange(m, other, off, n) ==
  IF n = 0 THEN m ELSE ExtendFromSlice(m, AlignedFrom(other.bytes, off, n), n)

(* split_off: by bytes on a boundary, bit by bit elsewhere. *)
SplitOff(m, at) ==
  LET n == m.len - at
      upper == [i \in 0..Size(m.bytes) - at \div W - 1 |-> m.bytes[i + at \div W]]
      moved == [k \in 0..BytesFor(n)-1 |->
                  {b \in 0..W-1 : LET i == at + k * W + b
                                  IN i < m.len /\ i % W \in m.bytes[i \div W]}]
  IN IF at = m.len THEN <<m, NewSetAll(0, FALSE)>>
     ELSE <<MaskTrailing(New(Resized(m.bytes, IF at % W = 0 THEN at \div W ELSE BytesFor(at), {}), at)),
            MaskTrailing(New(IF at % W = 0 THEN upper ELSE moved, n))>>

(* slice_clone: whole words while the source has a byte after them, whose  *)
(* low bits complete the word; then byte by byte.                          *)
JoinedWord(src, i, sh) == Shr(WordAt(src, i), sh) \cup Shl(src[i + WordBytes], WordBytes * W - sh)
SliceClone(m, off, n) ==
  LET lo == off \div W
      sh == off % W
      src == [k \in 0..BytesFor(off + n) - lo - 1 |-> m.bytes[lo + k]]
      words == IF Size(src) <= WordBytes THEN 0 ELSE (Size(src) - 1) \div WordBytes
      byWord(k) == LET i == (k \div WordBytes) * WordBytes
                   IN AsByte(Shr(JoinedWord(src, i, sh), (k - i) * W))
      copied(k) == IF sh # 0 /\ k < words * WordBytes THEN byWord(k) ELSE Straddle(src, k, sh)
  IN MaskTrailing(New([k \in 0..BytesFor(n)-1 |-> copied(k)], n))

(* extend_from_bitmask grows with ones, then writes every bit; extend      *)
(* pushes one bit after the other; set_bits_chunk sets one at a time.      *)
ExtendFromBitmask(m, other) ==
  LET g == Resize(m, m.len + LenOf(other), TRUE)
      clear == {i \in 0..LenOf(other)-1 : ~Get(other, i)}
  IN PutBits(g, {m.len + i : i \in clear}, FALSE)
Push(m, v) == SetBit(m, m.len, v)
Extend(m, bits) ==
  LET after[k \in 0..Size(bits)] == IF k = 0 THEN m ELSE Push(after[k - 1], bits[k - 1])
  IN MaskTrailing(after[Size(bits)])
SetBitsChunk(m, start, word, n) ==
  LET after[k \in 0..n] == IF k = 0 THEN m ELSE SetBit(after[k - 1], start + k - 1, k - 1 \in word)
  IN MaskTrailing(after[n])
FromBools(bits) ==
  LET n == Size(bits)
  IN MaskTrailing(New([k \in 0..BytesFor(n)-1 |-> {b \in 0..W-1 : k * W + b < n /\ bits[k * W + b]}], n))

(* count_ones, all_true and all_false: whole bytes, then the last one cut  *)
(* to the length, which may hold bits of others past it.                   *)
CutBytes(m) ==
  [k \in 0..BytesFor(m.len)-1 |-> IF k < m.len \div W THEN m.bytes[k] ELSE m.bytes[k] \cap Low(m.len % W)]
OnesIn(bytes) ==
  LET upTo[k \in 0..Size(bytes)] == IF k = 0 THEN 0 ELSE upTo[k - 1] + Cardinality(bytes[k - 1])
  IN upTo[Size(bytes)]
CountOnes(m) ==
  IF m.view # {} THEN Cardinality({i \in DOMAIN Viewed(m) : Viewed(m)[i]})
  ELSE OnesIn(CutBytes(m))
Every(m, v) ==
  IF m.view # {} THEN CountOnes(m) = IF v THEN LenOf(m) ELSE 0
  ELSE \A k \in DOMAIN CutBytes(m) :
         CutBytes(m)[k] = IF ~v THEN {} ELSE IF k < m.len \div W THEN Low(W) ELSE Low(m.len % W)

(* union, intersect, invert, fill: a logical operation is the set of pairs *)
(* of bits it answers with a one.                                          *)
And == {<<TRUE, TRUE>>}
Or == And \cup {<<TRUE, FALSE>>, <<FALSE, TRUE>>}
BitByBit(op, x, y, width) == {i \in 0..width-1 : <<i \in x, i \in y>> \in op}
Merge(a, b, op) ==
  MaskTrailing(New([k \in DOMAIN a.bytes |-> IF k \in DOMAIN b.bytes THEN BitByBit(op, a.bytes[k], b.bytes[k], W)
                                             ELSE a.bytes[k]], a.len))
Union(a, b) == Merge(a, b, Or)
Intersect(a, b) == Merge(a, b, And)
Invert(m) == MaskTrailing(New([k \in DOMAIN m.bytes |-> Low(W) \ m.bytes[k]], m.len))
FillAll(m, v) == MaskTrailing(New([k \in DOMAIN m.bytes |-> Fill(v)], m.len))

-----------------------------------------------------------------------------
(* A mask starts empty, as an Arrow buffer taken over with whatever its    *)
(* producer left past the length (arrow_c_ffi.rs:1328), or as a view of an *)
(* LBuffer, and goes through any calls whose arguments the asserts allow.  *)
Packed(n) == [0..BytesFor(n)-1 -> Byte]
Init ==
  \/ Start = "new" /\ mask = NewSetAll(0, FALSE)
  \/ Start = "imported" /\ \E n \in 0..MaxLen : \E src \in Packed(n) : mask = New(src, n)
  \/ Start = "lbuffer" /\ \E n \in 0..MaxLen : \E bits \in BitSeqs(n) : mask = FromLBuffer(bits)

Room == MaxLen - mask.len
Sets == \E i \in 0..MaxLen-1, v \in BOOLEAN : mask' = SetBit(mask, i, v)
SetsRange == \E e \in 0..MaxLen, v \in BOOLEAN : \E s \in 0..e : mask' = SetRange(mask, s, e, v)
Resizes == \E n \in 0..MaxLen, v \in BOOLEAN : mask' = Resize(mask, n, v)
Deletes == \E e \in 0..mask.len : \E s \in 0..e : mask' = DeleteRange(mask, s, e)
Extends == \E n \in 0..Least(W, Room) : \E src \in Packed(n) : mask' = ExtendFromSlice(mask, src, n)
ExtendsFromMask == \E off \in 0..mask.len : \E n \in 0..Least(Room, mask.len - off) :
                      mask' = ExtendFromRange(mask, Invert(mask), off, n)
Splits == \E at \in 0..mask.len, half \in 1..2 : mask' = SplitOff(mask, at)[half]
Slices == \E off \in 0..mask.len : \E n \in 0..mask.len - off : mask' = SliceClone(mask, off, n)
Combines == \E v \in BOOLEAN : \/ mask' = Union(mask, NewSetAll(mask.len, v))
                               \/ mask' = Intersect(mask, NewSetAll(mask.len, v))
                               \/ mask' = FillAll(mask, v)
Inverts == mask' = Invert(mask)

Next == Sets \/ SetsRange \/ Resizes \/ Deletes \/ Extends \/ ExtendsFromMask
          \/ Splits \/ Slices \/ Combines \/ Inverts
Spec == Init /\ [][Next]_mask

-----------------------------------------------------------------------------
(* A row of bits, in its only form: no byte past the length, no bit set    *)
(* past it.  Equality of masks and word-wise reads rely on it.             *)
Canonical(m) ==
  /\ m.view = {}
  /\ DOMAIN m.bytes = 0..BytesFor(m.len)-1
  /\ \A k \in DOMAIN m.bytes : m.bytes[k] \subseteq {b \in 0..W-1 : k * W + b < m.len}

Reads(m, bits) == Canonical(m) /\ Bits(m) = bits
Window(bits, off, n) == [i \in 0..n-1 |-> bits[off + i]]
Append2(a, b) ==
  LET n == Size(a)
  IN [i \in 0..n + Size(b) - 1 |-> IF i < n THEN a[i] ELSE b[i - n]]
Constantly(n, v) == [i \in 0..n-1 |-> v]
Unpacked(src, n) == [i \in 0..n-1 |-> i % W \in src[i \div W]]
Here == Bits(mask)

(* Whatever calls made a mask, its padding is clear: the equality derived  *)
(* on bytes and length (bitmask.rs:73) is equality of the bits, and a      *)
(* later resize exposes no old bit.                                        *)
PaddingIsClear == Canonical(mask)

(* set and set_range write the bits they name, growing the mask with       *)
(* cleared bits when they are past its end, and keep all others.           *)
SetsOnlyItsBits ==
  \A e \in 1..MaxLen, v \in BOOLEAN : \A s \in 0..e-1 :
    LET n == IF e > LenOf(mask) THEN e ELSE LenOf(mask)
        bits == [i \in 0..n-1 |-> IF s <= i /\ i < e THEN v ELSE i < LenOf(mask) /\ Here[i]]
    IN /\ Reads(SetRange(mask, s, e, v), bits)
       /\ e = s + 1 => Reads(SetBit(mask, s, v), bits)
       /\ Reads(SetBitsChunk(mask, s, IF v THEN Low(e - s) ELSE {}, e - s), bits)

(* resize keeps the bits below both lengths and gives the asked value to   *)
(* all the new ones, those in the old last byte included.                  *)
ResizeFillsNewBits ==
  \A n \in 0..MaxLen, v \in BOOLEAN :
    Bits(Resize(mask, n, v)) = [i \in 0..n-1 |-> IF i < mask.len THEN Here[i] ELSE v]

(* delete_range, in place and byte by byte, removes exactly [s, e).        *)
DeletesExactlyTheRange ==
  \A e \in 0..mask.len : \A s \in 0..e :
    Reads(DeleteRange(mask, s, e), Append2(Window(Here, 0, s), Window(Here, e, mask.len - e)))

(* extend_from_slice appends the first n bits of the source, whatever the  *)
(* alignment of the destination and whatever follows them in the source.   *)
ExtendAppendsSlice ==
  \A n \in 0..MaxLen - mask.len : \A src \in Packed(n) :
    Reads(ExtendFromSlice(mask, src, n), Append2(Here, Unpacked(src, n)))

(* extend_from_bitmask_range appends a window of this mask to a mask of    *)
(* any alignment, whatever the alignment of the window.                    *)
ExtendAppendsWindow ==
  \A k \in 0..W, v \in BOOLEAN, off \in 0..mask.len : \A n \in 0..mask.len - off :
    LET wider == Append2(Constantly(k, v), Window(Here, off, n))
    IN /\ Reads(ExtendFromRange(NewSetAll(k, v), mask, off, n), wider)
       /\ n = mask.len => /\ Reads(ExtendFromBitmask(NewSetAll(k, v), mask), wider)
                          /\ Reads(Extend(NewSetAll(k, v), Here), wider)

(* slice_clone copies exactly the window, and the two halves of split_off  *)
(* are the two windows of the mask.                                        *)
WindowsAreCopied ==
  \A off \in 0..mask.len :
    /\ \A n \in 0..mask.len - off : Reads(SliceClone(mask, off, n), Window(Here, off, n))
    /\ Reads(SplitOff(mask, off)[1], Window(Here, 0, off))
    /\ Reads(SplitOff(mask, off)[2], Window(Here, off, mask.len - off))

(* A mask of any bools reads as they are; counts and tests see its bits    *)
(* and none of what follows them in the last byte.                         *)
CountsSeeTheBits ==
  /\ FromBools(Here) = mask
  /\ \A n \in 0..mask.len : LET m == New(mask.bytes, n)
                                ones == {i \in 0..n-1 : Here[i]}
                            IN /\ CountOnes(m) = Cardinality(ones)
                               /\ Every(m, TRUE) <=> ones = 0..n-1
                               /\ Every(m, FALSE) <=> ones = {}

(* The calls that change a mask in place do to its bits what they say.     *)
EditsAreExact == SetsOnlyItsBits /\ ResizeFillsNewBits /\ DeletesExactlyTheRange

(* The calls that copy bits between masks move exactly the bits they name, *)
(* and those that count them count no other.                               *)
CopiesAreExact == ExtendAppendsSlice /\ ExtendAppendsWindow /\ WindowsAreCopied /\ CountsSeeTheBits
=============================================================================
