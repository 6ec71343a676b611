--------------------------- MODULE BitmaskKernels ---------------------------
(***************************************************************************)
(* The word-level kernels over bit windows of masks                        *)
(* (src/kernels/bitmask/std.rs and simd.rs): a window is a mask, a bit     *)
(* offset and a length, none of them aligned.  Whole words of the window   *)
(* are joined from two words of the mask, one by one or a vector of them   *)
(* at a time; the rest goes bit by bit, so that a kernel that writes a     *)
(* part of a larger mask disturbs nothing around it.                       *)
(***************************************************************************)
EXTENDS Bitmask, SequencesExt

CONSTANT VectorWords      \* words in a vector (LANES)

ASSUME VectorAssumption == VectorWords \in Nat \ {0}

WordBits == W * WordBytes
LowWord(b) == b \cap Low(WordBits)

(* load_word: a word from any bit, zeros past the end of the buffer. *)
LoadWord(m, start) ==
  LET lo == start \div W
  IN LowWord(Shr(UNION {Shl(m.bytes[lo + b], b * W) : b \in {x \in 0..WordBytes : lo + x \in DOMAIN m.bytes}}, start % W))

(* Word k of the window that starts at bit off. *)
WindowWord(m, off, k) ==
  LET w0 == (off \div WordBits + k) * WordBits
      s == off % WordBits
      next == IF s = 0 THEN {} ELSE Shl(LoadWord(m, w0 + WordBits), WordBits - s)
  IN LowWord(Shr(LoadWord(m, w0), s) \cup next)

(* bitmask_binop_std_into and bitmask_unop_std_into: whole words are       *)
(* stored, the ones and zeros after them are set bit by bit.               *)
Xor == Or \ And
RoundedUp(n) == (n + WordBits - 1) \div WordBits
WholeWords(n) == n \div WordBits
Rest(n) == WholeWords(n) * WordBits .. n - 1
WriteWindow(out, outOff, n, words, ones) ==
  LET stored[k \in 0..WholeWords(n)] ==
        IF k = 0 THEN out.bytes ELSE PutWord(stored[k - 1], outOff \div W + (k - 1) * WordBytes, words[k - 1])
      written == PutBits(New(stored[WholeWords(n)], out.len), {outOff + i : i \in ones}, TRUE)
  IN PutBits(written, {outOff + i : i \in Rest(n) \ ones}, FALSE)

BinopInto(out, outOff, a, ao, b, bo, n, op) ==
  WriteWindow(out, outOff, n,
    [k \in 0..WholeWords(n)-1 |-> BitByBit(op, WindowWord(a, ao, k), WindowWord(b, bo, k), WordBits)],
    {i \in Rest(n) : <<Get(a, ao + i), Get(b, bo + i)>> \in op})
NotInto(out, outOff, m, off, n) ==
  WriteWindow(out, outOff, n,
    [k \in 0..WholeWords(n)-1 |-> Low(WordBits) \ WindowWord(m, off, k)],
    {i \in Rest(n) : ~Get(m, off + i)})

(* popcount_mask: whole words, then the last word cut to the window. *)
LastWordBits(n) == Low(n % WordBits)
Popcount(m, off, n) ==
  LET full == n \div WordBits
      tail == IF n % WordBits = 0 THEN {} ELSE WindowWord(m, off, full) \cap LastWordBits(n)
  IN FoldLeft(LAMBDA acc, k : acc + Cardinality(WindowWord(m, off, k - 1)), Cardinality(tail),
              [k \in 1..full |-> k])

(* iter_window_bits: the positions of the set, or of the cleared, bits. *)
TakesAll(n, k) == Low(WordBits)
Take(n, k) == Low(Least(n - k * WordBits, WordBits))
IterWindow(m, off, n, value) ==
  LET word(k) == LET w == LoadWord(m, off + k * WordBits) IN IF value THEN w ELSE Low(WordBits) \ w
  IN UNION {Shl(word(k) \cap Take(n, k), k * WordBits) : k \in 0..RoundedUp(n) - 1}

(* in_mask: which values occur in the right window decides the result. *)
Only(v) == {v}
InMask(a, ao, b, bo, n) ==
  LET occurring == UNION {Only(Get(b, bo + i)) : i \in 0..n-1}
  IN CASE occurring = {TRUE, FALSE} -> NewSetAll(n, TRUE)
       [] occurring = {TRUE} -> SliceClone(a, ao, n)
       [] occurring = {FALSE} -> NotInto(NewSetAll(n, FALSE), 0, a, ao, n)
       [] OTHER -> NewSetAll(n, FALSE)

(* eq_mask, for offsets on a word boundary *)
EqMask(a, ao, b, bo, n) ==
  LET x == ao \div W  y == bo \div W
      bytes == [k \in 0..BytesFor(n)-1 |-> Low(W) \ SymDiff(a.bytes[x + k], b.bytes[y + k])]
  IN MaskTrailing(New(bytes, n))

(* all_eq_mask, for offsets on a word boundary: the whole words of the     *)
(* bytes of the window are compared, then the bytes left over, the last    *)
(* one cut to the window.                                                  *)
AllEqMask(a, ao, b, bo, n) ==
  LET total == BytesFor(n)
      words == total \div WordBytes
      cut(k) == IF k < n \div W THEN Low(W) ELSE Low(n % W)
  IN \A k \in 0..total-1 :
       LET av == a.bytes[ao \div W + k]  bv == b.bytes[bo \div W + k]
       IN IF k < words * WordBytes THEN av = bv ELSE av \cap cut(k) = bv \cap cut(k)

(* merge_bitmasks_to_new, of two masks *)
MergeToNew(a, b, n) ==
  FoldLeft(LAMBDA m, i : SetBit(m, i, Get(a, i) /\ Get(b, i)), NewSetAll(n, TRUE), [i \in 1..n |-> i - 1])

(***************************************************************************)
(* The vector kernels (simd.rs).  A window off the word boundary is joined *)
(* from the vector at hand and the next one while both lie within the      *)
(* buffer, then word by word with zeros past its end.  The window's words  *)
(* on the boundary are the buffer's own.                                   *)
(***************************************************************************)
BufferWord(m, j) == WordAt(m.bytes, j * WordBytes)
BufferWords(m) == Size(m.bytes) \div WordBytes
WordOrRest(m, j) == IF j < BufferWords(m) THEN BufferWord(m, j) ELSE LoadWord(m, j * WordBits)

VectorAt(m, j) == [i \in 0..VectorWords-1 |-> BufferWord(m, j + i)]
NextWords(cur, nxt) == [i \in 0..VectorWords-1 |-> IF i = VectorWords - 1 THEN nxt[0] ELSE cur[i + 1]]
(* A shift by a whole word would leave the word where it is. *)
Joined(word, next, s) ==
  IF s = 0 THEN word ELSE LowWord(Shr(word, s) \cup Shl(next, (WordBits - s) % WordBits))

Vectors(m, off, n) ==
  LET ahead == BufferWords(m) - (off \div WordBits + VectorWords)
  IN IF off % WordBits = 0 THEN 0
     ELSE Least(WholeWords(n), IF ahead < 0 THEN 0 ELSE ahead) \div VectorWords
JoinedWords(m, off, n, vectors) ==
  LET w0 == off \div WordBits
      s == off % WordBits
      inVector(k) ==
        LET at == w0 + (k \div VectorWords) * VectorWords
            cur == VectorAt(m, at)
        IN Joined(cur[k % VectorWords], NextWords(cur, VectorAt(m, at + VectorWords))[k % VectorWords], s)
  IN [k \in 0..WholeWords(n)-1 |->
        IF k < vectors * VectorWords THEN inVector(k)
        ELSE Joined(WordOrRest(m, w0 + k), WordOrRest(m, w0 + k + 1), s)]

(* bitmask_binop_simd_into takes as many vectors as both operands have. *)
VectorBinopInto(out, outOff, a, ao, b, bo, n, op) ==
  LET vectors == IF ao % WordBits = 0 /\ bo % WordBits = 0 THEN 0
                 ELSE Least(Vectors(a, ao, n), Vectors(b, bo, n))
      left == JoinedWords(a, ao, n, vectors)
      right == JoinedWords(b, bo, n, vectors)
  IN WriteWindow(out, outOff, n, [k \in DOMAIN left |-> BitByBit(op, left[k], right[k], WordBits)],
                 {i \in Rest(n) : <<Get(a, ao + i), Get(b, bo + i)>> \in op})
VectorNotInto(out, outOff, m, off, n) ==
  LET words == JoinedWords(m, off, n, Vectors(m, off, n))
  IN WriteWindow(out, outOff, n, [k \in DOMAIN words |-> Low(WordBits) \ words[k]],
                 {i \in Rest(n) : ~Get(m, off + i)})
VectorNot(m, off, n) == VectorNotInto(NewSetAll(n, FALSE), 0, m, off, n)

(* popcount_mask_simd: the whole words, then the last word of a window off *)
(* the boundary, or the last bytes of one on it, cut to the window.        *)
LastBytes(m, off, n) ==
  UNION {Shl(m.bytes[off \div W + b] \cap (IF b < n \div W THEN Low(W) ELSE Low(n % W)), b * W) :
           b \in WholeWords(n) * WordBytes .. BytesFor(n) - 1}
VectorPopcount(m, off, n) ==
  LET words == JoinedWords(m, off, n, Vectors(m, off, n))
      last == off \div WordBits + WholeWords(n)
      tail == IF off % WordBits = 0 THEN LastBytes(m, off, n)
              ELSE IF n % WordBits = 0 THEN {}
              ELSE Joined(WordOrRest(m, last), WordOrRest(m, last + 1), off % WordBits) \cap LastWordBits(n)
  IN FoldLeft(LAMBDA acc, k : acc + Cardinality(words[k - 1]), Cardinality(tail), [k \in 1..WholeWords(n) |-> k])

(* all_true_mask_simd and all_false_mask_simd *)
AllBits(m, v) ==
  /\ \A k \in 0..WholeWords(m.len)-1 : BufferWord(m, k) = IF v THEN Low(WordBits) ELSE {}
  /\ LastBytes(m, 0, m.len) = IF v THEN Rest(m.len) ELSE {}

(* iter_window_bits_simd: the lanes of a vector that hold a hit, in order, *)
(* then the words after the last whole vector.                             *)
VectorScan(m, off, n, value) ==
  LET hits(k) ==
        LET w == LoadWord(m, off + k * WordBits)
        IN (IF value THEN w ELSE Low(WordBits) \ w) \cap Take(n, k)
      batches == RoundedUp(n) \div VectorWords
      lanes(b) == {i \in 0..VectorWords-1 : hits(b * VectorWords + i) # {}}
      found(k) == SetToSortSeq(Shl(hits(k), k * WordBits), <)
      batched == FoldLeft(LAMBDA acc, b : acc \o FoldLeft(LAMBDA row, i : row \o found((b - 1) * VectorWords + i),
                                                       <<>>, SetToSortSeq(lanes(b - 1), <)),
                          <<>>, [b \in 1..batches |-> b])
  IN FoldLeft(LAMBDA acc, j : acc \o found(batches * VectorWords + j - 1), batched,
              [j \in 1..RoundedUp(n) - batches * VectorWords |-> j])

(* in_mask_simd and not_in_mask_simd count the ones of the right window. *)
VectorInMask(a, ao, b, bo, n) ==
  LET ones == VectorPopcount(b, bo, n)
  IN CASE ones \notin {0, n} -> NewSetAll(n, TRUE)
       [] ones # 0 -> SliceClone(a, ao, n)
       [] n # 0 -> VectorNot(a, ao, n)
       [] OTHER -> NewSetAll(0, FALSE)
VectorNotInMask(a, ao, b, bo, n) == VectorNot(VectorInMask(a, ao, b, bo, n), 0, n)

(* eq_mask_simd and ne_mask_simd, for offsets on a word boundary: whole    *)
(* words of the window's bytes, the bytes left over, then a clean tail.    *)
VectorEqMask(a, ao, b, bo, n) ==
  LET words == BytesFor(n) \div WordBytes
      same(x, y, bits) == Low(bits) \ SymDiff(x, y)
      stored == FoldLeft(LAMBDA bytes, k :
                           PutWord(bytes, k * WordBytes,
                                   same(BufferWord(a, ao \div WordBits + k), BufferWord(b, bo \div WordBits + k), WordBits)),
                         NewSetAll(n, FALSE).bytes, [k \in 1..words |-> k - 1])
  IN MaskTrailing(New([k \in DOMAIN stored |->
       IF k < words * WordBytes THEN stored[k] ELSE same(a.bytes[ao \div W + k], b.bytes[bo \div W + k], W)], n))
VectorNeMask(a, ao, b, bo, n) == Invert(VectorEqMask(a, ao, b, bo, n))

(* all_eq_mask_simd and all_ne_mask_simd: as in all_eq_mask, the words are *)
(* those of the window's bytes, and only bytes after them are cut.         *)
VectorAllEqMask(a, ao, b, bo, n) ==
  LET words == BytesFor(n) \div WordBytes
      cut(bytes, off) == UNION {Shl(bytes[off \div W + k] \cap (IF k < n \div W THEN Low(W) ELSE Low(n % W)), k * W) :
                                  k \in words * WordBytes .. BytesFor(n) - 1}
  IN /\ \A k \in 0..words-1 : BufferWord(a, ao \div WordBits + k) = BufferWord(b, bo \div WordBits + k)
     /\ cut(a.bytes, ao) = cut(b.bytes, bo)
VectorAllNeMask(a, ao, b, bo, n) == ~VectorAllEqMask(a, ao, b, bo, n)

(***************************************************************************)
(* The lanes of a vector of values that starts at row off, taken from and  *)
(* put into the words of a null mask (src/utils.rs): a group of lanes may  *)
(* begin in one word and end in the next.                                  *)
(***************************************************************************)
MaskWord(m, j) == LoadWord(m, j * WordBits)
SimdMask(m, off, n, lanes) ==
  LET j == off \div WordBits
      s == off % WordBits
      next == IF s > 0 /\ j + 1 < RoundedUp(m.len) THEN Shl(MaskWord(m, j + 1), WordBits - s) ELSE {}
  IN (Shr(MaskWord(m, j), s) \cup next) \cap Low(Least(lanes, n - off))
WriteSimdMaskBits(m, off, hit, lanes) ==
  LET j == off \div WordBits
      s == off % WordBits
      put(x, k, cleared, bits) == New(PutWord(x.bytes, k * WordBytes, LowWord((MaskWord(x, k) \ cleared) \cup bits)), x.len)
      first == put(m, j, Shl(Low(lanes), s), Shl(hit, s))
  IN IF s > 0 /\ s + lanes > WordBits
     THEN put(first, j + 1, Low(lanes - (WordBits - s)), Shr(hit, WordBits - s))
     ELSE first

(* The bitwise kernels over integers (src/kernels/bitwise.rs), here of W   *)
(* bits: a null row becomes zero and stays null.  The dense path of the    *)
(* binary kernel is taken when a count of the mask finds no null.          *)
Zero == {}
BitwiseRows(op, lhs, rhs) == [i \in DOMAIN lhs |-> BitByBit(op, lhs[i], rhs[i], W)]
NotRows(rows) == [i \in DOMAIN rows |-> Low(W) \ rows[i]]
MaskedRows(rows, m, out) ==
  LET valid == {i \in DOMAIN rows : Get(m, i)}
  IN [data |-> [i \in DOMAIN rows |-> IF i \in valid THEN rows[i] ELSE Zero],
      mask |-> PutBits(PutBits(out, valid, TRUE), DOMAIN rows \ valid, FALSE)]
VectorMaskedRows(rows, m, out, lanes, dense) ==
  LET n == Size(rows)
      vectorised == (n \div lanes) * lanes
      taken(v) == IF dense THEN Low(lanes) ELSE SimdMask(m, v * lanes, n, lanes)
      after[v \in 0..n \div lanes] ==
        IF v = 0 THEN out ELSE WriteSimdMaskBits(after[v - 1], (v - 1) * lanes, taken(v - 1), lanes)
      rest == {i \in vectorised..n-1 : dense \/ Get(m, i)}
      kept(i) == IF i < vectorised THEN i % lanes \in taken(i \div lanes) ELSE i \in rest
  IN [data |-> [i \in 0..n-1 |-> IF kept(i) THEN rows[i] ELSE Zero],
      mask |-> PutBits(PutBits(after[n \div lanes], rest, TRUE), (vectorised..n-1) \ rest, FALSE)]
IntBitwiseMasked(op, lhs, rhs, m, out, lanes) ==
  VectorMaskedRows(BitwiseRows(op, lhs, rhs), m, out, lanes, AllBits(m, TRUE))
IntNotMasked(input, m, out, lanes) == VectorMaskedRows(NotRows(input), m, out, lanes, FALSE)

-----------------------------------------------------------------------------
Windows == {w \in (0..mask.len) \X (0..mask.len) : w[1] + w[2] <= mask.len}
OnWords(off) == off % WordBits = 0

(* A row of bits that starts at bit lead, a byte after it, v all around.   *)
Around(bits, lead, v) ==
  [i \in 0..lead + Size(bits) + W - 1 |-> IF i \in lead..lead + Size(bits) - 1 THEN bits[i - lead] ELSE v]

WordsWriteOnlyTheirWindow ==
  \A w \in Windows, bo \in 0..1, lead \in {0, W}, v \in BOOLEAN :
    LET n == w[2]
        b == Append2(Constantly(bo, ~v), Window(Here, w[1], n))
        rhs == ExtendFromRange(NewSetAll(bo, ~v), mask, w[1], n)
        out == NewSetAll(lead + n + W, v)
    IN /\ Reads(BinopInto(out, lead, mask, 0, rhs, bo, n, And),
                Around([i \in 0..n-1 |-> Here[i] /\ b[bo + i]], lead, v))
       /\ Reads(BinopInto(out, lead, rhs, bo, mask, 0, n, Or),
                Around([i \in 0..n-1 |-> Here[i] \/ b[bo + i]], lead, v))
       /\ Reads(BinopInto(out, lead, mask, w[1], mask, 0, n, Xor),
                Around([i \in 0..n-1 |-> Here[w[1] + i] # Here[i]], lead, v))
       /\ Reads(NotInto(out, lead, mask, w[1], n), Around([i \in 0..n-1 |-> ~Here[w[1] + i]], lead, v))

(* Masks of several vectors: the bits at hand over and over, every other   *)
(* time inverted, and windows of them that fill some vectors, end within   *)
(* one, or leave no room for the vector after them.                        *)
RepeatedBits == [i \in 0..7 * WordBits + 1 |-> Here[i % mask.len] # ((i \div mask.len) % 2 = 1)]
VectorWindows == {<<0, 5 * WordBits + 1>>, <<1, 4 * WordBits>>, <<WordBits - 1, 6 * WordBits>>,
                  <<WordBits + 2, 6 * WordBits>>, <<2 * WordBits, 5 * WordBits>>, <<3, W + 1>>}
Filling == mask.len = MaxLen

VectorsWriteOnlyTheirWindow ==
  Filling =>
    \A long \in {RepeatedBits} : \A m \in {FromBools(long)} : \A w \in VectorWindows, v \in BOOLEAN :
      LET n == w[2]
          out == NewSetAll(W + n + W, v)
      IN /\ Reads(VectorBinopInto(out, W, m, w[1], m, 2, n, Xor),
                  Around([i \in 0..n-1 |-> long[w[1] + i] # long[2 + i]], W, v))
         /\ Reads(VectorBinopInto(out, W, m, 0, m, w[1], n, And),
                  Around([i \in 0..n-1 |-> long[i] /\ long[w[1] + i]], W, v))
         /\ Reads(VectorNotInto(out, W, m, w[1], n), Around([i \in 0..n-1 |-> ~long[w[1] + i]], W, v))

(* Rows of integers under the mask, in vectors that divide a word and in   *)
(* ones that do not.                                                       *)
IntegersKeepTheirNulls ==
  \A lanes \in {2, 4}, v \in BOOLEAN :
    LET lhs == [i \in 0..mask.len-1 |-> {b \in 0..W-1 : (i + b) % 2 = 0}]
        rhs == [i \in 0..mask.len-1 |-> {i % W}]
        out == NewSetAll(mask.len, v)
        holds(result, rows) == /\ Reads(result.mask, Here)
                               /\ result.data = [i \in 0..mask.len-1 |-> IF Here[i] THEN rows[i] ELSE {}]
        xored == [i \in 0..mask.len-1 |-> SymDiff(lhs[i], rhs[i])]
        negated == [i \in 0..mask.len-1 |-> (0..W-1) \ lhs[i]]
        common == [i \in 0..mask.len-1 |-> lhs[i] \cap rhs[i]]
    IN /\ holds(IntBitwiseMasked(Xor, lhs, rhs, mask, out, lanes), xored)
       /\ holds(IntNotMasked(lhs, mask, out, lanes), negated)
       /\ holds(MaskedRows(BitwiseRows(And, lhs, rhs), mask, out), common)

(* A binary or unary kernel writes the result of every bit of its window,  *)
(* at any input offsets and any byte of the output, word by word or a      *)
(* vector at a time, and leaves the rest of the output alone: adjacent     *)
(* windows of one output can be filled independently (std.rs:85-90,        *)
(* simd.rs:159-178).  The lanes of a vector of integers write the bits of  *)
(* their own rows (src/utils.rs:256-285).                                  *)
KernelsWriteOnlyTheirWindow ==
  WordsWriteOnlyTheirWindow /\ VectorsWriteOnlyTheirWindow /\ IntegersKeepTheirNulls

(* Counting and scanning see the bits of the window and no other, though   *)
(* the words they load reach past it.                                      *)
ScansSeeTheWindow ==
  \A w \in Windows, v \in BOOLEAN :
    LET found == {i \in 0..w[2]-1 : Here[w[1] + i] = v}
    IN /\ IterWindow(mask, w[1], w[2], v) = found
       /\ v => Popcount(mask, w[1], w[2]) = Cardinality(found)

(* A bit is in the set when its value occurs in the right window; two bits *)
(* are equal, or valid in both masks, when they are so one by one.         *)
ComparisonsAreBitwise ==
  /\ \A w \in Windows :
       Reads(InMask(mask, 0, mask, w[1], w[2]),
             [i \in 0..w[2]-1 |-> \E j \in 0..w[2]-1 : Here[w[1] + j] = Here[i]])
  /\ \A w \in {x \in Windows : OnWords(x[1])} :
       Reads(EqMask(mask, w[1], mask, 0, w[2]), [i \in 0..w[2]-1 |-> Here[w[1] + i] = Here[i]])
  /\ Reads(MergeToNew(mask, Invert(mask), mask.len), Constantly(mask.len, FALSE))

(* The bytes of a window end in a partial byte that is not the last of a   *)
(* word, or in none.                                                       *)
CutIsLast(n) == n % W = 0 \/ BytesFor(n) % WordBytes # 0

VectorsReadTheirWindow ==
  Filling =>
    \A long \in {RepeatedBits} : \A m \in {FromBools(long)} : \A w \in VectorWindows :
      LET n == w[2]
          here == [i \in 0..n-1 |-> long[w[1] + i]]
          seen == {here[i] : i \in 0..n-1}
          ofTrue == {i \in 0..n-1 : here[i]}
          vectors == Vectors(m, w[1], n)
      IN /\ vectors > 0 => w[1] \div WordBits + (vectors + 1) * VectorWords <= BufferWords(m)
         /\ VectorPopcount(m, w[1], n) = Cardinality(ofTrue)
         /\ \A v \in BOOLEAN :
              LET found == IF v THEN ofTrue ELSE (0..n-1) \ ofTrue
                  scan == VectorScan(m, w[1], n, v)
              IN /\ Len(scan) = Cardinality(found)
                 /\ ToSet(scan) = found
                 /\ \A i \in 2..Len(scan) : scan[i - 1] < scan[i]
         /\ Reads(VectorInMask(m, 1, m, w[1], n), [i \in 0..n-1 |-> long[1 + i] \in seen])
         /\ Reads(VectorNotInMask(m, 1, m, w[1], n), [i \in 0..n-1 |-> long[1 + i] \notin seen])
         /\ OnWords(w[1]) =>
              /\ Reads(VectorEqMask(m, w[1], m, 0, n), [i \in 0..n-1 |-> here[i] = long[i]])
              /\ Reads(VectorNeMask(m, w[1], m, 0, n), [i \in 0..n-1 |-> here[i] # long[i]])
              /\ CutIsLast(n) => \A j \in {n - 1, n} :
                   VectorAllNeMask(m, w[1], PutBits(m, {w[1] + j}, ~long[w[1] + j]), w[1], n) <=> j < n
         /\ \A v \in BOOLEAN : AllBits(SliceClone(m, w[1], n), v) <=> seen = {v}

(* Kernels that read a mask depend on the bits of the window alone; the    *)
(* vector kernels give what the word kernels do, and load no vector that   *)
(* reaches past the buffer.                                                *)
KernelsReadTheirWindow == ScansSeeTheWindow /\ ComparisonsAreBitwise /\ VectorsReadTheirWindow

(* "Returns true if all bits are equal across two slices. Logical equality *)
(* on the valid bits only" (std.rs:488-489).                               *)
AllEqComparesTheWindow ==
  \A w \in {x \in Windows : OnWords(x[1])} :
    AllEqMask(mask, w[1], mask, 0, w[2]) <=> \A i \in 0..w[2]-1 : Here[w[1] + i] = Here[i]
=============================================================================
