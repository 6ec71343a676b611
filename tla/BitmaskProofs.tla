--------------------------- MODULE BitmaskProofs ---------------------------
(***************************************************************************)
(* For any width of a byte and of a word: every call keeps a mask in its   *)
(* only form, with no byte past its length and no bit set past it, and     *)
(* does to its bits what it says.  The bound MaxLen plays no part.  Loops  *)
(* over bytes and words are recursive functions of the number of steps;    *)
(* each is shown equal, by induction on the steps, to what it has written  *)
(* so far.  The kernels over windows write words, and vectors of words;    *)
(* what each writes is read back bit by bit, through the place a bit has   *)
(* in its byte and in its word.                                            *)
(***************************************************************************)
EXTENDS BitmaskKernels, FiniteSetTheorems, TLAPS

USE WidthAssumption

(* What the calls work on: bytes for the length, of any padding.           *)
Raw(m) == m.len \in Nat /\ m.bytes \in Packed(m.len) /\ m = New(m.bytes, m.len)
Row(m) == Raw(m) /\ Canonical(m)

(* The bits of byte k that a mask of n bits may set. *)
Inside(k, n) == {b \in 0..W-1 : k * W + b < n}

-----------------------------------------------------------------------------
(* Arithmetic of bits and bytes                                            *)

(* A number of bits is a number of whole bytes and a rest.                 *)
LEMMA WholeAndRest ==
  ASSUME NEW n \in Nat
  PROVE  /\ n \div W \in Nat /\ n % W \in 0..W-1 /\ (n \div W) * W \in Nat
         /\ n = (n \div W) * W + (n % W)
<1>1. n \div W \in Nat /\ n % W \in 0..W-1
  OBVIOUS
<1>2. (n \div W) * W \in Nat
  BY <1>1
<1>3. n = W * (n \div W) + (n % W)
  OBVIOUS
<1>4. W * (n \div W) = (n \div W) * W
  BY <1>1
<1> QED BY <1>1, <1>2, <1>3, <1>4

(* Multiples of the width keep the order of their factors.                 *)
LEMMA MultiplesOrdered ==
  ASSUME NEW i \in Nat, NEW j \in Nat
  PROVE  /\ i * W \in Nat
         /\ (i + 1) * W = i * W + W
         /\ (i + j) * W = i * W + j * W
         /\ i <= j => i * W <= j * W
         /\ i * W < j * W => i + 1 <= j
<1>1. ASSUME NEW k \in Nat, NEW l \in Nat, k <= l PROVE k * W <= l * W
  <2>1. l - k \in Nat /\ l = k + (l - k)
    BY <1>1
  <2>2. PICK d \in Nat : l = k + d
    BY <2>1
  <2>3. (k + d) * W = k * W + d * W /\ d * W \in Nat /\ k * W \in Nat
    OBVIOUS
  <2> QED BY <2>2, <2>3
<1>2. ASSUME i * W < j * W, ~(i + 1 <= j) PROVE FALSE
  <2>1. j * W <= i * W
    BY <1>1, <1>2
  <2>2. i * W \in Nat /\ j * W \in Nat
    OBVIOUS
  <2> QED BY <1>2, <2>1, <2>2
<1>3. i * W \in Nat /\ (i + 1) * W = i * W + W /\ (i + j) * W = i * W + j * W
  OBVIOUS
<1> QED BY <1>1, <1>2, <1>3

(* The quotient of what lies between two multiples.                        *)
LEMMA QuotientIs ==
  ASSUME NEW n \in Nat, NEW q \in Nat, q * W <= n, n < q * W + W
  PROVE  n \div W = q
<1> DEFINE p == n \div W
<1>1. p \in Nat /\ p * W \in Nat /\ p * W <= n /\ n < p * W + W
  BY WholeAndRest
<1> HIDE DEF p
<1>2. p * W < (q + 1) * W /\ q * W < (p + 1) * W
  BY <1>1, MultiplesOrdered
<1>3. p + 1 <= q + 1 /\ q + 1 <= p + 1
  BY <1>1, <1>2, MultiplesOrdered
<1>4. p = q
  BY <1>1, <1>3
<1> QED BY <1>4 DEF p

(* The bytes of n bits hold them, and one byte less does not.              *)
LEMMA BytesForHolds ==
  ASSUME NEW n \in Nat
  PROVE  /\ BytesFor(n) \in Nat /\ BytesFor(n) * W \in Nat
         /\ n <= BytesFor(n) * W /\ BytesFor(n) * W < n + W
<1>1. n + W - 1 \in Nat
  OBVIOUS
<1>2. /\ BytesFor(n) \in Nat /\ BytesFor(n) * W \in Nat
      /\ BytesFor(n) * W <= n + W - 1 /\ n + W - 1 < BytesFor(n) * W + W
  BY <1>1, WholeAndRest DEF BytesFor
<1> QED BY <1>2

(* Only one number of bytes does both.                                     *)
LEMMA BytesForIs ==
  ASSUME NEW n \in Nat, NEW q \in Nat, n <= q * W, q * W < n + W
  PROVE  BytesFor(n) = q
<1>1. n + W - 1 \in Nat /\ q * W <= n + W - 1 /\ n + W - 1 < q * W + W
  BY MultiplesOrdered
<1> QED BY <1>1, QuotientIs DEF BytesFor

(* More bits take no fewer bytes, and whole bytes more take as many more.  *)
LEMMA BytesForGrows ==
  ASSUME NEW n \in Nat, NEW p \in Nat
  PROVE  /\ n <= p => BytesFor(n) <= BytesFor(p)
         /\ BytesFor(n + p * W) = BytesFor(n) + p
<1> DEFINE a == BytesFor(n)
           c == BytesFor(p)
<1>1. /\ a \in Nat /\ a * W \in Nat /\ n <= a * W /\ a * W < n + W
      /\ c \in Nat /\ c * W \in Nat /\ p <= c * W
  BY BytesForHolds
<1> HIDE DEF a, c
<1>2. ASSUME n <= p PROVE a <= c
  <2>1. a * W < (c + 1) * W
    BY <1>1, <1>2, MultiplesOrdered
  <2>2. c + 1 \in Nat
    BY <1>1
  <2>3. a + 1 <= c + 1
    BY <1>1, <2>1, <2>2, MultiplesOrdered
  <2> QED BY <1>1, <2>3
<1>3. BytesFor(n + p * W) = a + p
  <2>1. (a + p) * W = a * W + p * W /\ p * W \in Nat
    BY <1>1, MultiplesOrdered
  <2>2. /\ n + p * W \in Nat /\ a + p \in Nat
        /\ n + p * W <= (a + p) * W /\ (a + p) * W < n + p * W + W
    BY <1>1, <2>1
  <2> QED BY <2>2, BytesForIs
<1> QED BY <1>2, <1>3 DEF a, c

(* Whole bytes of bits, and a rest that takes one more.                    *)
LEMMA BytesForSplits ==
  ASSUME NEW n \in Nat
  PROVE  /\ n % W = 0 => BytesFor(n) = n \div W
         /\ n % W # 0 => BytesFor(n) = n \div W + 1
<1> DEFINE q == n \div W
           r == n % W
<1>1. q \in Nat /\ r \in 0..W-1 /\ q * W \in Nat /\ n = q * W + r
  BY WholeAndRest
<1> HIDE DEF q, r
<1>2. r = 0 => BytesFor(n) = q
  <2>1. r = 0 => n <= q * W /\ q * W < n + W
    BY <1>1
  <2> QED BY <1>1, <2>1, BytesForIs
<1>3. r # 0 => BytesFor(n) = q + 1
  <2>1. (q + 1) * W = q * W + W /\ q + 1 \in Nat
    BY <1>1, MultiplesOrdered
  <2>2. r # 0 => n <= (q + 1) * W /\ (q + 1) * W < n + W
    BY <1>1, <2>1
  <2> QED BY <2>1, <2>2, BytesForIs
<1> QED BY <1>2, <1>3 DEF q, r

-----------------------------------------------------------------------------
(* Masks                                                                   *)

(* A mask made from bytes for its length has them.                         *)
LEMMA NewIsRaw ==
  ASSUME NEW n \in Nat, NEW bytes \in Packed(n)
  PROVE  /\ Raw(New(bytes, n)) /\ New(bytes, n).len = n /\ New(bytes, n).bytes = bytes
         /\ New(bytes, n).view = {}
BY DEF Raw, New

(* The parts of a raw mask.                                                *)
LEMMA RawParts ==
  ASSUME NEW m, Raw(m)
  PROVE  /\ m.len \in Nat /\ m.bytes \in Packed(m.len) /\ m.view = {}
         /\ DOMAIN m.bytes = 0..BytesFor(m.len)-1
         /\ \A k \in 0..BytesFor(m.len)-1 : m.bytes[k] \in Byte
<1>1. m.len \in Nat /\ m.bytes \in Packed(m.len) /\ m = New(m.bytes, m.len)
  BY DEF Raw
<1>2. m.view = {}
  BY <1>1 DEF New
<1> QED BY <1>1, <1>2 DEF Packed

(* Every byte but the last lies within the length.                         *)
LEMMA EarlierBytesInside ==
  ASSUME NEW n \in Nat, NEW k \in Nat, k + 1 < BytesFor(n)
  PROVE  Inside(k, n) = 0..W-1
<1> DEFINE j == BytesFor(n)
<1>1. j \in Nat /\ j * W < n + W
  BY BytesForHolds
<1>2. (k + 2) * W <= j * W /\ (k + 1) * W = k * W + W /\ (k + 2) * W = k * W + W + W /\ k * W \in Nat
  <2> HIDE DEF j
  <2>1. k + 2 \in Nat /\ k + 2 <= j /\ k + 1 \in Nat
    BY <1>1 DEF j
  <2>2. (k + 2) * W <= j * W
    BY <1>1, <2>1, MultiplesOrdered
  <2>3. (k + 1) * W = k * W + W /\ k * W \in Nat
    BY MultiplesOrdered
  <2>4. ((k + 1) + 1) * W = (k + 1) * W + W
    BY <2>1, MultiplesOrdered
  <2>5. (k + 1) + 1 = k + 2
    OBVIOUS
  <2> QED BY <2>2, <2>3, <2>4, <2>5
<1>3. j * W \in Nat
  BY BytesForHolds
<1> HIDE DEF j
<1>4. k * W + W <= n
  BY <1>1, <1>2, <1>3
<1> QED BY <1>2, <1>4 DEF Inside

(* The bits mask_trailing_bits keeps of the last byte lie within it too.   *)
LEMMA TrailingInside ==
  ASSUME NEW n \in Nat, n > 0
  PROVE  /\ BytesFor(n) - 1 \in Nat
         /\ Trailing(n) = Inside(BytesFor(n) - 1, n)
<1> DEFINE q == n \div W
           r == n % W
<1>1. q \in Nat /\ r \in 0..W-1 /\ q * W \in Nat /\ n = q * W + r
  BY WholeAndRest
<1>2. (r = 0 => BytesFor(n) = q) /\ (r # 0 => BytesFor(n) = q + 1)
  BY BytesForSplits
<1>3. Trailing(n) = IF r = 0 THEN Low(W) ELSE Low(r)
  BY DEF Trailing
<1> HIDE DEF q, r
<1>4. CASE r = 0
  <2>1. q # 0
    BY <1>1, <1>4
  <2>2. q - 1 \in Nat /\ q = (q - 1) + 1
    BY <1>1, <2>1
  <2>3. q * W = (q - 1) * W + W /\ (q - 1) * W \in Nat
    BY <2>2, MultiplesOrdered
  <2>4. Inside(q - 1, n) = 0..W-1
    BY <1>1, <1>4, <2>3 DEF Inside
  <2> QED BY <1>2, <1>3, <1>4, <2>2, <2>4 DEF Low
<1>5. CASE r # 0
  <2>1. BytesFor(n) - 1 = q
    BY <1>1, <1>2, <1>5
  <2>2. Inside(q, n) = 0..r-1
    BY <1>1, <1>5 DEF Inside
  <2> QED BY <1>1, <1>3, <1>5, <2>1, <2>2 DEF Low
<1> QED BY <1>4, <1>5

(* A mask whose bytes have no bit past the length is in its only form.     *)
LEMMA RowIs ==
  ASSUME NEW n \in Nat, NEW bytes \in Packed(n),
         \A k \in 0..BytesFor(n)-1 : bytes[k] \subseteq Inside(k, n)
  PROVE  Row(New(bytes, n)) /\ New(bytes, n).len = n
<1> DEFINE m == New(bytes, n)
<1>1. Raw(m) /\ m.len = n /\ m.bytes = bytes /\ m.view = {}
  BY NewIsRaw
<1>2. DOMAIN bytes = 0..BytesFor(n)-1
  BY DEF Packed
<1> HIDE DEF m
<1>3. Canonical(m)
  BY <1>1, <1>2 DEF Canonical, Inside
<1> QED BY <1>1, <1>3 DEF Row, m

(* And the other way round.                                                *)
LEMMA RowInside ==
  ASSUME NEW m, Row(m)
  PROVE  \A k \in 0..BytesFor(m.len)-1 : m.bytes[k] \subseteq Inside(k, m.len)
BY DEF Row, Canonical, Inside

(* mask_trailing_bits brings any bytes for the length to the only form.    *)
LEMMA MaskTrailingRow ==
  ASSUME NEW n \in Nat, NEW bytes \in Packed(n)
  PROVE  Row(MaskTrailing(New(bytes, n))) /\ MaskTrailing(New(bytes, n)).len = n
<1>1. /\ New(bytes, n).len = n /\ New(bytes, n).bytes = bytes
  BY NewIsRaw
<1>2. CASE n = 0
  <2>1. BytesFor(n) = 0
    <3>1. 0 <= 0 * W /\ 0 * W < 0 + W
      OBVIOUS
    <3> QED BY <1>2, <3>1, BytesForIs
  <2>2. \A k \in 0..BytesFor(n)-1 : bytes[k] \subseteq Inside(k, n)
    BY <2>1
  <2>3. MaskTrailing(New(bytes, n)) = New(bytes, n)
    BY <1>1, <1>2 DEF MaskTrailing
  <2> QED BY <2>2, <2>3, RowIs
<1>3. CASE n # 0
  <2> DEFINE j == BytesFor(n) - 1
             cut == [bytes EXCEPT ![j] = bytes[j] \cap Trailing(n)]
  <2>1. j \in Nat /\ Trailing(n) = Inside(j, n)
    BY <1>3, TrailingInside
  <2>2. BytesFor(n) \in Nat
    BY BytesForHolds
  <2>3. j \in 0..BytesFor(n)-1 /\ bytes \in [0..BytesFor(n)-1 -> Byte]
    BY <2>1, <2>2 DEF Packed
  <2>4. MaskTrailing(New(bytes, n)) = New(cut, n)
    BY <1>1, <1>3 DEF MaskTrailing, New
  <2> HIDE DEF j
  <2>5. cut \in Packed(n)
    BY <2>3 DEF Packed, Byte
  <2>6. ASSUME NEW k \in 0..BytesFor(n)-1 PROVE cut[k] \subseteq Inside(k, n)
    <3>1. CASE k = j
      BY <2>1, <2>3, <3>1
    <3>2. CASE k # j
      <4>1. cut[k] = bytes[k] /\ bytes[k] \subseteq 0..W-1
        BY <2>3, <3>2 DEF Byte
      <4>2. k \in Nat /\ k + 1 < BytesFor(n)
        BY <2>2, <3>2 DEF j
      <4> QED BY <4>1, <4>2, EarlierBytesInside
    <3> QED BY <3>1, <3>2
  <2> HIDE DEF cut
  <2> QED BY <2>4, <2>5, <2>6, RowIs
<1> QED BY <1>2, <1>3

-----------------------------------------------------------------------------
(* The calls                                                               *)

(* A buffer is resized to the bytes it is asked for.                       *)
LEMMA ResizedIsPacked ==
  ASSUME NEW m, Raw(m), NEW n \in Nat, NEW fill \in Byte
  PROVE  Resized(m.bytes, BytesFor(n), fill) \in Packed(n)
<1>1. /\ DOMAIN m.bytes = 0..BytesFor(m.len)-1
      /\ \A k \in 0..BytesFor(m.len)-1 : m.bytes[k] \in Byte
  BY RawParts
<1>2. \A k \in 0..BytesFor(n)-1 : (IF k \in DOMAIN m.bytes THEN m.bytes[k] ELSE fill) \in Byte
  BY <1>1
<1> QED BY <1>2 DEF Resized, Packed

(* The number of bytes of a mask.                                          *)
LEMMA SizeOfBytes == ASSUME NEW m, Raw(m) PROVE Size(m.bytes) = BytesFor(m.len)
<1>1. DOMAIN m.bytes = 0..BytesFor(m.len)-1 /\ BytesFor(m.len) \in Nat
  BY RawParts, BytesForHolds
<1>2. \A b \in Nat : Cardinality(0..b-1) = b
  <2> SUFFICES ASSUME NEW b \in Nat PROVE Cardinality(0..b-1) = b
    OBVIOUS
  <2>1. Cardinality(0..b-1) = IF 0 > b - 1 THEN 0 ELSE (b - 1) - 0 + 1
    BY FS_Interval
  <2> QED BY <2>1
<1> QED BY <1>1, <1>2 DEF Size

(* new_set_all                                                             *)
LEMMA NewSetAllRow == ASSUME NEW n \in Nat, NEW v \in BOOLEAN PROVE Row(NewSetAll(n, v)) /\ NewSetAll(n, v).len = n
<1>1. [i \in 0..BytesFor(n)-1 |-> Fill(v)] \in Packed(n)
  BY DEF Fill, Low, Byte, Packed
<1> QED BY <1>1, MaskTrailingRow DEF NewSetAll

(* ensure_capacity grows a mask with clear bits, or leaves it alone.       *)
LEMMA EnsureCapacityRow ==
  ASSUME NEW m, Row(m), NEW n \in Nat
  PROVE  /\ Row(EnsureCapacity(m, n))
         /\ n > m.len => EnsureCapacity(m, n).len = n
         /\ n <= m.len => EnsureCapacity(m, n) = m
<1>1. Raw(m) /\ m.len \in Nat /\ Size(m.bytes) = BytesFor(m.len)
  BY SizeOfBytes DEF Row, Raw
<1>2. BytesFor(n) \in Nat /\ BytesFor(m.len) \in Nat
  BY <1>1, BytesForHolds
<1>3. CASE n > m.len
  <2>1. BytesFor(m.len) <= BytesFor(n)
    BY <1>1, <1>3, BytesForGrows
  <2>2. (IF Size(m.bytes) < BytesFor(n) THEN BytesFor(n) ELSE Size(m.bytes)) = BytesFor(n)
    BY <1>1, <1>2, <2>1
  <2> DEFINE bytes == Resized(m.bytes, BytesFor(n), {})
  <2>3. bytes \in Packed(n)
    BY <1>1, ResizedIsPacked DEF Byte
  <2>4. EnsureCapacity(m, n) = MaskTrailing(New(bytes, n))
    BY <1>3, <2>2 DEF EnsureCapacity
  <2> HIDE DEF bytes
  <2> QED BY <1>1, <1>3, <2>3, <2>4, MaskTrailingRow
<1>4. CASE n <= m.len
  <2>1. BytesFor(n) <= BytesFor(m.len)
    BY <1>1, <1>4, BytesForGrows
  <2>2. (IF Size(m.bytes) < BytesFor(n) THEN BytesFor(n) ELSE Size(m.bytes)) = BytesFor(m.len)
    BY <1>1, <1>2, <2>1
  <2>3. m.bytes \in [0..BytesFor(m.len)-1 -> Byte] /\ m = New(m.bytes, m.len)
    BY <1>1 DEF Raw, Packed
  <2>4. Resized(m.bytes, BytesFor(m.len), {}) = m.bytes
    BY <2>3 DEF Resized
  <2>5. EnsureCapacity(m, n) = New(m.bytes, m.len)
    BY <1>1, <1>4, <2>2, <2>4 DEF EnsureCapacity
  <2> QED BY <1>1, <1>4, <2>3, <2>5
<1> QED BY <1>1, <1>3, <1>4

(* Setting bits one by one keeps the bytes of a mask.                      *)
LEMMA PutBitsRaw ==
  ASSUME NEW m, Raw(m), NEW S \in SUBSET Nat, NEW v \in BOOLEAN
  PROVE  /\ PutBits(m, S, v).bytes \in Packed(m.len)
         /\ PutBits(m, S, v) = New(PutBits(m, S, v).bytes, m.len)
         /\ Raw(PutBits(m, S, v)) /\ PutBits(m, S, v).len = m.len
<1> DEFINE hit(k) == {i % W : i \in {x \in S : x \div W = k}}
           bytes == [k \in DOMAIN m.bytes |-> IF v THEN m.bytes[k] \cup hit(k) ELSE m.bytes[k] \ hit(k)]
<1>1. /\ DOMAIN m.bytes = 0..BytesFor(m.len)-1 /\ m.len \in Nat
      /\ \A k \in 0..BytesFor(m.len)-1 : m.bytes[k] \subseteq 0..W-1
  BY RawParts DEF Byte
<1>2. \A k : hit(k) \subseteq 0..W-1
  BY WholeAndRest
<1> HIDE DEF hit
<1>3. bytes \in Packed(m.len)
  BY <1>1, <1>2 DEF Packed, Byte
<1>4. PutBits(m, S, v) = New(bytes, m.len)
  BY DEF PutBits, hit
<1> HIDE DEF bytes
<1> QED BY <1>1, <1>3, <1>4, NewIsRaw

(* Setting or clearing bits below the length keeps the only form.          *)
LEMMA PutBitsRow ==
  ASSUME NEW m, Row(m), NEW S \in SUBSET (0..m.len-1), NEW v \in BOOLEAN
  PROVE  Row(PutBits(m, S, v)) /\ PutBits(m, S, v).len = m.len
<1> DEFINE hit(k) == {i % W : i \in {x \in S : x \div W = k}}
           bytes == [k \in DOMAIN m.bytes |-> IF v THEN m.bytes[k] \cup hit(k) ELSE m.bytes[k] \ hit(k)]
<1>1. Raw(m) /\ m.len \in Nat /\ DOMAIN m.bytes = 0..BytesFor(m.len)-1
  BY RawParts DEF Row
<1>2. PutBits(m, S, v) = New(bytes, m.len) /\ PutBits(m, S, v).bytes = bytes
  BY DEF PutBits, New
<1>3. S \in SUBSET Nat
  BY <1>1
<1>4. bytes \in Packed(m.len)
  BY <1>1, <1>2, <1>3, PutBitsRaw
<1>5. ASSUME NEW k \in 0..BytesFor(m.len)-1 PROVE bytes[k] \subseteq Inside(k, m.len)
  <2>1. m.bytes[k] \subseteq Inside(k, m.len)
    BY RowInside
  <2>2. ASSUME NEW i \in S, i \div W = k PROVE i % W \in Inside(k, m.len)
    <3>1. i \in Nat /\ i < m.len
      BY <1>1
    <3>2. i % W \in 0..W-1 /\ i = (i \div W) * W + (i % W)
      BY <3>1, WholeAndRest
    <3> QED BY <2>2, <3>1, <3>2 DEF Inside
  <2>3. hit(k) \subseteq Inside(k, m.len)
    BY <2>2
  <2>4. bytes[k] = IF v THEN m.bytes[k] \cup hit(k) ELSE m.bytes[k] \ hit(k)
    BY <1>1
  <2> HIDE DEF hit, bytes
  <2> QED BY <2>1, <2>3, <2>4
<1> HIDE DEF bytes
<1> QED BY <1>1, <1>2, <1>4, <1>5, RowIs

(* set *)
LEMMA SetBitRow == ASSUME NEW m, Row(m), NEW i \in Nat, NEW v \in BOOLEAN PROVE Row(SetBit(m, i, v))
<1> DEFINE g == EnsureCapacity(m, i + 1)
<1>1. Raw(g) /\ g.len \in Nat
  BY EnsureCapacityRow DEF Row, Raw
<1> HIDE DEF g
<1>2. PutBits(g, {i}, v) = New(PutBits(g, {i}, v).bytes, g.len) /\ PutBits(g, {i}, v).bytes \in Packed(g.len)
  BY <1>1, PutBitsRaw
<1>3. Row(MaskTrailing(PutBits(g, {i}, v)))
  BY <1>1, <1>2, MaskTrailingRow
<1> QED BY <1>3 DEF SetBit, g

(* set_range: the whole bytes in the middle end before the range does.     *)
LEMMA SetRangeRow ==
  ASSUME NEW m, Row(m), NEW s \in Nat, NEW e \in Nat, NEW v \in BOOLEAN
  PROVE  Row(SetRange(m, s, e, v))
<1> DEFINE g == EnsureCapacity(m, e)
           head == PutBits(g, s .. Least(e, BytesFor(s) * W) - 1, v)
           whole == [k \in DOMAIN g.bytes |-> IF k \in Middle(s, e) THEN Fill(v) ELSE head.bytes[k]]
           middle == New(whole, g.len)
<1>1. Row(g) /\ g.len \in Nat /\ e <= g.len
  BY EnsureCapacityRow DEF Row, Raw
<1>2. BytesFor(s) \in Nat /\ BytesFor(s) * W \in Nat /\ s <= BytesFor(s) * W
  BY BytesForHolds
<1>3. s .. Least(e, BytesFor(s) * W) - 1 \in SUBSET (0..g.len-1)
  BY <1>1, <1>2 DEF Least
<1>4. e \div W \in Nat /\ (e \div W) * W \in Nat /\ (e \div W) * W <= e
  BY WholeAndRest
<1>5. (e \div W) * W .. e - 1 \in SUBSET (0..g.len-1)
  BY <1>1, <1>4
<1>6. DOMAIN g.bytes = 0..BytesFor(g.len)-1
  BY <1>1, RawParts DEF Row
<1> HIDE DEF g
<1>7. Row(head) /\ head.len = g.len
  BY <1>1, <1>3, PutBitsRow
<1> HIDE DEF head
<1>8. ASSUME NEW k \in 0..BytesFor(g.len)-1 PROVE whole[k] \subseteq Inside(k, g.len)
  <2>1. head.bytes[k] \subseteq Inside(k, g.len)
    BY <1>7, RowInside
  <2>2. ASSUME k \in Middle(s, e) PROVE 0..W-1 \subseteq Inside(k, g.len)
    <3>1. k \in Nat /\ k + 1 <= e \div W
      BY <1>2, <1>4, <2>2 DEF Middle
    <3>2. (k + 1) * W <= (e \div W) * W /\ (k + 1) * W = k * W + W /\ k * W \in Nat
      BY <1>4, <3>1, MultiplesOrdered
    <3> QED BY <1>1, <1>4, <3>2 DEF Inside
  <2>3. whole[k] = IF k \in Middle(s, e) THEN Fill(v) ELSE head.bytes[k]
    BY <1>6
  <2> HIDE DEF whole
  <2> QED BY <2>1, <2>2, <2>3 DEF Fill, Low
<1>9. whole \in Packed(g.len)
  <2>1. ASSUME NEW k \in 0..BytesFor(g.len)-1 PROVE whole[k] \in Byte
    BY <1>8, <2>1 DEF Inside, Byte
  <2> QED BY <1>6, <2>1 DEF Packed
<1> HIDE DEF whole
<1>10. Row(middle) /\ middle.len = g.len
  BY <1>1, <1>8, <1>9, RowIs
<1> HIDE DEF middle
<1>11. Row(PutBits(middle, (e \div W) * W .. e - 1, v))
  BY <1>5, <1>10, PutBitsRow
<1>12. SetRange(m, s, e, v) \in {m, head, PutBits(middle, (e \div W) * W .. e - 1, v)}
  BY DEF SetRange, middle, whole, head, g
<1> QED BY <1>7, <1>11, <1>12

(* resize *)
LEMMA ResizeRow ==
  ASSUME NEW m, Row(m), NEW n \in Nat, NEW v \in BOOLEAN
  PROVE  Row(Resize(m, n, v)) /\ Resize(m, n, v).len = n
<1> DEFINE r == New(Resized(m.bytes, BytesFor(n), Fill(v)), n)
           S == OldByte(m.len, n, v)
<1>1. Raw(m) /\ m.len \in Nat /\ Fill(v) \in Byte
  BY DEF Row, Raw, Fill, Low, Byte
<1>2. Raw(r) /\ r.len = n
  BY <1>1, ResizedIsPacked, NewIsRaw
<1>3. S \in SUBSET Nat
  BY <1>1 DEF OldByte
<1> HIDE DEF r, S
<1>4. PutBits(r, S, TRUE) = New(PutBits(r, S, TRUE).bytes, n) /\ PutBits(r, S, TRUE).bytes \in Packed(n)
  BY <1>2, <1>3, PutBitsRaw
<1>5. Row(MaskTrailing(PutBits(r, S, TRUE))) /\ MaskTrailing(PutBits(r, S, TRUE)).len = n
  BY <1>4, MaskTrailingRow
<1> QED BY <1>5 DEF Resize, r, S

(* delete_range of whole bytes leaves as many bytes as the rest needs.     *)
LEMMA KeptBytes ==
  ASSUME NEW m, Raw(m), NEW s \in Nat, NEW e \in Nat, s <= e, e <= m.len, OnBytes(s, e),
         NEW n, n = m.len - (e - s), NEW cut, cut = e \div W - s \div W
  PROVE  /\ Size(m.bytes) - cut = BytesFor(n)
         /\ \A i \in 0..BytesFor(n)-1 : m.bytes[IF i < s \div W THEN i ELSE i + cut] \in Byte
<1> DEFINE a == s \div W
           b == e \div W
           size == BytesFor(m.len)
<1>0. /\ s \in Nat /\ e \in Nat /\ s <= e /\ e <= m.len /\ OnBytes(s, e) /\ Raw(m)
      /\ n = m.len - (e - s) /\ cut = b - a /\ W \in Nat
  OBVIOUS
<1>1. m.len \in Nat /\ n \in Nat /\ Size(m.bytes) = size /\ \A k \in 0..size-1 : m.bytes[k] \in Byte
  <2>1. m.len \in Nat /\ Size(m.bytes) = size /\ \A k \in 0..size-1 : m.bytes[k] \in Byte
    BY ONLY <1>0, SizeOfBytes, RawParts DEF Raw
  <2> QED BY ONLY <1>0, <2>1
<1>2. a \in Nat /\ b \in Nat /\ s = a * W /\ e = b * W /\ a * W \in Nat /\ b * W \in Nat
  <2>1. s % W = 0 /\ e % W = 0
    BY ONLY <1>0 DEF OnBytes
  <2>2. /\ a \in Nat /\ a * W \in Nat /\ s = a * W + (s % W)
        /\ b \in Nat /\ b * W \in Nat /\ e = b * W + (e % W)
    BY ONLY <1>0, WholeAndRest
  <2> HIDE DEF a, b
  <2> QED BY ONLY <2>1, <2>2
<1>3. BytesFor(n) \in Nat /\ size \in Nat
  BY ONLY <1>1, BytesForHolds
<1> HIDE DEF size, a, b
<1>4. a <= b
  <2>1. a * W < (b + 1) * W
    <3>1. (b + 1) * W = b * W + W
      BY ONLY <1>2, MultiplesOrdered
    <3>2. a * W <= b * W /\ W > 0
      BY <1>0, <1>2
    <3> DEFINE aw == a * W
               bw == b * W
    <3>3. aw \in Nat /\ bw \in Nat /\ aw <= bw /\ W \in Nat /\ W > 0 /\ (b + 1) * W = bw + W
      BY <1>2, <3>1, <3>2
    <3> HIDE DEF aw, bw
    <3>4. aw < bw + W
      BY ONLY <3>3
    <3> QED BY <3>3, <3>4 DEF aw
  <2>2. a + 1 <= b + 1
    BY ONLY <1>2, <2>1, MultiplesOrdered
  <2> QED BY ONLY <1>2, <2>2
<1>5. cut \in Nat /\ b = a + cut
  BY ONLY <1>0, <1>2, <1>4
<1>6. m.len = n + cut * W
  <2>1. b * W = a * W + cut * W /\ cut * W \in Nat
    <3>1. (a + cut) * W = a * W + cut * W /\ cut * W \in Nat
      BY ONLY <1>2, <1>5, MultiplesOrdered
    <3> QED BY <1>5, <3>1
  <2> DEFINE aw == a * W
             bw == b * W
             cw == cut * W
  <2>2. /\ aw \in Nat /\ bw \in Nat /\ cw \in Nat /\ bw = aw + cw /\ s = aw /\ e = bw
        /\ m.len \in Nat /\ n = m.len - (e - s)
    BY <1>0, <1>1, <1>2, <2>1
  <2> HIDE DEF aw, bw, cw
  <2>3. m.len = n + cw
    BY ONLY <2>2
  <2> QED BY <2>3 DEF cw
<1>7. size = BytesFor(n) + cut
  <2>1. BytesFor(n + cut * W) = BytesFor(n) + cut
    BY ONLY <1>1, <1>5, BytesForGrows
  <2> QED BY ONLY <1>6, <2>1 DEF size
<1>8. Size(m.bytes) - cut = BytesFor(n)
  BY ONLY <1>1, <1>3, <1>5, <1>7
<1>9. ASSUME NEW i \in 0..BytesFor(n)-1 PROVE m.bytes[IF i < a THEN i ELSE i + cut] \in Byte
  <2>1. (IF i < a THEN i ELSE i + cut) \in 0..size-1
    <3> DEFINE c == BytesFor(n)
    <3>1. i \in 0..c-1 /\ c \in Nat /\ size = c + cut /\ cut \in Nat /\ a \in Nat
      BY <1>2, <1>3, <1>5, <1>7
    <3> HIDE DEF c
    <3> QED BY ONLY <3>1
  <2> QED BY <1>1, <2>1
<1> QED BY <1>8, <1>9 DEF a

(* delete_range                                                            *)
LEMMA DeleteRangeRow ==
  ASSUME NEW m, Row(m), NEW s \in Nat, NEW e \in Nat, s <= e, e <= m.len
  PROVE  Row(DeleteRange(m, s, e))
<1> DEFINE n == m.len - (e - s)
           cut == e \div W - s \div W
           kept == [i \in 0..Size(m.bytes) - cut - 1 |-> m.bytes[IF i < s \div W THEN i ELSE i + cut]]
<1>1. Raw(m) /\ m.len \in Nat /\ n \in Nat
  BY DEF Row, Raw
<1>2. \A bytes : Truncated(bytes, BytesFor(n)) \in Packed(n)
  <2>1. \A x : AsByte(x) \in Byte
    BY DEF AsByte, Low, Byte
  <2> QED BY <2>1 DEF Truncated, Packed
<1> HIDE DEF n, cut
<1>3. ASSUME OnBytes(s, e) PROVE kept \in Packed(n)
  <2>1. s \in Nat /\ e \in Nat /\ s <= e /\ e <= m.len
    OBVIOUS
  <2>2. n = m.len - (e - s) /\ cut = e \div W - s \div W
    BY DEF n, cut
  <2>3. /\ Size(m.bytes) - cut = BytesFor(n)
        /\ \A i \in 0..BytesFor(n)-1 : m.bytes[IF i < s \div W THEN i ELSE i + cut] \in Byte
    BY ONLY <1>1, <1>3, <2>1, <2>2, KeptBytes
  <2> QED BY <2>3 DEF Packed
<1> HIDE DEF kept
<1>4. \E bytes \in Packed(n) : DeleteRange(m, s, e) \in {m, MaskTrailing(New(bytes, n))}
  <2>1. CASE OnBytes(s, e)
    <3>1. DeleteRange(m, s, e) \in {m, MaskTrailing(New(kept, n))}
      BY <2>1 DEF DeleteRange, kept, n, cut
    <3> QED BY <1>3, <2>1, <3>1
  <2>2. CASE ~OnBytes(s, e)
    <3>1. \E bytes : DeleteRange(m, s, e) \in {m, MaskTrailing(New(Truncated(bytes, BytesFor(n)), n))}
      BY <2>2 DEF DeleteRange, n
    <3> QED BY <1>2, <3>1
  <2> QED BY <2>1, <2>2
<1> QED BY <1>1, <1>4, MaskTrailingRow

(* extend_from_slice, of a source with the bytes of n bits.                *)
LEMMA ExtendFromSliceRow ==
  ASSUME NEW m, Row(m), NEW n \in Nat, NEW src, \A i \in 0..(n \div W)-1 : src[i] \in Byte
  PROVE  Row(ExtendFromSlice(m, src, n))
<1> DEFINE g == Resize(m, m.len + n, FALSE)
           d == m.len \div W
           full == n \div W
           aligned == [k \in DOMAIN g.bytes |->
                         IF k \in d..d+full-1 THEN src[k - d]
                         ELSE IF k = d + full /\ n % W # 0
                         THEN (g.bytes[k] \ Low(n % W)) \cup (src[full] \cap Low(n % W))
                         ELSE g.bytes[k]]
<1>1. m.len \in Nat /\ m.len + n \in Nat
  BY DEF Row, Raw
<1>2. Row(g) /\ g.len = m.len + n
  BY <1>1, ResizeRow
<1>3. /\ DOMAIN g.bytes = 0..BytesFor(m.len + n)-1 /\ g.bytes \in Packed(m.len + n)
      /\ \A k \in 0..BytesFor(m.len + n)-1 : g.bytes[k] \in Byte
  BY <1>2, RawParts DEF Row
<1>4. d \in Nat /\ full \in Nat /\ n % W \in 0..W-1
  BY <1>1, WholeAndRest
<1>5. Low(n % W) \subseteq 0..W-1
  BY <1>4 DEF Low
<1> HIDE DEF g, d, full
<1>6. aligned \in Packed(m.len + n)
  <2>1. ASSUME NEW k \in 0..BytesFor(m.len + n)-1, k \in d..d+full-1 PROVE src[k - d] \in Byte
    <3>1. k - d \in 0..full-1
      BY <1>4, <2>1
    <3> QED BY <3>1 DEF full
  <2>2. ASSUME NEW k \in 0..BytesFor(m.len + n)-1
        PROVE  (g.bytes[k] \ Low(n % W)) \cup (src[full] \cap Low(n % W)) \in Byte
    BY <1>3, <1>5 DEF Byte
  <2>3. \A k \in 0..BytesFor(m.len + n)-1 : aligned[k] \in Byte
    BY <1>3, <2>1, <2>2
  <2>4. DOMAIN aligned = 0..BytesFor(m.len + n)-1 /\ aligned = [k \in DOMAIN aligned |-> aligned[k]]
    BY <1>3
  <2> HIDE DEF aligned
  <2> QED BY <2>3, <2>4 DEF Packed
<1>7. ExtendShifted(g.bytes, m.len, src, n) \in Packed(m.len + n)
  <2>1. \A x : AsByte(x) \in Byte
    BY DEF AsByte, Low, Byte
  <2> QED BY <1>3, <2>1 DEF ExtendShifted, Packed
<1> HIDE DEF aligned
<1>8. \E bytes \in Packed(m.len + n) : ExtendFromSlice(m, src, n) = MaskTrailing(New(bytes, m.len + n))
  <2>1. ExtendFromSlice(m, src, n) =
          MaskTrailing(New(IF m.len % W = 0 THEN aligned
                           ELSE IF n = 0 THEN g.bytes
                           ELSE ExtendShifted(g.bytes, m.len, src, n), m.len + n))
    BY DEF ExtendFromSlice, aligned, g, d, full
  <2> QED BY <1>3, <1>6, <1>7, <2>1
<1> QED BY <1>1, <1>8, MaskTrailingRow

(* extend_from_bitmask_range: the source shifted to a byte boundary has    *)
(* the bytes of the window.                                                *)
LEMMA ExtendFromRangeRow ==
  ASSUME NEW m, Row(m), NEW x, Raw(x), NEW off \in Nat, NEW n \in Nat, off + n <= x.len
  PROVE  Row(ExtendFromRange(m, x, off, n))
<1> DEFINE src == AlignedFrom(x.bytes, off, n)
           lo == off \div W
           size == BytesFor(x.len)
           full == n \div W
<1>1. x.len \in Nat /\ Size(x.bytes) = size /\ size \in Nat /\ size * W \in Nat /\ x.len <= size * W
  BY SizeOfBytes, BytesForHolds DEF Raw
<1>2. /\ lo \in Nat /\ lo * W \in Nat /\ lo * W <= off
      /\ full \in Nat /\ full * W \in Nat /\ full * W <= n
      /\ BytesFor(n) \in Nat /\ full <= BytesFor(n)
  <2>1. BytesFor(n) \in Nat /\ (BytesFor(n) = full \/ BytesFor(n) = full + 1)
    BY BytesForHolds, BytesForSplits
  <2>2. full \in Nat /\ full * W \in Nat /\ full * W <= n
    BY WholeAndRest
  <2>3. lo \in Nat /\ lo * W \in Nat /\ lo * W <= off
    BY WholeAndRest
  <2> HIDE DEF lo, full
  <2> QED BY <2>1, <2>2, <2>3
<1>3. full <= size - lo
  <2> HIDE DEF lo, size, full
  <2>1. (lo + full) * W = lo * W + full * W
    BY <1>2, MultiplesOrdered
  <2>2. lo + full \in Nat /\ (lo + full) * W <= size * W
    BY <1>1, <1>2, <2>1
  <2>3. size * W < (size + 1) * W
    BY <1>1, MultiplesOrdered
  <2>4. (lo + full) * W < (size + 1) * W
    BY <1>1, <1>2, <2>1, <2>2, <2>3, MultiplesOrdered
  <2>5. lo + full + 1 <= size + 1
    BY <1>1, <2>2, <2>4, MultiplesOrdered
  <2> QED BY <1>1, <1>2, <2>5
<1>4. \A i \in 0..full-1 : src[i] \in Byte
  <2> DEFINE bytes == IF off % W = 0 THEN size - lo ELSE Least(BytesFor(n) + 1, size - lo)
  <2>1. src = [k \in 0..bytes - 1 |-> Straddle(x.bytes, lo + k, off % W)]
    BY <1>1 DEF AlignedFrom
  <2>2. bytes \in Int /\ full <= bytes
    <3> HIDE DEF lo, size, full
    <3> QED BY <1>1, <1>2, <1>3 DEF Least
  <2> HIDE DEF bytes, src, lo, full
  <2>3. \A i \in 0..full-1 : i \in 0..bytes-1
    BY <1>2, <2>2
  <2>4. \A i \in 0..bytes-1 : Straddle(x.bytes, lo + i, off % W) \in Byte
    BY DEF Straddle, AsByte, Low, Byte
  <2> QED BY <2>1, <2>3, <2>4
<1> HIDE DEF src
<1>5. Row(ExtendFromSlice(m, src, n))
  BY <1>4, ExtendFromSliceRow
<1> QED BY <1>5 DEF ExtendFromRange, src

(* split_off: each half has the bytes of its own bits.                     *)
LowerBytes(m, at) == Resized(m.bytes, IF at % W = 0 THEN at \div W ELSE BytesFor(at), {})
UpperBytes(m, at) == [i \in 0..Size(m.bytes) - at \div W - 1 |-> m.bytes[i + at \div W]]
MovedBytes(m, at) ==
  [k \in 0..BytesFor(m.len - at)-1 |->
     {b \in 0..W-1 : at + k * W + b < m.len /\ (at + k * W + b) % W \in m.bytes[(at + k * W + b) \div W]}]

(* Both halves have the bytes of their bits.                               *)
LEMMA SplitBytes ==
  ASSUME NEW m, Row(m), NEW at \in Nat, at <= m.len
  PROVE  /\ m.len \in Nat /\ LowerBytes(m, at) \in Packed(at) /\ MovedBytes(m, at) \in Packed(m.len - at)
         /\ at % W = 0 => UpperBytes(m, at) \in Packed(m.len - at)
<1> DEFINE n == m.len - at
<1>1. Raw(m) /\ m.len \in Nat /\ n \in Nat /\ Size(m.bytes) = BytesFor(m.len)
  BY SizeOfBytes DEF Row, Raw
<1>2. \A k \in 0..BytesFor(m.len)-1 : m.bytes[k] \in Byte
  BY <1>1, RawParts
<1>3. LowerBytes(m, at) \in Packed(at)
  <2>1. (IF at % W = 0 THEN at \div W ELSE BytesFor(at)) = BytesFor(at)
    BY BytesForSplits
  <2>2. {} \in Byte
    BY DEF Byte
  <2>3. Resized(m.bytes, BytesFor(at), {}) \in Packed(at)
    BY <1>1, <2>2, ResizedIsPacked
  <2> QED BY <2>1, <2>3 DEF LowerBytes
<1>4. MovedBytes(m, at) \in Packed(n)
  BY DEF MovedBytes, Packed, Byte
<1>5. ASSUME at % W = 0 PROVE UpperBytes(m, at) \in Packed(n)
  <2> DEFINE a == at \div W
  <2>1. a \in Nat /\ at = a * W
    BY <1>5, WholeAndRest
  <2> HIDE DEF n, a
  <2>2. m.len = n + a * W
    BY <1>1, <2>1 DEF n
  <2>3. BytesFor(m.len) = BytesFor(n) + a /\ BytesFor(n) \in Nat
    BY <1>1, <2>1, <2>2, BytesForGrows, BytesForHolds
  <2>4. \A i \in 0..BytesFor(n)-1 : m.bytes[i + a] \in Byte
    BY <1>2, <2>1, <2>3
  <2>5. Size(m.bytes) - a - 1 = BytesFor(n) - 1
    BY <1>1, <2>1, <2>3
  <2>6. UpperBytes(m, at) = [i \in 0..BytesFor(n)-1 |-> m.bytes[i + a]]
    BY <2>5 DEF a, UpperBytes
  <2> QED BY <2>4, <2>6 DEF Packed
<1> QED BY <1>1, <1>3, <1>4, <1>5

(* split_off in terms of the bytes of its halves.                          *)
LEMMA SplitOffIs ==
  ASSUME NEW m, NEW at
  PROVE  /\ at = m.len => SplitOff(m, at) = <<m, NewSetAll(0, FALSE)>>
         /\ at # m.len => SplitOff(m, at) =
              <<MaskTrailing(New(LowerBytes(m, at), at)),
                MaskTrailing(New(IF at % W = 0 THEN UpperBytes(m, at) ELSE MovedBytes(m, at), m.len - at))>>
BY DEF SplitOff, LowerBytes, UpperBytes, MovedBytes

LEMMA SplitOffRow ==
  ASSUME NEW m, Row(m), NEW at \in Nat, at <= m.len
  PROVE  \A half \in 1..2 : Row(SplitOff(m, at)[half])
<1> DEFINE n == m.len - at
           lower == LowerBytes(m, at)
           upper == IF at % W = 0 THEN UpperBytes(m, at) ELSE MovedBytes(m, at)
<1>1. n \in Nat /\ lower \in Packed(at) /\ upper \in Packed(n)
  BY SplitBytes
<1> HIDE DEF lower, upper, n
<1>2. Row(MaskTrailing(New(lower, at)))
  BY <1>1, MaskTrailingRow
<1>3. Row(MaskTrailing(New(upper, n)))
  BY <1>1, MaskTrailingRow
<1>4. Row(NewSetAll(0, FALSE))
  BY NewSetAllRow
<1>5. SplitOff(m, at) = IF at = m.len THEN <<m, NewSetAll(0, FALSE)>>
                        ELSE <<MaskTrailing(New(lower, at)), MaskTrailing(New(upper, n))>>
  BY SplitOffIs DEF lower, upper, n
<1>6. \A x, y : Row(x) /\ Row(y) => \A half \in 1..2 : Row(<<x, y>>[half])
  <2> SUFFICES ASSUME NEW x, NEW y, Row(x), Row(y), NEW half \in 1..2 PROVE Row(<<x, y>>[half])
    OBVIOUS
  <2>1. CASE half = 1
    <3>1. <<x, y>>[half] = x
      BY <2>1
    <3> QED BY <3>1
  <2>2. CASE half = 2
    <3>1. <<x, y>>[half] = y
      BY <2>2
    <3> QED BY <3>1
  <2> QED BY <2>1, <2>2
<1>7. CASE at = m.len
  <2>1. SplitOff(m, at) = <<m, NewSetAll(0, FALSE)>>
    BY <1>5, <1>7
  <2> QED BY <1>4, <1>6, <2>1
<1>8. CASE at # m.len
  <2>1. SplitOff(m, at) = <<MaskTrailing(New(lower, at)),
                            MaskTrailing(New(upper, n))>>
    BY <1>5, <1>8
  <2> QED BY <1>2, <1>3, <1>6, <2>1
<1> QED BY <1>7, <1>8

(* slice_clone *)
LEMMA SliceCloneRow ==
  ASSUME NEW m, Row(m), NEW off \in Nat, NEW n \in Nat
  PROVE  Row(SliceClone(m, off, n))
<1>1. \A x : AsByte(x) \in Byte
  BY DEF AsByte, Low, Byte
<1>2. \A bytes, i, sh : Straddle(bytes, i, sh) \in Byte
  BY <1>1 DEF Straddle
<1>3. \E bytes \in Packed(n) : SliceClone(m, off, n) = MaskTrailing(New(bytes, n))
  BY <1>1, <1>2 DEF SliceClone, Packed
<1> QED BY <1>3, MaskTrailingRow

(* union, intersect, not and fill keep the number of bytes.                *)
LEMMA LogicalRow ==
  ASSUME NEW m, Raw(m), NEW other, NEW v \in BOOLEAN
  PROVE  Row(Union(m, other)) /\ Row(Intersect(m, other)) /\ Row(Invert(m)) /\ Row(FillAll(m, v))
<1>1. /\ m.len \in Nat /\ DOMAIN m.bytes = 0..BytesFor(m.len)-1
      /\ \A k \in 0..BytesFor(m.len)-1 : m.bytes[k] \in Byte
  BY RawParts
<1>2. ASSUME NEW op PROVE Row(Merge(m, other, op))
  <2> DEFINE bytes == [k \in DOMAIN m.bytes |->
                         IF k \in DOMAIN other.bytes THEN BitByBit(op, m.bytes[k], other.bytes[k], W) ELSE m.bytes[k]]
  <2>1. \A x, y : BitByBit(op, x, y, W) \in Byte
    BY DEF BitByBit, Byte
  <2>2. bytes \in Packed(m.len)
    BY <1>1, <2>1 DEF Packed
  <2>3. Merge(m, other, op) = MaskTrailing(New(bytes, m.len))
    BY DEF Merge
  <2> HIDE DEF bytes
  <2> QED BY <1>1, <2>2, <2>3, MaskTrailingRow
<1>3. Row(Invert(m))
  <2>1. [k \in DOMAIN m.bytes |-> Low(W) \ m.bytes[k]] \in Packed(m.len)
    BY <1>1 DEF Packed, Low, Byte
  <2> QED BY <1>1, <2>1, MaskTrailingRow DEF Invert
<1>4. Row(FillAll(m, v))
  <2>1. [k \in DOMAIN m.bytes |-> Fill(v)] \in Packed(m.len)
    BY <1>1 DEF Packed, Fill, Low, Byte
  <2> QED BY <1>1, <2>1, MaskTrailingRow DEF FillAll
<1> QED BY <1>2, <1>3, <1>4 DEF Union, Intersect

-----------------------------------------------------------------------------
(* The specification                                                       *)

Inv == Row(mask)

(* A mask that is new or imported has the bytes of its length.             *)
LEMMA InitRow == Init /\ PaddingIsClear => Row(mask)
<1> SUFFICES ASSUME Init, PaddingIsClear PROVE Row(mask)
  OBVIOUS
<1>1. CASE mask = NewSetAll(0, FALSE)
  BY <1>1, NewSetAllRow
<1>2. ASSUME NEW n \in 0..MaxLen, NEW src \in Packed(n), mask = New(src, n) PROVE Row(mask)
  <2>1. n \in Nat
    BY BoundAssumption
  <2> QED BY <1>2, <2>1, NewIsRaw DEF Row, PaddingIsClear
<1>3. ASSUME NEW bits, mask = FromLBuffer(bits) PROVE FALSE
  BY <1>3 DEF FromLBuffer, PaddingIsClear, Canonical
<1> QED BY <1>1, <1>2, <1>3 DEF Init

(* Every call keeps the only form.                                         *)
LEMMA StepRow == Row(mask) /\ [Next]_mask => Row(mask')
<1> SUFFICES ASSUME Row(mask), Next PROVE Row(mask')
  OBVIOUS
<1>1. Raw(mask) /\ mask.len \in Nat /\ MaxLen \in Nat
  BY BoundAssumption DEF Row, Raw
<1>2. CASE Sets
  BY <1>1, <1>2, SetBitRow DEF Sets
<1>3. CASE SetsRange
  BY <1>1, <1>3, SetRangeRow DEF SetsRange
<1>4. CASE Resizes
  BY <1>1, <1>4, ResizeRow DEF Resizes
<1>5. CASE Deletes
  <2>1. PICK e \in 0..mask.len : \E s \in 0..e : mask' = DeleteRange(mask, s, e)
    BY <1>5 DEF Deletes
  <2>2. PICK s \in 0..e : mask' = DeleteRange(mask, s, e)
    BY <2>1
  <2>3. s \in Nat /\ e \in Nat /\ s <= e /\ e <= mask.len
    BY <1>1
  <2> QED BY <2>2, <2>3, DeleteRangeRow
<1>6. CASE Extends
  <2>0. PICK n \in 0..Least(W, Room) : \E src \in Packed(n) : mask' = ExtendFromSlice(mask, src, n)
    BY <1>6 DEF Extends
  <2>1. PICK src \in Packed(n) : mask' = ExtendFromSlice(mask, src, n)
    BY <2>0
  <2>2. n \in Nat
    BY <1>1 DEF Least, Room
  <2>3. \A i \in 0..(n \div W)-1 : src[i] \in Byte
    <3>1. n \div W \in Nat /\ (BytesFor(n) = n \div W \/ BytesFor(n) = n \div W + 1)
      BY <2>2, WholeAndRest, BytesForSplits
    <3>2. \A i \in 0..(n \div W)-1 : i \in 0..BytesFor(n)-1
      BY <3>1
    <3> QED BY <3>2 DEF Packed
  <2> QED BY <2>1, <2>2, <2>3, ExtendFromSliceRow
<1>7. CASE ExtendsFromMask
  <2>0. PICK off \in 0..mask.len : \E n \in 0..Least(Room, mask.len - off) :
          mask' = ExtendFromRange(mask, Invert(mask), off, n)
    BY <1>7 DEF ExtendsFromMask
  <2>1. PICK n \in 0..Least(Room, mask.len - off) : mask' = ExtendFromRange(mask, Invert(mask), off, n)
    BY <2>0
  <2>2. off \in Nat /\ n \in Nat /\ off + n <= mask.len
    BY <1>1 DEF Least, Room
  <2>3. Raw(Invert(mask)) /\ Invert(mask).len = mask.len
    <3>1. Row(Invert(mask))
      BY <1>1, LogicalRow
    <3>2. Invert(mask).len = mask.len
      BY <1>1 DEF Invert, MaskTrailing, New
    <3> QED BY <3>1, <3>2 DEF Row
  <2> QED BY <2>1, <2>2, <2>3, ExtendFromRangeRow
<1>8. CASE Splits
  <2>1. PICK at \in 0..mask.len, half \in 1..2 : mask' = SplitOff(mask, at)[half]
    BY <1>8 DEF Splits
  <2>2. at \in Nat /\ at <= mask.len
    BY <1>1
  <2> QED BY <2>1, <2>2, SplitOffRow
<1>9. CASE Slices
  BY <1>1, <1>9, SliceCloneRow DEF Slices
<1>10. CASE Combines
  BY <1>1, <1>10, LogicalRow DEF Combines
<1>11. CASE Inverts
  BY <1>1, <1>11, LogicalRow DEF Inverts
<1> QED BY <1>2, <1>3, <1>4, <1>5, <1>6, <1>7, <1>8, <1>9, <1>10, <1>11 DEF Next

(* A mask whose padding is clear when the program gets it, new or over an  *)
(* Arrow buffer, keeps it clear through every call: no bit past the length *)
(* is ever set, so that equality of bytes is equality of bits.             *)
THEOREM PaddingStaysClear == Spec /\ PaddingIsClear => []PaddingIsClear
<1>1. Inv => PaddingIsClear
  BY DEF Inv, Row, PaddingIsClear
<1>2. Init /\ PaddingIsClear => Inv
  BY InitRow DEF Inv
<1>3. Inv /\ [Next]_mask => Inv'
  BY StepRow DEF Inv
<1> QED BY <1>1, <1>2, <1>3, PTL DEF Spec

(* A mask that a program starts itself has clear padding for ever.         *)
THEOREM NewMasksStayClear == Start = "new" /\ Spec => []PaddingIsClear
<1>1. Start = "new" /\ Init => PaddingIsClear
  BY NewSetAllRow DEF Init, Row, PaddingIsClear
<1> QED BY <1>1, PaddingStaysClear, PTL DEF Spec

-----------------------------------------------------------------------------
(* What the calls do to the bits of a mask                                 *)

(* The bit at place i of a row of bytes.                                   *)
BitAt(bytes, i) == i % W \in bytes[i \div W]

(* A mask in its only form that shows the bits.                            *)
Shows(m, bits) ==
  /\ Row(m) /\ bits \in BitSeqs(m.len)
  /\ \A i \in 0..m.len-1 : bits[i] <=> BitAt(m.bytes, i)

-----------------------------------------------------------------------------
(* Induction on natural numbers, for sets: a number that is not in T would *)
(* make n |-> n - 1 a one-to-one map of the finite set of the numbers not  *)
(* in T up to it into itself that misses it.                               *)
LEMMA Induction ==
  ASSUME NEW T, 0 \in T, \A n \in Nat : n \in T => n + 1 \in T
  PROVE  \A n \in Nat : n \in T
<1>1. SUFFICES ASSUME NEW x \in Nat, x \notin T PROVE FALSE
  OBVIOUS
<1> DEFINE S == {n \in Nat : n <= x /\ n \notin T}
           f == [n \in S |-> n - 1]
<1>2. IsFiniteSet(S)
  BY FS_BoundedSetOfNaturals
<1>3. \A n \in S : n - 1 \in S
  <2> TAKE n \in S
  <2>1. n # 0
    OBVIOUS
  <2>2. n - 1 \in Nat /\ n - 1 <= x
    BY <2>1
  <2>3. n - 1 \notin T
    BY <2>2
  <2> QED BY <2>2, <2>3
<1>4. f \in Injection(S, S)
  BY <1>3 DEF Injection, IsInjective
<1>5. f \in Surjection(S, S)
  BY <1>2, <1>4, FS_Injection
<1>6. x \in {n \in Nat : n <= x /\ n \notin T}
  BY <1>1
<1>7. \E n \in S : f[n] = x
  <2>1. x \in S
    BY <1>6
  <2> HIDE DEF S, f
  <2> QED BY <1>5, <2>1 DEF Surjection
<1> QED BY <1>7

-----------------------------------------------------------------------------
(* Places                                                                  *)

(* Bit b of byte k is at the place k * W + b, and at no other.             *)
LEMMA PlaceIs ==
  ASSUME NEW k \in Nat, NEW b \in 0..W-1
  PROVE  k * W + b \in Nat /\ (k * W + b) \div W = k /\ (k * W + b) % W = b
<1>1. k * W \in Nat
  BY MultiplesOrdered
<1>2. k * W + b \in Nat /\ k * W <= k * W + b /\ k * W + b < k * W + W
  BY <1>1
<1>3. (k * W + b) \div W = k
  BY <1>2, QuotientIs
<1>4. k * W + b = ((k * W + b) \div W) * W + ((k * W + b) % W) /\ (k * W + b) % W \in 0..W-1
  BY <1>2, WholeAndRest
<1> QED BY <1>1, <1>2, <1>3, <1>4

(* The places below n are in the bytes of n bits.                          *)
LEMMA PlaceWithin ==
  ASSUME NEW n \in Nat, NEW i \in 0..n-1
  PROVE  /\ i \div W \in 0..BytesFor(n)-1 /\ i % W \in 0..W-1
         /\ i = (i \div W) * W + (i % W) /\ (i \div W) * W \in Nat
<1> DEFINE q == i \div W
<1>1. q \in Nat /\ q * W \in Nat /\ i % W \in 0..W-1 /\ i = q * W + (i % W)
  BY WholeAndRest
<1>2. BytesFor(n) \in Nat /\ BytesFor(n) * W \in Nat /\ n <= BytesFor(n) * W
  BY BytesForHolds
<1> HIDE DEF q
<1>3. q * W < BytesFor(n) * W
  BY <1>1, <1>2
<1>4. q + 1 <= BytesFor(n)
  BY <1>1, <1>2, <1>3, MultiplesOrdered
<1> QED BY <1>1, <1>2, <1>4 DEF q

-----------------------------------------------------------------------------
(* Masks and what they show                                                *)

(* A mask in its only form shows its bits.                                 *)
LEMMA RowShows ==
  ASSUME NEW m, Row(m)
  PROVE  LenOf(m) = m.len /\ Bits(m) \in BitSeqs(m.len) /\ Shows(m, Bits(m))
<1>1. m.view = {} /\ m.len \in Nat
  BY RawParts DEF Row
<1>2. LenOf(m) = m.len
  BY <1>1 DEF LenOf
<1>3. \A i \in 0..m.len-1 : Get(m, i) = BitAt(m.bytes, i) /\ Get(m, i) \in BOOLEAN
  <2> SUFFICES ASSUME NEW i \in 0..m.len-1
               PROVE  Get(m, i) = BitAt(m.bytes, i) /\ Get(m, i) \in BOOLEAN
    OBVIOUS
  <2>1. i < m.len
    BY <1>1
  <2>2. Get(m, i) = (i < m.len /\ i % W \in m.bytes[i \div W])
    BY <1>1 DEF Get
  <2> QED BY <2>1, <2>2 DEF BitAt
<1>4. \A i \in 0..m.len-1 : Get(m, i) \in BOOLEAN
  BY <1>3
<1>5. Bits(m) = [i \in 0..m.len-1 |-> Get(m, i)]
  BY <1>2 DEF Bits
<1>6. Bits(m) \in BitSeqs(m.len)
  BY <1>4, <1>5, Zenon DEF BitSeqs
<1>7. \A i \in 0..m.len-1 : Bits(m)[i] <=> BitAt(m.bytes, i)
  BY <1>3, <1>5, Zenon
<1> QED BY <1>2, <1>6, <1>7 DEF Shows

(* What a mask shows is what it reads as.                                  *)
LEMMA ShowsReads == ASSUME NEW m, NEW bits, Shows(m, bits) PROVE Reads(m, bits) /\ Bits(m) = bits
<1>1. Row(m) /\ bits \in BitSeqs(m.len) /\ Bits(m) \in BitSeqs(m.len)
  BY RowShows DEF Shows
<1>2. \A i \in 0..m.len-1 : bits[i] <=> Bits(m)[i]
  BY <1>1, RowShows, Zenon DEF Shows
<1>3. \A i \in 0..m.len-1 : bits[i] \in BOOLEAN /\ Bits(m)[i] \in BOOLEAN
  BY <1>1 DEF BitSeqs
<1>4. \A i \in 0..m.len-1 : bits[i] = Bits(m)[i]
  BY <1>2, <1>3, Zenon
<1>5. bits = [i \in 0..m.len-1 |-> bits[i]] /\ Bits(m) = [i \in 0..m.len-1 |-> Bits(m)[i]]
  BY <1>1, Zenon DEF BitSeqs
<1>6. Bits(m) = bits
  BY <1>4, <1>5, Zenon
<1> QED BY <1>1, <1>6 DEF Reads, Row

(* Clearing the trailing bits leaves those below the length.               *)
LEMMA MaskTrailingAt ==
  ASSUME NEW n \in Nat, NEW bytes \in Packed(n), NEW i \in 0..n-1
  PROVE  BitAt(MaskTrailing(New(bytes, n)).bytes, i) <=> BitAt(bytes, i)
<1> DEFINE m == MaskTrailing(New(bytes, n))
           j == BytesFor(n) - 1
           k == i \div W
<1>1. n > 0 /\ n # 0
  OBVIOUS
<1>2. j \in Nat /\ Trailing(n) = Inside(j, n)
  BY <1>1, TrailingInside
<1>3. k \in 0..BytesFor(n)-1 /\ i % W \in 0..W-1 /\ i = k * W + (i % W)
  BY PlaceWithin
<1>4. New(bytes, n).len = n /\ New(bytes, n).bytes = bytes
  BY NewIsRaw
<1>5. m = New([bytes EXCEPT ![j] = bytes[j] \cap Trailing(n)], n)
  BY <1>1, <1>4 DEF MaskTrailing, New
<1>6. m.bytes = [bytes EXCEPT ![j] = bytes[j] \cap Trailing(n)]
  <2>1. \A x : New(x, n).bytes = x
    BY DEF New
  <2> HIDE DEF m, j
  <2> QED BY <1>5, <2>1
<1> HIDE DEF j, k, m
<1>7. m.bytes[k] = IF k = j THEN bytes[j] \cap Inside(j, n) ELSE bytes[k]
  BY <1>2, <1>3, <1>6 DEF Packed
<1>8. k = j => i % W \in Inside(j, n)
  BY <1>3 DEF Inside
<1>9. i % W \in m.bytes[k] <=> i % W \in bytes[k]
  BY <1>7, <1>8
<1> QED BY <1>9 DEF BitAt, k, m

(* set_unchecked, index after index, sets the bits it is given.            *)
LEMMA PutBitsAt ==
  ASSUME NEW m, Raw(m), NEW S \in SUBSET Nat, NEW v \in BOOLEAN, NEW i \in 0..m.len-1
  PROVE  BitAt(PutBits(m, S, v).bytes, i) <=> (IF i \in S THEN v = TRUE ELSE BitAt(m.bytes, i))
<1> DEFINE hit(k) == {x % W : x \in {y \in S : y \div W = k}}
           k == i \div W
<1>1. m.len \in Nat /\ DOMAIN m.bytes = 0..BytesFor(m.len)-1
  BY RawParts
<1>2. k \in 0..BytesFor(m.len)-1 /\ i % W \in 0..W-1 /\ i = k * W + (i % W) /\ i \in Nat
  <2> DEFINE n == m.len
  <2>1. n \in Nat /\ i \in 0..n-1
    BY <1>1
  <2> HIDE DEF n, hit
  <2>2. i \in Nat
    BY <2>1
  <2> QED BY <2>1, <2>2, PlaceWithin DEF n
<1>3. i % W \in hit(k) <=> i \in S
  <2>1. ASSUME NEW x \in S, x \div W = k, x % W = i % W PROVE x = i
    <3>1. x \in Nat /\ x = (x \div W) * W + (x % W)
      BY WholeAndRest
    <3> HIDE DEF k
    <3> QED BY <1>2, <2>1, <3>1
  <2> QED BY <2>1
<1>4. PutBits(m, S, v).bytes[k] = IF v THEN m.bytes[k] \cup hit(k) ELSE m.bytes[k] \ hit(k)
  BY <1>1, <1>2 DEF PutBits, New
<1> HIDE DEF hit, k
<1>5. i % W \in PutBits(m, S, v).bytes[k] <=> (IF i \in S THEN v = TRUE ELSE i % W \in m.bytes[k])
  BY <1>3, <1>4
<1> QED BY <1>5 DEF BitAt, k

(* A place is at or past a byte when its number is.                        *)
LEMMA PlaceOrder ==
  ASSUME NEW i \in Nat, NEW q \in Nat
  PROVE  (q <= i \div W <=> q * W <= i) /\ q * W \in Nat
<1> DEFINE k == i \div W
<1>1. k \in Nat /\ k * W \in Nat /\ k * W <= i /\ i < k * W + W
  BY WholeAndRest
<1> HIDE DEF k
<1>2. q * W \in Nat /\ (q <= k => q * W <= k * W)
  BY <1>1, MultiplesOrdered
<1>3. ASSUME q * W <= i PROVE q <= k
  <2>1. (k + 1) * W = k * W + W /\ k + 1 \in Nat
    BY <1>1, MultiplesOrdered
  <2>2. q * W < (k + 1) * W
    BY <1>1, <1>2, <1>3, <2>1
  <2>3. q + 1 <= k + 1
    BY <2>1, <2>2, MultiplesOrdered
  <2> QED BY <1>1, <2>3
<1> QED BY <1>1, <1>2, <1>3 DEF k

(* The bytes of a mask in its only form: nothing past the length.          *)
LEMMA RowAt ==
  ASSUME NEW m, Row(m), NEW i \in Nat
  PROVE  /\ i < m.len => i \div W < BytesFor(m.len)
         /\ i >= m.len /\ i \div W < BytesFor(m.len) => ~BitAt(m.bytes, i)
<1> DEFINE k == i \div W
           n == m.len
<1>1. n \in Nat /\ k \in Nat /\ i % W \in 0..W-1 /\ i = k * W + (i % W)
  BY WholeAndRest, RawParts DEF Row
<1>2. BytesFor(n) \in Nat
  BY <1>1, BytesForHolds
<1>3. i < n => k < BytesFor(n)
  <2> SUFFICES ASSUME i < n PROVE k < BytesFor(n)
    OBVIOUS
  <2> HIDE DEF k, n
  <2>1. i \in 0..n-1
    BY <1>1
  <2>2. k \in 0..BytesFor(n)-1
    BY <1>1, <2>1, PlaceWithin DEF k
  <2> QED BY <1>1, <1>2, <2>2
<1>4. ASSUME i >= n, k < BytesFor(n) PROVE ~BitAt(m.bytes, i)
  <2>1. k \in 0..BytesFor(n)-1
    BY <1>1, <1>2, <1>4
  <2>2. m.bytes[k] \subseteq Inside(k, n)
    BY <2>1, RowInside
  <2>3. i % W \notin Inside(k, n)
    <3> HIDE DEF k, n
    <3> QED BY <1>1, <1>4 DEF Inside
  <2> QED BY <2>2, <2>3 DEF BitAt
<1> QED BY <1>3, <1>4

(* A resized buffer keeps the bytes it had and fills the others.           *)
LEMMA ResizedAt ==
  ASSUME NEW m, Row(m), NEW n \in Nat, NEW fill \in Byte, NEW i \in 0..n-1
  PROVE  BitAt(Resized(m.bytes, BytesFor(n), fill), i)
           <=> IF i \div W < BytesFor(m.len) THEN BitAt(m.bytes, i) ELSE i % W \in fill
<1>1. DOMAIN m.bytes = 0..BytesFor(m.len)-1 /\ BytesFor(m.len) \in Nat /\ BytesFor(n) \in Nat
  BY RawParts, BytesForHolds DEF Row
<1>2. i \div W \in 0..BytesFor(n)-1
  BY PlaceWithin
<1> HIDE DEF BytesFor
<1>3. Resized(m.bytes, BytesFor(n), fill)[i \div W] =
        IF i \div W \in DOMAIN m.bytes THEN m.bytes[i \div W] ELSE fill
  BY <1>2 DEF Resized
<1>4. i \div W \in DOMAIN m.bytes <=> i \div W < BytesFor(m.len)
  BY <1>1, <1>2
<1> QED BY <1>3, <1>4 DEF BitAt

(* ensure_capacity keeps every bit and adds clear ones.                    *)
LEMMA EnsureCapacityAt ==
  ASSUME NEW m, Row(m), NEW n \in Nat, NEW i \in 0..EnsureCapacity(m, n).len-1
  PROVE  /\ m.len \in Nat
         /\ EnsureCapacity(m, n).len = IF n > m.len THEN n ELSE m.len
         /\ BitAt(EnsureCapacity(m, n).bytes, i) <=> i < m.len /\ BitAt(m.bytes, i)
<1>1. m.len \in Nat /\ Raw(m) /\ Size(m.bytes) = BytesFor(m.len)
  BY RawParts, SizeOfBytes DEF Row
<1>2. CASE n > m.len
  <2> DEFINE bytes == Resized(m.bytes, BytesFor(n), {})
  <2>0. {} \in Byte
    BY DEF Byte
  <2>1. BytesFor(m.len) \in Nat /\ BytesFor(n) \in Nat /\ BytesFor(m.len) <= BytesFor(n)
    BY <1>1, <1>2, BytesForHolds, BytesForGrows
  <2>2. (IF Size(m.bytes) < BytesFor(n) THEN BytesFor(n) ELSE Size(m.bytes)) = BytesFor(n)
    BY <1>1, <2>1
  <2>3. EnsureCapacity(m, n) = MaskTrailing(New(bytes, n)) /\ bytes \in Packed(n)
    BY <1>1, <1>2, <2>0, <2>2, ResizedIsPacked DEF EnsureCapacity
  <2>4. EnsureCapacity(m, n).len = n
    BY <1>2, EnsureCapacityRow
  <2>5. BitAt(EnsureCapacity(m, n).bytes, i) <=> BitAt(bytes, i)
    <3> HIDE DEF bytes
    <3> QED BY <2>3, <2>4, MaskTrailingAt
  <2>6. BitAt(bytes, i) <=> IF i \div W < BytesFor(m.len) THEN BitAt(m.bytes, i) ELSE i % W \in {}
    BY <2>0, <2>4, ResizedAt
  <2>7. i \in Nat /\ (i < m.len \/ i >= m.len)
    BY <1>1, <2>4
  <2> HIDE DEF bytes
  <2>8. (i < m.len => i \div W < BytesFor(m.len))
        /\ (i >= m.len /\ i \div W < BytesFor(m.len) => ~BitAt(m.bytes, i))
    BY <2>7, RowAt
  <2>9. i >= m.len => ~(i < m.len)
    BY <1>1, <2>7
  <2>10. BitAt(bytes, i) <=> i < m.len /\ BitAt(m.bytes, i)
    BY ONLY <2>6, <2>7, <2>8, <2>9
  <2> QED BY <1>1, <1>2, <2>4, <2>5, <2>10
<1>3. CASE ~(n > m.len)
  <2>1. EnsureCapacity(m, n) = m
    BY <1>1, <1>3, EnsureCapacityRow
  <2>2. i < m.len
    BY <1>1, <2>1
  <2> QED BY <1>1, <1>3, <2>1, <2>2
<1> QED BY <1>2, <1>3

(* set                                                                     *)
LEMMA SetBitAt ==
  ASSUME NEW m, Row(m), NEW s \in Nat, NEW v \in BOOLEAN
  PROVE  /\ m.len \in Nat /\ Row(SetBit(m, s, v))
         /\ SetBit(m, s, v).len = IF s + 1 > m.len THEN s + 1 ELSE m.len
         /\ \A i \in 0..SetBit(m, s, v).len-1 :
              BitAt(SetBit(m, s, v).bytes, i)
                <=> IF i = s THEN v = TRUE ELSE i < m.len /\ BitAt(m.bytes, i)
<1> DEFINE g == EnsureCapacity(m, s + 1)
           p == PutBits(g, {s}, v)
<1>1. m.len \in Nat /\ Row(g) /\ Raw(g) /\ g.len \in Nat /\ s + 1 \in Nat
  BY EnsureCapacityRow, RawParts DEF Row
<1>2. g.len = IF s + 1 > m.len THEN s + 1 ELSE m.len
  BY <1>1, EnsureCapacityRow
<1>3. \A i \in 0..g.len-1 : BitAt(g.bytes, i) <=> i < m.len /\ BitAt(m.bytes, i)
  BY <1>1, EnsureCapacityAt
<1>4. SetBit(m, s, v) = MaskTrailing(p)
  BY DEF SetBit
<1> HIDE DEF g
<1>5. p = New(p.bytes, g.len) /\ p.bytes \in Packed(g.len) /\ {s} \in SUBSET Nat
  BY <1>1, PutBitsRaw
<1>6. \A i \in 0..g.len-1 : BitAt(p.bytes, i) <=> IF i = s THEN v = TRUE ELSE BitAt(g.bytes, i)
  <2> SUFFICES ASSUME NEW i \in 0..g.len-1
               PROVE  BitAt(p.bytes, i) <=> IF i = s THEN v = TRUE ELSE BitAt(g.bytes, i)
    OBVIOUS
  <2>1. BitAt(p.bytes, i) <=> IF i \in {s} THEN v = TRUE ELSE BitAt(g.bytes, i)
    BY <1>1, <1>5, PutBitsAt
  <2> QED BY <2>1
<1> HIDE DEF p
<1>7. SetBit(m, s, v).len = g.len /\ Row(SetBit(m, s, v))
  BY <1>1, <1>4, <1>5, MaskTrailingRow
<1>8. \A i \in 0..g.len-1 : BitAt(SetBit(m, s, v).bytes, i) <=> BitAt(p.bytes, i)
  BY <1>1, <1>4, <1>5, MaskTrailingAt
<1>9. \A i \in 0..g.len-1 :
        BitAt(SetBit(m, s, v).bytes, i) <=> IF i = s THEN v = TRUE ELSE i < m.len /\ BitAt(m.bytes, i)
  BY <1>3, <1>6, <1>8, Zenon
<1> QED BY <1>1, <1>2, <1>7, <1>9

(* set_range grows a mask to the end of the range.                         *)
LEMMA SetRangeLen ==
  ASSUME NEW m, Row(m), NEW s \in Nat, NEW e \in Nat, s < e, NEW v \in BOOLEAN
  PROVE  SetRange(m, s, e, v).len = IF e > m.len THEN e ELSE m.len
<1> DEFINE g == EnsureCapacity(m, e)
<1>1. g.len = IF e > m.len THEN e ELSE m.len
  <2>1. m.len \in Nat
    BY DEF Row, Raw
  <2>2. (e > m.len => g.len = e) /\ (e <= m.len => g = m)
    BY EnsureCapacityRow
  <2> HIDE DEF g
  <2> QED BY <2>1, <2>2
<1>2. \A x, S, w : PutBits(x, S, w).len = x.len
  BY DEF PutBits, New
<1>3. \A bytes : New(bytes, g.len).len = g.len
  BY DEF New
<1>4. ~(s >= e)
  OBVIOUS
<1>5. SetRange(m, s, e, v).len = g.len
  <2> HIDE DEF g
  <2> QED BY <1>2, <1>3, <1>4 DEF SetRange, g
<1> QED BY <1>1, <1>5

(* set_range: the bits one by one at both ends and the whole bytes between *)
(* are the bits of the range.                                              *)
LEMMA SetRangeAt ==
  ASSUME NEW m, Row(m), NEW s \in Nat, NEW e \in Nat, s < e, NEW v \in BOOLEAN
  PROVE  /\ m.len \in Nat
         /\ e > m.len => SetRange(m, s, e, v).len = e
         /\ ~(e > m.len) => SetRange(m, s, e, v).len = m.len
         /\ \A i \in 0..SetRange(m, s, e, v).len-1 :
              BitAt(SetRange(m, s, e, v).bytes, i)
                <=> IF s <= i /\ i < e THEN v = TRUE ELSE i < m.len /\ BitAt(m.bytes, i)
<1> DEFINE g == EnsureCapacity(m, e)
           c == BytesFor(s)
           S == s .. Least(e, c * W) - 1
           head == PutBits(g, S, v)
           whole == [k \in DOMAIN g.bytes |-> IF k \in Middle(s, e) THEN Fill(v) ELSE head.bytes[k]]
           middle == New(whole, g.len)
           d == e \div W
           R == d * W .. e - 1
           last == PutBits(middle, R, v)
<1>1. m.len \in Nat /\ Row(g) /\ Raw(g) /\ g.len \in Nat /\ DOMAIN g.bytes = 0..BytesFor(g.len)-1
  BY EnsureCapacityRow, RawParts DEF Row
<1>2. g.len = (IF e > m.len THEN e ELSE m.len) /\ e <= g.len
  BY <1>1, EnsureCapacityRow
<1>3. \A i \in 0..g.len-1 : BitAt(g.bytes, i) <=> i < m.len /\ BitAt(m.bytes, i)
  BY <1>1, EnsureCapacityAt
<1>4. c \in Nat /\ c * W \in Nat /\ s <= c * W /\ d \in Nat /\ d * W \in Nat /\ d * W <= e
  BY BytesForHolds, WholeAndRest
<1>5. SetRange(m, s, e, v) = IF c * W >= e THEN head ELSE last
  <2>1. ~(s >= e)
    OBVIOUS
  <2> QED BY <2>1 DEF SetRange
<1>6. Middle(s, e) = c .. d - 1
  BY DEF Middle
<1> HIDE DEF g, c, d
<1>7. S \in SUBSET Nat /\ R \in SUBSET Nat
  BY <1>4
<1>8. S = {i \in Nat : s <= i /\ i < e /\ i < c * W}
  BY <1>4 DEF Least
<1>9. R = {i \in Nat : d * W <= i /\ i < e}
  BY <1>4
<1> HIDE DEF S, R
<1>10. /\ Raw(head) /\ head.len = g.len /\ head.bytes \in Packed(g.len)
       /\ \A i \in 0..g.len-1 : BitAt(head.bytes, i) <=> IF i \in S THEN v = TRUE ELSE BitAt(g.bytes, i)
  BY <1>1, <1>7, PutBitsRaw, PutBitsAt
<1> HIDE DEF head
<1>11. CASE c * W >= e
  <2>1. \A i \in 0..g.len-1 : i \in S <=> s <= i /\ i < e
    BY <1>1, <1>4, <1>8, <1>11
  <2>2. \A i \in 0..g.len-1 :
          BitAt(head.bytes, i) <=> IF s <= i /\ i < e THEN v = TRUE ELSE i < m.len /\ BitAt(m.bytes, i)
    BY <1>3, <1>10, <2>1, Zenon
  <2> QED BY <1>1, <1>2, <1>5, <1>10, <1>11, <2>2
<1>12. CASE ~(c * W >= e)
  <2>1. whole \in Packed(g.len)
    <3>1. \A k \in 0..BytesFor(g.len)-1 : head.bytes[k] \in Byte /\ Fill(v) \in Byte
      BY <1>10 DEF Packed, Fill, Low, Byte
    <3> HIDE DEF BytesFor
    <3> QED BY <1>1, <3>1 DEF Packed
  <2>2. Raw(middle) /\ middle.len = g.len /\ middle.bytes = whole
    BY <1>1, <2>1, NewIsRaw
  <2>3. \A i \in 0..g.len-1 :
          BitAt(whole, i) <=> IF c * W <= i /\ i < d * W THEN v = TRUE ELSE BitAt(head.bytes, i)
    <3> SUFFICES ASSUME NEW i \in 0..g.len-1
                 PROVE  BitAt(whole, i)
                          <=> IF c * W <= i /\ i < d * W THEN v = TRUE ELSE BitAt(head.bytes, i)
      OBVIOUS
    <3>1. i \in Nat /\ i \div W \in 0..BytesFor(g.len)-1 /\ i % W \in 0..W-1
      <4> DEFINE n == g.len
      <4>1. n \in Nat /\ i \in 0..n-1 /\ i \in Nat
        BY <1>1
      <4> HIDE DEF n
      <4> QED BY <4>1, PlaceWithin DEF n
    <3>2. (c <= i \div W <=> c * W <= i) /\ (d <= i \div W <=> d * W <= i)
      BY <1>4, <3>1, PlaceOrder
    <3> DEFINE k == i \div W
    <3>3. k \in Int
      BY <3>1
    <3> HIDE DEF k, BytesFor
    <3>4. k \in c .. d - 1 <=> c * W <= i /\ i < d * W
      BY <1>4, <3>1, <3>2, <3>3 DEF k
    <3>5. whole[k] = IF k \in c .. d - 1 THEN Fill(v) ELSE head.bytes[k]
      BY <1>1, <1>6, <3>1 DEF k
    <3>6. i % W \in Fill(v) <=> v = TRUE
      BY <3>1 DEF Fill, Low
    <3> HIDE DEF whole
    <3>7. i % W \in whole[k] <=> IF c * W <= i /\ i < d * W THEN v = TRUE ELSE i % W \in head.bytes[k]
      BY <3>4, <3>5, <3>6
    <3> QED BY <3>7 DEF BitAt, k
  <2> HIDE DEF whole, middle
  <2>4. /\ last.len = g.len
        /\ \A i \in 0..g.len-1 : BitAt(last.bytes, i) <=> IF i \in R THEN v = TRUE ELSE BitAt(whole, i)
    BY <1>7, <2>2, PutBitsRaw, PutBitsAt
  <2> HIDE DEF last
  <2>5. \A i \in 0..g.len-1 : /\ i \in S <=> s <= i /\ i < e /\ i < c * W
                              /\ i \in R <=> d * W <= i /\ i < e
    BY <1>1, <1>8, <1>9
  <2>6. \A i \in 0..g.len-1 :
          (i \in R \/ (c * W <= i /\ i < d * W) \/ i \in S) <=> s <= i /\ i < e
    <3>1. c * W <= d * W
      <4>1. c * W <= e
        BY <1>4, <1>12
      <4>2. c <= e \div W
        BY <1>4, <4>1, PlaceOrder
      <4>3. c <= d
        BY <4>2 DEF d
      <4> QED BY <1>4, <4>3, MultiplesOrdered
    <3>2. \A i \in 0..g.len-1 : i \in Int
      OBVIOUS
    <3>3. c * W < e /\ d * W <= e /\ s <= c * W
      BY <1>4, <1>12
    <3> QED BY <1>4, <2>5, <3>1, <3>2, <3>3
  <2>7. \A i \in 0..g.len-1 :
          BitAt(last.bytes, i) <=> IF s <= i /\ i < e THEN v = TRUE ELSE i < m.len /\ BitAt(m.bytes, i)
    BY <1>3, <1>10, <2>3, <2>4, <2>6, Zenon
  <2> QED BY <1>1, <1>2, <1>5, <1>12, <2>4, <2>7
<1> QED BY <1>11, <1>12

(* resize keeps the bits below both lengths; the bits it adds, those in    *)
(* the old last byte included, have the value asked for.                   *)
LEMMA ResizeAt ==
  ASSUME NEW m, Row(m), NEW n \in Nat, NEW v \in BOOLEAN, NEW i \in 0..n-1
  PROVE  BitAt(Resize(m, n, v).bytes, i) <=> IF i < m.len THEN BitAt(m.bytes, i) ELSE v = TRUE
<1> DEFINE bytes == Resized(m.bytes, BytesFor(n), Fill(v))
           r == New(bytes, n)
           S == OldByte(m.len, n, v)
           p == PutBits(r, S, TRUE)
           c == BytesFor(m.len)
<1>1. m.len \in Nat /\ Raw(m) /\ Fill(v) \in Byte /\ i \in Nat /\ i < n
  BY RawParts DEF Row, Fill, Low, Byte
<1>2. c \in Nat /\ c * W \in Nat /\ m.len <= c * W /\ (m.len % W = 0 => c * W = m.len)
  <2>1. m.len % W = 0 => (m.len \div W) * W = m.len /\ c = m.len \div W
    <3> DEFINE q == m.len \div W
               t == m.len % W
    <3>1. q \in Nat /\ q * W \in Nat /\ t \in 0..W-1 /\ m.len = q * W + t
      BY <1>1, WholeAndRest
    <3>2. t = 0 => c = q
      BY <1>1, BytesForSplits
    <3> HIDE DEF q, t, c
    <3>3. t = 0 => q * W = m.len /\ c = q
      BY <3>1, <3>2
    <3> QED BY <3>3 DEF q, t
  <2> QED BY <1>1, <2>1, BytesForHolds
<1>3. i \div W < c <=> i < c * W
  <2>1. i \div W \in Nat /\ (c <= i \div W <=> c * W <= i)
    BY <1>1, <1>2, PlaceOrder, WholeAndRest
  <2> HIDE DEF c
  <2> QED BY <1>1, <1>2, <2>1
<1>4. S = IF v /\ n > m.len /\ m.len % W # 0 THEN m.len .. Least(n, c * W) - 1 ELSE {}
  BY DEF OldByte
<1> HIDE DEF c, S
<1>5. S \in SUBSET Nat /\ (i \in S <=> v = TRUE /\ m.len % W # 0 /\ m.len <= i /\ i < c * W)
  BY <1>1, <1>2, <1>4 DEF Least
<1>6. bytes \in Packed(n)
  BY <1>1, ResizedIsPacked
<1>7. BitAt(bytes, i) <=> IF i \div W < c THEN BitAt(m.bytes, i) ELSE i % W \in Fill(v)
  BY <1>1, ResizedAt DEF c
<1>8. i % W \in Fill(v) <=> v = TRUE
  BY <1>1, WholeAndRest DEF Fill, Low
<1>9. i >= m.len /\ i \div W < c => ~BitAt(m.bytes, i)
  BY <1>1, RowAt DEF c
<1> HIDE DEF bytes
<1>10. Raw(r) /\ r.len = n /\ r.bytes = bytes
  BY <1>6, NewIsRaw
<1> HIDE DEF r
<1>11. BitAt(p.bytes, i) <=> IF i \in S THEN TRUE = TRUE ELSE BitAt(bytes, i)
  BY <1>5, <1>10, PutBitsAt
<1>12. p = New(p.bytes, n) /\ p.bytes \in Packed(n)
  BY <1>5, <1>10, PutBitsRaw
<1>13. Resize(m, n, v) = MaskTrailing(p)
  BY DEF Resize, p, r, bytes, S
<1> HIDE DEF p
<1>14. BitAt(Resize(m, n, v).bytes, i) <=> BitAt(p.bytes, i)
  BY <1>12, <1>13, MaskTrailingAt
<1>15. (i < m.len \/ m.len <= i) /\ (i < m.len => i < c * W) /\ (m.len <= i <=> ~(i < m.len)) /\ (i >= m.len <=> m.len <= i)
  BY <1>1, <1>2
<1>16. m.len % W = 0 /\ m.len <= i => ~(i < c * W)
  BY <1>1, <1>2
<1> QED BY <1>3, <1>5, <1>7, <1>8, <1>9, <1>11, <1>14, <1>15, <1>16, Zenon

(* Clearing the padding of a mask in its only form changes nothing.        *)
LEMMA RowIsMasked == ASSUME NEW m, Row(m) PROVE MaskTrailing(m) = m
<1> DEFINE n == m.len
           j == BytesFor(n) - 1
<1>1. n \in Nat /\ m = New(m.bytes, n) /\ m.bytes \in Packed(n)
  BY DEF Row, Raw
<1>2. CASE n = 0
  BY <1>2 DEF MaskTrailing
<1>3. CASE n > 0
  <2>1. j \in Nat /\ Trailing(n) = Inside(j, n) /\ j \in 0..BytesFor(n)-1
    BY <1>1, <1>3, TrailingInside
  <2>2. m.bytes[j] \cap Trailing(n) = m.bytes[j]
    BY <2>1, RowInside
  <2>3. [m.bytes EXCEPT ![j] = m.bytes[j] \cap Trailing(n)] = m.bytes
    <3> HIDE DEF j, n
    <3> QED BY <1>1, <2>1, <2>2 DEF Packed
  <2>4. MaskTrailing(New(m.bytes, n)) = New([m.bytes EXCEPT ![j] = m.bytes[j] \cap Trailing(n)], n)
    <3> DEFINE b == m.bytes
    <3>1. New(b, n).len = n /\ n # 0
      BY <1>1, <1>3 DEF New
    <3> HIDE DEF b, n
    <3>2. MaskTrailing(New(b, n)) = New([b EXCEPT ![j] = b[j] \cap Trailing(n)], n)
      BY <3>1 DEF MaskTrailing, New
    <3> QED BY <3>2 DEF b
  <2> QED BY <1>1, <2>3, <2>4
<1> QED BY <1>1, <1>2, <1>3

(* A sequence of n items, counted from zero.                               *)
LEMMA SizeIs == ASSUME NEW n \in Nat, NEW f, DOMAIN f = 0..n-1 PROVE Size(f) = n
<1>1. Cardinality(0..n-1) = IF 0 > n - 1 THEN 0 ELSE (n - 1) - 0 + 1
  BY FS_Interval
<1> QED BY <1>1 DEF Size

(* A window has as many bits as it was asked for.                          *)
LEMMA SizeOfWindow == ASSUME NEW bits, NEW off, NEW n \in Nat PROVE Size(Window(bits, off, n)) = n
BY SizeIs DEF Window

(* The bits of a mask are those of its bytes.                              *)
LEMMA BitsAt ==
  ASSUME NEW m, Row(m)
  PROVE  /\ m.len \in Nat /\ LenOf(m) = m.len
         /\ \A i \in 0..m.len-1 : Bits(m)[i] \in BOOLEAN /\ (Bits(m)[i] <=> BitAt(m.bytes, i))
<1>1. Shows(m, Bits(m)) /\ LenOf(m) = m.len /\ Bits(m) \in BitSeqs(m.len) /\ m.len \in Nat
  BY RowShows, RawParts DEF Row
<1>2. \A i \in 0..m.len-1 : Bits(m)[i] \in BOOLEAN
  BY <1>1 DEF BitSeqs
<1> QED BY <1>1, <1>2 DEF Shows

(* A mask reads as a sequence of bits of its length that are its own.      *)
LEMMA ReadsAs ==
  ASSUME NEW m, Row(m), NEW bits, DOMAIN bits = 0..m.len-1, bits = [i \in DOMAIN bits |-> bits[i]],
         \A i \in 0..m.len-1 : bits[i] \in BOOLEAN /\ (bits[i] <=> BitAt(m.bytes, i))
  PROVE  Reads(m, bits) /\ Bits(m) = bits
<1>1. bits \in BitSeqs(m.len)
  BY Zenon DEF BitSeqs
<1>2. Shows(m, bits)
  BY <1>1 DEF Shows
<1> QED BY <1>2, ShowsReads

-----------------------------------------------------------------------------
(* Loops                                                                   *)

(* A loop of n steps over the states of S runs: there is a function from   *)
(* the number of steps done to the state then, as its recursive definition *)
(* says.                                                                   *)
LEMMA LoopRuns ==
  \A S : \A b \in S, n \in Nat : \A f \in [1..n -> [S -> S]] :
    \E g \in [0..n -> S] : g[0] = b /\ \A k \in 1..n : g[k] = f[k][g[k - 1]]
<1> SUFFICES ASSUME NEW S, NEW b \in S, NEW n \in Nat, NEW f \in [1..n -> [S -> S]]
             PROVE  \E g \in [0..n -> S] : g[0] = b /\ \A k \in 1..n : g[k] = f[k][g[k - 1]]
  OBVIOUS
<1> DEFINE Good(j, g) == g[0] = b /\ \A k \in 1..j : g[k] = f[k][g[k - 1]]
           T == {j \in Nat : j <= n => \E g \in [0..j -> S] : Good(j, g)}
<1>1. 0 \in T
  <2>1. [k \in 0..0 |-> b] \in [0..0 -> S] /\ Good(0, [k \in 0..0 |-> b])
    OBVIOUS
  <2> QED BY <2>1
<1>2. ASSUME NEW j \in Nat, j \in T PROVE j + 1 \in T
  <2> SUFFICES ASSUME j + 1 <= n PROVE \E g \in [0..j+1 -> S] : Good(j + 1, g)
    OBVIOUS
  <2>1. PICK g \in [0..j -> S] : Good(j, g)
    BY <1>2
  <2> DEFINE next == f[j + 1][g[j]]
             h == [k \in 0..j+1 |-> IF k <= j THEN g[k] ELSE next]
  <2>2. next \in S
    <3>1. j + 1 \in 1..n /\ g[j] \in S
      BY <2>1
    <3> QED BY <3>1
  <2> HIDE DEF next
  <2>3. h \in [0..j+1 -> S]
    BY <2>1, <2>2
  <2>4. h[0] = b
    BY <2>1
  <2>5. ASSUME NEW k \in 1..j+1 PROVE h[k] = f[k][h[k - 1]]
    <3>1. h[k - 1] = g[k - 1]
      OBVIOUS
    <3>2. CASE k <= j
      <4>1. h[k] = g[k] /\ k \in 1..j
        BY <3>2
      <4> QED BY <2>1, <3>1, <4>1
    <3>3. CASE k = j + 1
      <4>1. h[k] = next /\ k - 1 = j
        BY <3>3
      <4> QED BY <3>1, <3>3, <4>1 DEF next
    <3> QED BY <3>2, <3>3
  <2> QED BY <2>3, <2>4, <2>5
<1>3. n \in T
  <2> HIDE DEF T
  <2> QED BY <1>1, <1>2, Induction
<1> QED BY <1>3

(* The masks in their only form, as a set.                                 *)
Rows == {m \in UNION {{New(bytes, n) : bytes \in Packed(n)} : n \in Nat} : Row(m)}

(* A mask is in the set when it is in its only form.                       *)
LEMMA InRows == ASSUME NEW m PROVE m \in Rows <=> Row(m)
BY DEF Rows, Row, Raw

(* set_bits_chunk: bit after bit.                                          *)
LEMMA SetBitsChunkAt ==
  ASSUME NEW m, Row(m), NEW s \in Nat, NEW word, NEW n \in Nat
  PROVE  LET x == SetBitsChunk(m, s, word, n)
         IN /\ Row(x) /\ m.len \in Nat /\ x.len = IF n > 0 /\ s + n > m.len THEN s + n ELSE m.len
            /\ \A i \in 0..x.len-1 :
                 BitAt(x.bytes, i) <=> IF s <= i /\ i < s + n THEN i - s \in word
                                       ELSE i < m.len /\ BitAt(m.bytes, i)
<1> DEFINE Step(x, k) == SetBit(x, s + k - 1, k - 1 \in word)
           R(g) == g = [k \in 0..n |-> IF k = 0 THEN m ELSE Step(g[k - 1], k)]
           after == CHOOSE g : R(g)
           f == [k \in 1..n |-> [x \in Rows |-> Step(x, k)]]
<1>0. m.len \in Nat /\ m \in Rows
  BY RawParts, InRows DEF Row
<1>1. \A k \in 1..n, x \in Rows : Step(x, k) \in Rows
  <2> TAKE k \in 1..n, x \in Rows
  <2>1. s + k - 1 \in Nat /\ (k - 1 \in word) \in BOOLEAN
    OBVIOUS
  <2> QED BY <2>1, InRows, SetBitAt
<1> HIDE DEF Step
<1>2. PICK g \in [0..n -> Rows] : g[0] = m /\ \A k \in 1..n : g[k] = f[k][g[k - 1]]
  <2>1. f \in [1..n -> [Rows -> Rows]]
    BY <1>1
  <2> HIDE DEF f
  <2>2. m \in Rows /\ n \in Nat
    BY <1>0
  <2> QED BY ONLY <2>1, <2>2, LoopRuns
<1>3. R(g)
  <2>1. \A k \in 0..n : k # 0 => k \in 1..n /\ k - 1 \in 0..n
    OBVIOUS
  <2>2. \A k \in 0..n : k # 0 => f[k][g[k - 1]] = Step(g[k - 1], k)
    BY <2>1
  <2> HIDE DEF f
  <2>3. \A k \in 0..n : g[k] = IF k = 0 THEN m ELSE Step(g[k - 1], k)
    BY <1>2, <2>1, <2>2
  <2>4. g = [k \in 0..n |-> g[k]]
    OBVIOUS
  <2> QED BY <2>3, <2>4
<1>4. R(after)
  <2> HIDE DEF R
  <2> QED BY <1>3
<1>5. SetBitsChunk(m, s, word, n) = MaskTrailing(after[n])
  BY DEF SetBitsChunk, Step
<1> HIDE DEF after
<1> DEFINE Done(x, k) ==
             /\ Row(x) /\ x.len = IF k > 0 /\ s + k > m.len THEN s + k ELSE m.len
             /\ \A i \in 0..x.len-1 :
                  BitAt(x.bytes, i) <=> IF s <= i /\ i < s + k THEN i - s \in word
                                        ELSE i < m.len /\ BitAt(m.bytes, i)
           T == {k \in Nat : k <= n => Done(after[k], k)}
<1>6. 0 \in T
  <2>1. after[0] = m
    BY <1>4
  <2>2. Done(m, 0)
    BY <1>0
  <2> HIDE DEF Done
  <2> QED BY <2>1, <2>2
<1>7. ASSUME NEW k \in Nat, k \in T PROVE k + 1 \in T
  <2> SUFFICES ASSUME k + 1 <= n PROVE Done(after[k + 1], k + 1)
    OBVIOUS
  <2> DEFINE x == after[k]
             y == SetBit(x, s + k, k \in word)
  <2>1. Done(x, k)
    BY <1>7
  <2>2. after[k + 1] = y
    <3>1. k + 1 \in 0..n /\ k + 1 # 0 /\ (k + 1) - 1 = k /\ s + (k + 1) - 1 = s + k
      OBVIOUS
    <3>2. after[k + 1] = Step(after[k], k + 1)
      BY <1>4, <3>1
    <3> QED BY <3>1, <3>2 DEF Step
  <2> HIDE DEF x
  <2>3. s + k \in Nat /\ (k \in word) \in BOOLEAN
    OBVIOUS
  <2>4. /\ x.len \in Nat /\ Row(y) /\ y.len = IF s + k + 1 > x.len THEN s + k + 1 ELSE x.len
        /\ \A i \in 0..y.len-1 :
             BitAt(y.bytes, i) <=> IF i = s + k THEN (k \in word) = TRUE ELSE i < x.len /\ BitAt(x.bytes, i)
    BY <2>1, <2>3, SetBitAt
  <2> HIDE DEF y
  <2>5. y.len = IF s + (k + 1) > m.len THEN s + (k + 1) ELSE m.len
    BY <1>0, <2>1, <2>4
  <2>6. ASSUME NEW i \in 0..y.len-1
        PROVE  BitAt(y.bytes, i) <=> IF s <= i /\ i < s + (k + 1) THEN i - s \in word
                                     ELSE i < m.len /\ BitAt(m.bytes, i)
    <3>1. i \in Nat /\ (i < x.len => i \in 0..x.len-1)
      BY <2>4
    <3>2. CASE i = s + k
      <4>1. s <= i /\ i < s + (k + 1) /\ i - s = k
        BY <3>2
      <4> QED BY <2>4, <3>2, <4>1
    <3>3. CASE i # s + k
      <4>1. (s <= i /\ i < s + (k + 1)) <=> (s <= i /\ i < s + k)
        BY <3>1, <3>3
      <4>2. BitAt(y.bytes, i) <=> i < x.len /\ BitAt(x.bytes, i)
        BY <2>4, <3>3
      <4>3. ASSUME i < x.len
            PROVE  BitAt(x.bytes, i) <=> IF s <= i /\ i < s + k THEN i - s \in word
                                         ELSE i < m.len /\ BitAt(m.bytes, i)
        BY <2>1, <3>1, <4>3
      <4>4. ~(i < x.len) => ~(s <= i /\ i < s + k) /\ ~(i < m.len)
        BY <1>0, <2>1, <3>1
      <4> QED BY <4>1, <4>2, <4>3, <4>4, Zenon
    <3> QED BY <3>2, <3>3
  <2> QED BY <2>2, <2>4, <2>5, <2>6
<1>8. n \in T
  <2> HIDE DEF T
  <2> QED BY <1>6, <1>7, Induction
<1>9. Done(after[n], n)
  BY <1>8
<1>10. MaskTrailing(after[n]) = after[n]
  BY <1>9, RowIsMasked
<1> QED BY <1>0, <1>5, <1>9, <1>10

-----------------------------------------------------------------------------
(* Bits moved down                                                         *)

(* A row of size bytes.                                                    *)
Buffers(size) == [0..size-1 -> Byte]

(* The byte that straddles two bytes has the W bits that start at its      *)
(* place, those past the end being clear.                                  *)
LEMMA StraddleAt ==
  ASSUME NEW size \in Nat, NEW bytes \in Buffers(size), NEW i \in 0..size-1,
         NEW sh \in 0..W-1, NEW b \in 0..W-1
  PROVE  b \in Straddle(bytes, i, sh)
           <=> (i * W + sh + b) \div W \in 0..size-1 /\ BitAt(bytes, i * W + sh + b)
<1> DEFINE p == i * W + sh + b
<1>1. DOMAIN bytes = 0..size-1 /\ \A k \in 0..size-1 : bytes[k] \subseteq 0..W-1
  BY DEF Buffers, Byte
<1>2. b \in Straddle(bytes, i, sh) <=>
        \/ b \in Shr(bytes[i], sh)
        \/ sh # 0 /\ i + 1 \in 0..size-1 /\ b \in Shl(bytes[i + 1], W - sh)
  BY <1>1 DEF Straddle, AsByte, Low
<1>3. b \in Shr(bytes[i], sh) <=> b + sh \in bytes[i]
  <2>1. \A x \in bytes[i] : x \in Int
    BY <1>1
  <2> QED BY <2>1 DEF Shr
<1>4. ASSUME i + 1 \in 0..size-1
      PROVE  b \in Shl(bytes[i + 1], W - sh) <=> b - (W - sh) \in bytes[i + 1]
  <2>1. \A x \in bytes[i + 1] : x \in Int
    BY <1>1, <1>4
  <2> QED BY <2>1 DEF Shl
<1>5. i \in Nat /\ i * W \in Nat /\ (i + 1) * W = i * W + W
  BY MultiplesOrdered
<1>6. CASE sh + b < W
  <2>1. sh + b \in 0..W-1 /\ p = i * W + (sh + b)
    BY <1>5, <1>6
  <2>2. p \div W = i /\ p % W = sh + b
    BY <1>5, <2>1, PlaceIs
  <2>3. i + 1 \in 0..size-1 => ~(b - (W - sh) \in bytes[i + 1])
    BY <1>1, <1>6
  <2> HIDE DEF p
  <2> QED BY <1>2, <1>3, <1>4, <2>2, <2>3 DEF BitAt, p
<1>7. CASE sh + b >= W
  <2> DEFINE k == i + 1
             r == sh + b - W
  <2>0. r \in 0..W-1 /\ p = (i + 1) * W + (sh + b - W) /\ k \in Nat
    BY <1>5, <1>7
  <2>1. p = k * W + r
    BY <2>0
  <2> HIDE DEF k, r, p
  <2>2. p \div W = k /\ p % W = r
    BY <2>0, <2>1, PlaceIs
  <2> USE DEF k, r
  <2>3. ~(b + sh \in bytes[i]) /\ sh # 0 /\ b - (W - sh) = sh + b - W
    BY <1>1, <1>7
  <2> HIDE DEF p
  <2> QED BY <1>2, <1>3, <1>4, <2>2, <2>3 DEF BitAt, p
<1> QED BY <1>6, <1>7

(* Byte j as delete_range leaves it.                                       *)
MovedByte(bytes, s, span, j) ==
  (bytes[j] \cap KeptBelow(s, j))
    \cup (Straddle(bytes, j + span \div W, span % W) \ KeptBelow(s, j))

(* The loop of delete_range after n bytes, all read inside the buffer:     *)
(* each of them was made of two bytes no step had written.                 *)
LEMMA ShiftedDownIs ==
  ASSUME NEW size \in Nat, NEW bytes \in Buffers(size), NEW s \in Nat, NEW span \in Nat, NEW n \in Nat,
         NEW a \in Nat, a = s \div W, NEW q \in Nat, q = span \div W, n <= size - q - a
  PROVE  /\ ShiftedDown(bytes, s, span, n) \in Buffers(size)
         /\ \A j \in 0..size-1 :
              ShiftedDown(bytes, s, span, n)[j] =
                IF a <= j /\ j < a + n THEN MovedByte(bytes, s, span, j) ELSE bytes[j]
<1> DEFINE sh == span % W
           Step(x, k) == ShiftDown(x, s, span, a + k - 1)
           R(g) == g = [k \in 0..n |-> IF k = 0 THEN bytes ELSE Step(g[k - 1], k)]
           after == CHOOSE g : R(g)
           f == [k \in 1..n |-> [x \in Buffers(size) |-> Step(x, k)]]
<1>0. a \in Nat /\ q \in Nat /\ a + n - 1 + q < size
  OBVIOUS
<1>1. \A i, x, y : x \in Byte => (x \cap y) \cup (Straddle(bytes, i, sh) \ y) \in Byte
  BY DEF Straddle, AsByte, Low, Byte
<1>2. \A k \in 1..n, x \in Buffers(size) : Step(x, k) \in Buffers(size)
  <2> TAKE k \in 1..n, x \in Buffers(size)
  <2>1. \A i, y, z : y \in Byte => (y \cap z) \cup (Straddle(x, i, sh) \ z) \in Byte
    BY DEF Straddle, AsByte, Low, Byte
  <2> DEFINE y == (x[a + k - 1] \cap KeptBelow(s, a + k - 1))
                    \cup (Straddle(x, a + k - 1 + q, sh) \ KeptBelow(s, a + k - 1))
  <2>2. Step(x, k) = [x EXCEPT ![a + k - 1] = y]
    BY DEF ShiftDown
  <2>3. a + k - 1 \in 0..size-1
    BY <1>0
  <2>4. y \in Byte
    BY <2>1, <2>3 DEF Buffers
  <2> HIDE DEF y, Step
  <2> QED BY <2>2, <2>4 DEF Buffers
<1>3. ShiftedDown(bytes, s, span, n) = after[n]
  BY DEF ShiftedDown
<1> HIDE DEF Step
<1>4. PICK g \in [0..n -> Buffers(size)] : g[0] = bytes /\ \A k \in 1..n : g[k] = f[k][g[k - 1]]
  <2>1. f \in [1..n -> [Buffers(size) -> Buffers(size)]]
    BY <1>2
  <2> HIDE DEF f
  <2> DEFINE all == Buffers(size)
  <2>2. bytes \in all /\ n \in Nat /\ f \in [1..n -> [all -> all]]
    BY <2>1
  <2> HIDE DEF all
  <2>3. \E g \in [0..n -> all] : g[0] = bytes /\ \A k \in 1..n : g[k] = f[k][g[k - 1]]
    BY ONLY <2>2, LoopRuns
  <2> QED BY <2>3 DEF all
<1>5. R(g)
  <2>1. \A k \in 0..n : k # 0 => k \in 1..n /\ k - 1 \in 0..n
    OBVIOUS
  <2>2. \A k \in 0..n : k # 0 => f[k][g[k - 1]] = Step(g[k - 1], k)
    BY <2>1
  <2> HIDE DEF f
  <2>3. \A k \in 0..n : g[k] = IF k = 0 THEN bytes ELSE Step(g[k - 1], k)
    BY <1>4, <2>1, <2>2
  <2>4. g = [k \in 0..n |-> g[k]]
    OBVIOUS
  <2> QED BY <2>3, <2>4
<1>6. R(after)
  <2> HIDE DEF R
  <2> QED BY <1>5
<1> HIDE DEF after
<1> DEFINE Done(x, k) ==
             /\ x \in Buffers(size)
             /\ \A j \in 0..size-1 : x[j] = IF a <= j /\ j < a + k THEN MovedByte(bytes, s, span, j) ELSE bytes[j]
           T == {k \in Nat : k <= n => Done(after[k], k)}
<1>7. 0 \in T
  <2>1. after[0] = bytes
    BY <1>6
  <2>2. Done(bytes, 0)
    BY <1>0
  <2> HIDE DEF Done
  <2> QED BY <2>1, <2>2
<1> HIDE DEF Done
<1>8. ASSUME NEW k \in Nat, k \in T PROVE k + 1 \in T
  <2> SUFFICES ASSUME k + 1 <= n PROVE Done(after[k + 1], k + 1)
    OBVIOUS
  <2> DEFINE x == after[k]
             Moved(j) == MovedByte(bytes, s, span, j)
             i == a + k
             y == (x[i] \cap KeptBelow(s, i)) \cup (Straddle(x, i + q, sh) \ KeptBelow(s, i))
  <2>0. Done(after[k], k)
    BY <1>8
  <2>1. Done(x, k)
    BY <2>0
  <2> USE DEF Done
  <2>2. after[k + 1] = [x EXCEPT ![i] = y]
    <3>1. k + 1 \in 0..n /\ k + 1 # 0 /\ (k + 1) - 1 = k /\ a + (k + 1) - 1 = a + k
      BY <1>0
    <3>2. after[k + 1] = Step(after[k], k + 1)
      BY <1>6, <3>1
    <3> QED BY <3>1, <3>2 DEF Step, ShiftDown
  <2>3. i \in 0..size-1 /\ i + q \in 0..size-1
    BY <1>0
  <2> HIDE DEF x
  <2>4. x[i] = bytes[i] /\ x[i + q] = bytes[i + q]
    BY <1>0, <2>1, <2>3
  <2>5. DOMAIN x = DOMAIN bytes /\ (i + q + 1 \in DOMAIN bytes => x[i + q + 1] = bytes[i + q + 1])
    BY <1>0, <2>1, <2>3 DEF Buffers
  <2>6. Straddle(x, i + q, sh) = Straddle(bytes, i + q, sh)
    BY <2>4, <2>5 DEF Straddle
  <2>7. y = Moved(i) /\ y \in Byte
    <3>1. bytes[i] \in Byte
      BY <2>3 DEF Buffers
    <3> QED BY <1>1, <2>4, <2>6, <3>1 DEF MovedByte
  <2> HIDE DEF Moved
  <2> HIDE DEF y
  <2>8. [x EXCEPT ![i] = y] \in Buffers(size)
    BY <2>1, <2>7 DEF Buffers
  <2>9. \A j \in 0..size-1 : [x EXCEPT ![i] = y][j] = IF j = i THEN y ELSE x[j]
    BY <2>1 DEF Buffers
  <2>10. \A j \in 0..size-1 : x[j] = IF a <= j /\ j < a + k THEN Moved(j) ELSE bytes[j]
    BY <2>1 DEF Moved
  <2> HIDE DEF Done
  <2>11. \A j \in 0..size-1 :
           [x EXCEPT ![i] = y][j] = IF a <= j /\ j < a + (k + 1) THEN Moved(j) ELSE bytes[j]
    BY <1>0, <2>7, <2>9, <2>10
  <2> QED BY <2>2, <2>8, <2>11 DEF Done, Moved
<1>9. n \in T
  <2> HIDE DEF T
  <2> QED BY <1>7, <1>8, Induction
<1>10. Done(after[n], n)
  BY <1>9
<1> QED BY <1>3, <1>10 DEF Done

(* What the loop leaves below the range, and the bits it has moved.        *)
LEMMA ShiftedDownAt ==
  ASSUME NEW size \in Nat, NEW bytes \in Buffers(size), NEW s \in Nat, NEW span \in Nat, NEW n \in Nat,
         s \div W + n - 1 + span \div W < size,
         NEW i \in Nat, i \div W < size,
         i \div W < s \div W + n, (i + span) \div W < size
  PROVE  BitAt(ShiftedDown(bytes, s, span, n), i) <=> IF i < s THEN BitAt(bytes, i) ELSE BitAt(bytes, i + span)
<1> DEFINE a == s \div W
           t == s % W
           q == span \div W
           sh == span % W
           k == i \div W
           r == i % W
           x == ShiftedDown(bytes, s, span, n)
           old == bytes[k]
           moved == Straddle(bytes, k + q, sh)
           kept == KeptBelow(s, k)
<1>1. a \in Nat /\ a * W \in Nat /\ t \in 0..W-1 /\ s = a * W + t
  BY WholeAndRest
<1>2. q \in Nat /\ q * W \in Nat /\ sh \in 0..W-1 /\ span = q * W + sh
  BY WholeAndRest
<1>3. k \in Nat /\ k * W \in Nat /\ r \in 0..W-1 /\ i = k * W + r
  BY WholeAndRest
<1>4. x[k] = IF a <= k /\ k < a + n THEN (old \cap kept) \cup (moved \ kept) ELSE old
  <2>1. k \in 0..size-1
    BY <1>3
  <2>2. \A j \in 0..size-1 :
          x[j] = IF a <= j /\ j < a + n THEN MovedByte(bytes, s, span, j) ELSE bytes[j]
    <3>1. a = s \div W /\ q = span \div W /\ n <= size - q - a
      OBVIOUS
    <3>2. /\ a \in Nat /\ q \in Nat /\ size \in Nat /\ bytes \in Buffers(size)
          /\ s \in Nat /\ span \in Nat /\ n \in Nat
      BY <1>1, <1>2
    <3> HIDE DEF a, q
    <3> QED BY ONLY <3>1, <3>2, ShiftedDownIs
  <2> QED BY <2>1, <2>2 DEF MovedByte
<1>5. kept = IF k = a THEN Low(t) ELSE {}
  BY DEF KeptBelow
<1>6. (a <= k => (r \in kept <=> i < s)) /\ (~(a <= k) => i < s)
  <2> HIDE DEF a, t, k, r, kept
  <2>1. CASE k = a
    <3>1. kept = 0..t-1
      BY <1>5, <2>1 DEF Low
    <3> QED BY <1>1, <1>3, <2>1, <3>1
  <2>2. CASE k > a
    <3>1. kept = {}
      BY <1>1, <1>3, <1>5, <2>2
    <3>2. (a + 1) * W = a * W + W /\ (a + 1) * W <= k * W
      BY <1>1, <1>3, <2>2, MultiplesOrdered
    <3> QED BY <1>1, <1>3, <2>2, <3>1, <3>2
  <2>3. CASE k < a
    <3>1. (k + 1) * W = k * W + W /\ (k + 1) * W <= a * W
      BY <1>1, <1>3, <2>3, MultiplesOrdered
    <3> QED BY <1>1, <1>3, <2>3, <3>1
  <2> QED BY <1>1, <1>3, <2>1, <2>2, <2>3
<1>7. ASSUME a <= k PROVE r \in moved <=> BitAt(bytes, i + span)
  <2>1. k + q \in 0..size-1
    <3>1. k <= a + n - 1 /\ a + n - 1 + q < size
      BY <1>1, <1>3
    <3> HIDE DEF k, q, a
    <3> QED BY <1>2, <1>3, <3>1
  <2>2. (k + q) * W = k * W + q * W
    BY <1>2, <1>3, MultiplesOrdered
  <2>3. (k + q) * W + sh + r = i + span
    <3> HIDE DEF k, q, sh, r
    <3> QED BY <1>2, <1>3, <2>2
  <2>4. (i + span) \div W \in 0..size-1
    <3> DEFINE p == i + span
    <3>1. p \in Nat /\ p \div W < size
      OBVIOUS
    <3> HIDE DEF p
    <3>2. p \div W \in Nat
      BY <3>1, WholeAndRest
    <3> QED BY <3>1, <3>2 DEF p
  <2> DEFINE kq == k + q
  <2> HIDE DEF sh, r, kq, k, q
  <2>5. r \in Straddle(bytes, kq, sh)
          <=> (kq * W + sh + r) \div W \in 0..size-1 /\ BitAt(bytes, kq * W + sh + r)
    BY <1>2, <1>3, <2>1, StraddleAt DEF kq
  <2> QED BY <2>3, <2>4, <2>5 DEF kq
<1>8. k < a + n
  OBVIOUS
<1> HIDE DEF old, moved, kept, x, k, r, a
<1>9. r \in x[k] <=> IF i < s THEN r \in old ELSE BitAt(bytes, i + span)
  BY <1>4, <1>6, <1>7, <1>8
<1> QED BY <1>9 DEF BitAt, x, k, r, old

(* A range of whole bytes.                                                 *)
LEMMA OnBytesSpan ==
  ASSUME NEW s \in Nat, NEW e \in Nat, s <= e, OnBytes(s, e)
  PROVE  e \div W - s \div W \in Nat /\ e - s = (e \div W - s \div W) * W /\ s = (s \div W) * W
<1> DEFINE a == s \div W
           b == e \div W
           cut == b - a
<1>1. a \in Nat /\ s = a * W /\ b \in Nat /\ e = b * W
  BY WholeAndRest DEF OnBytes
<1> HIDE DEF a, b
<1>2. a <= b
  <2>1. a * W < (b + 1) * W
    BY <1>1, MultiplesOrdered
  <2>2. a + 1 <= b + 1
    BY <1>1, <2>1, MultiplesOrdered
  <2> QED BY <1>1, <2>2
<1>3. cut \in Nat /\ b = a + cut
  BY <1>1, <1>2
<1> HIDE DEF cut
<1>4. b * W = a * W + cut * W /\ cut * W \in Nat
  BY <1>1, <1>3, MultiplesOrdered
<1>5. e - s = cut * W
  <2> DEFINE aw == a * W
             bw == b * W
             cw == cut * W
  <2>1. s = aw /\ e = bw /\ bw = aw + cw /\ cw \in Nat /\ aw \in Nat
    BY <1>1, <1>4
  <2> HIDE DEF aw, bw, cw
  <2>2. e - s = cw
    BY <2>1
  <2> QED BY <2>2 DEF cw
<1> QED BY <1>1, <1>3, <1>5 DEF a, b, cut

(* delete_range removes exactly the range, in place or byte by byte.       *)
LEMMA DeleteRangeAt ==
  ASSUME NEW m, Row(m), NEW s \in Nat, NEW e \in Nat, s <= e, e <= m.len
  PROVE  LET x == DeleteRange(m, s, e)
         IN /\ m.len \in Nat /\ Row(x) /\ x.len = m.len - (e - s)
            /\ \A i \in 0..x.len-1 : BitAt(x.bytes, i) <=> BitAt(m.bytes, IF i < s THEN i ELSE i + (e - s))
<1> DEFINE n == m.len - (e - s)
           size == BytesFor(m.len)
           span == e - s
           moved == (n - 1) \div W - s \div W + 1
           cut == e \div W - s \div W
           kept == [i \in 0..Size(m.bytes) - cut - 1 |-> m.bytes[IF i < s \div W THEN i ELSE i + cut]]
           shifted == IF e = m.len THEN m.bytes ELSE ShiftedDown(m.bytes, s, span, moved)
           bytes == IF OnBytes(s, e) THEN kept ELSE Truncated(shifted, BytesFor(n))
           From(i) == IF i < s THEN i ELSE i + span
<1>1. Raw(m) /\ m.len \in Nat /\ n \in Nat /\ span \in Nat /\ n + span = m.len
  BY DEF Row, Raw
<1>2. DeleteRange(m, s, e) = IF s = e THEN m ELSE MaskTrailing(New(bytes, n))
  BY DEF DeleteRange
<1>3. CASE s = e
  BY <1>1, <1>2, <1>3
<1>4. CASE s # e
  <2>1. DOMAIN m.bytes = 0..size-1 /\ m.bytes \in Buffers(size) /\ size \in Nat
    BY <1>1, RawParts, BytesForHolds DEF Packed, Buffers
  <2>2. ASSUME OnBytes(s, e)
        PROVE  /\ bytes \in Packed(n)
               /\ \A i \in 0..n-1 : BitAt(bytes, i) <=> BitAt(m.bytes, From(i))
    <3> DEFINE a == s \div W
    <3>1. cut \in Nat /\ span = cut * W /\ s = a * W /\ DOMAIN kept = 0..BytesFor(n)-1 /\ kept \in Packed(n)
      <4>0. s \in Nat /\ e \in Nat /\ s <= e /\ e <= m.len
        OBVIOUS
      <4>1. cut \in Nat /\ span = cut * W /\ s = a * W
        BY <2>2, OnBytesSpan
      <4>2. DOMAIN kept = 0..BytesFor(n)-1 /\ kept \in Packed(n)
        <5> HIDE DEF cut, n
        <5>1. n = m.len - (e - s) /\ cut = e \div W - s \div W
          BY DEF cut, n
        <5>2. /\ Size(m.bytes) - cut = BytesFor(n)
              /\ \A i \in 0..BytesFor(n)-1 : m.bytes[IF i < s \div W THEN i ELSE i + cut] \in Byte
          BY ONLY <1>1, <2>2, <4>0, <5>1, KeptBytes
        <5> QED BY <5>2 DEF Packed
      <4> QED BY <4>1, <4>2
    <3>2. ASSUME NEW i \in 0..n-1 PROVE BitAt(kept, i) <=> BitAt(m.bytes, From(i))
      <4> DEFINE k == i \div W
                 r == i % W
      <4>0. i \in Nat
        BY <1>1
      <4>1. k \in 0..BytesFor(n)-1 /\ r \in 0..W-1 /\ i = k * W + r /\ k \in Nat
        <5> HIDE DEF n
        <5> QED BY <1>1, <4>0, PlaceWithin, WholeAndRest
      <4>2. kept[k] = m.bytes[IF k < a THEN k ELSE k + cut]
        BY <3>1, <4>1
      <4>3. a \in Nat /\ (k < a <=> i < s)
        <5>1. a \in Nat /\ k \in Nat /\ (a <= k <=> a * W <= i)
          BY <4>0, PlaceOrder, WholeAndRest
        <5> HIDE DEF a, k
        <5> QED BY <3>1, <4>0, <5>1
      <4>4. (k + cut) * W = k * W + span
        <5> HIDE DEF cut, span, k
        <5> QED BY <3>1, <4>1, MultiplesOrdered
      <4>5. i + span = (k + cut) * W + r /\ k + cut \in Nat
        <5>1. span \in Nat
          BY <1>1
        <5> HIDE DEF cut, span, k, r
        <5> QED BY <3>1, <4>1, <4>4
      <4>6. (i + span) \div W = k + cut /\ (i + span) % W = r
        <5> DEFINE j == k + cut
        <5> HIDE DEF j, r, span
        <5>1. i + span = j * W + r /\ j \in Nat
          BY <4>5 DEF j
        <5>2. (j * W + r) \div W = j /\ (j * W + r) % W = r
          BY <4>1, <5>1, PlaceIs
        <5> QED BY <5>1, <5>2 DEF j
      <4> HIDE DEF kept, k, r, a, span, cut
      <4>7. CASE i < s
        BY <4>2, <4>3, <4>7 DEF BitAt, k, r
      <4>8. CASE ~(i < s)
        BY <4>2, <4>3, <4>6, <4>8 DEF BitAt, k, r
      <4> QED BY <4>7, <4>8
    <3> HIDE DEF kept, From
    <3> QED BY <2>2, <3>1, <3>2
  <2>3. ASSUME ~OnBytes(s, e)
        PROVE  /\ bytes \in Packed(n)
               /\ \A i \in 0..n-1 : BitAt(bytes, i) <=> BitAt(m.bytes, From(i))
    <3>1. Truncated(shifted, BytesFor(n)) \in Packed(n)
      <4>1. \A y : AsByte(y) \in Byte
        BY DEF AsByte, Low, Byte
      <4> QED BY <4>1 DEF Truncated, Packed
    <3>2. ASSUME NEW i \in 0..n-1 PROVE BitAt(Truncated(shifted, BytesFor(n)), i) <=> BitAt(shifted, i)
      <4>0. i \in Nat
        BY <1>1
      <4>1. i \div W \in 0..BytesFor(n)-1 /\ i % W \in 0..W-1
        <5> HIDE DEF n
        <5> QED BY <1>1, <4>0, PlaceWithin
      <4> HIDE DEF shifted
      <4> QED BY <4>1 DEF Truncated, AsByte, Low, BitAt
    <3>3. ASSUME NEW i \in 0..n-1 PROVE BitAt(shifted, i) <=> BitAt(m.bytes, From(i))
      <4>0. i \in Nat /\ i <= n - 1 /\ n - 1 \in Nat
        BY <1>1
      <4>1. CASE e = m.len
        <5>1. i < s
          BY <1>1, <4>0, <4>1
        <5> QED BY <4>1, <5>1
      <4>2. CASE e # m.len
        <5> DEFINE a == s \div W
                   z == (n - 1) \div W
                   q == span \div W
        <5>1. s <= n - 1 /\ n - 1 + span < m.len /\ i + span <= n - 1 + span
          <6>1. e < m.len /\ e = s + span
            BY <1>1, <4>2
          <6> HIDE DEF n, span
          <6> QED BY <1>1, <4>0, <6>1
        <5>2. a \in Nat /\ z \in Nat /\ a * W <= s /\ z * W <= n - 1 /\ q \in Nat /\ q * W <= span
              /\ a * W \in Nat /\ z * W \in Nat /\ q * W \in Nat
          <6> HIDE DEF n, span
          <6>1. z \in Nat /\ z * W \in Nat /\ z * W <= n - 1
            <7> DEFINE p == n - 1
            <7>1. p \in Nat
              BY <4>0
            <7> HIDE DEF p
            <7>2. p \div W \in Nat /\ (p \div W) * W \in Nat /\ (p \div W) * W <= p
              BY <7>1, WholeAndRest
            <7> QED BY <7>2 DEF p
          <6>2. a \in Nat /\ a * W \in Nat /\ a * W <= s
            <7>1. s \in Nat
              OBVIOUS
            <7> DEFINE t == s % W
            <7>2. a \in Nat /\ t \in 0..W-1 /\ a * W \in Nat /\ s = a * W + t
              BY ONLY <7>1, WholeAndRest
            <7> HIDE DEF a, t
            <7> QED BY <7>2
          <6>3. q \in Nat /\ q * W \in Nat /\ q * W <= span
            BY <1>1, WholeAndRest
          <6> QED BY <6>1, <6>2, <6>3
        <5>3. a <= z /\ moved \in Nat /\ a + moved - 1 = z
          <6>1. a * W <= n - 1
            <7> HIDE DEF a
            <7> QED BY <1>1, <5>1, <5>2
          <6>2. a <= z
            <7> HIDE DEF a
            <7> QED BY <4>0, <5>2, <6>1, PlaceOrder
          <6> HIDE DEF a, z
          <6> QED BY <5>2, <6>2 DEF a, z
        <5>4. ASSUME NEW j \in Nat, j < m.len PROVE j \div W < size
          <6>1. j \in 0..m.len-1
            BY <1>1, <5>4
          <6> DEFINE l == m.len
          <6> HIDE DEF l
          <6>2. l \in Nat /\ j \in 0..l-1
            BY <1>1, <6>1 DEF l
          <6>3. j \div W \in 0..BytesFor(l)-1 /\ BytesFor(l) \in Nat
            BY <6>2, PlaceWithin, BytesForHolds
          <6> QED BY <6>3 DEF l
        <5>5. z + q < size
          <6>1. (z + q) * W = z * W + q * W
            BY <5>2, MultiplesOrdered
          <6>2. (z + q) * W <= n - 1 + span /\ z + q \in Nat /\ n - 1 + span \in Nat
            <7> HIDE DEF z, q, n, span
            <7> QED BY <1>1, <4>0, <5>2, <6>1
          <6> DEFINE p == n - 1 + span
                     y == z + q
          <6>3. p \in Nat /\ p < m.len /\ p \div W < size
            BY <5>1, <5>4, <6>2
          <6> HIDE DEF p, y
          <6>4. y <= p \div W /\ p \div W \in Nat
            BY <6>2, <6>3, PlaceOrder, WholeAndRest DEF p, y
          <6> HIDE DEF size
          <6>5. y < size
            BY <2>1, <6>2, <6>3, <6>4 DEF y
          <6> QED BY <6>5 DEF y
        <5>6. i \div W < a + moved
          <6>1. i \div W \in Nat /\ i \div W <= z
            <7> DEFINE k == i \div W
            <7>1. k \in Nat /\ k * W \in Nat /\ k * W <= i
              BY <4>0, WholeAndRest
            <7> HIDE DEF k
            <7>2. k * W <= n - 1
              BY <4>0, <7>1
            <7> QED BY <4>0, <7>1, <7>2, PlaceOrder DEF k
          <6> HIDE DEF a, z, moved
          <6> QED BY <5>2, <5>3, <6>1
        <5>7. i \div W < size /\ (i + span) \div W < size
          <6>1. i < m.len /\ i + span < m.len /\ i + span \in Nat
            BY <1>1, <4>0, <5>1
          <6> QED BY <4>0, <5>4, <6>1
        <5>8. a + moved - 1 + q < size
          <6> HIDE DEF a, z, moved, q, size
          <6> QED BY <5>2, <5>3, <5>5
        <5> HIDE DEF span, moved, size
        <5>9. BitAt(ShiftedDown(m.bytes, s, span, moved), i)
                <=> IF i < s THEN BitAt(m.bytes, i) ELSE BitAt(m.bytes, i + span)
          BY <1>1, <2>1, <4>0, <5>3, <5>6, <5>7, <5>8, ShiftedDownAt
        <5> QED BY <4>2, <5>9
      <4> QED BY <4>1, <4>2
    <3> HIDE DEF shifted, From, n
    <3> QED BY <2>3, <3>1, <3>2, <3>3
  <2> HIDE DEF bytes, From, n
  <2>4. bytes \in Packed(n) /\ \A i \in 0..n-1 : BitAt(bytes, i) <=> BitAt(m.bytes, From(i))
    BY <2>2, <2>3
  <2>5. /\ Row(MaskTrailing(New(bytes, n))) /\ MaskTrailing(New(bytes, n)).len = n
        /\ \A i \in 0..n-1 : BitAt(MaskTrailing(New(bytes, n)).bytes, i) <=> BitAt(bytes, i)
    BY <1>1, <2>4, MaskTrailingRow, MaskTrailingAt
  <2> QED BY <1>1, <1>2, <1>4, <2>4, <2>5 DEF From, n
<1> QED BY <1>3, <1>4

-----------------------------------------------------------------------------
(* Words                                                                   *)

(* Bit b of byte c of a word is bit b of its c-th byte; no other bits are  *)
(* in a word.                                                              *)
LEMMA WordHas ==
  ASSUME NEW src, NEW i \in Nat, \A c \in 0..WordBytes-1 : src[i + c] \in Byte,
         NEW k \in Nat, NEW b \in 0..W-1
  PROVE  k * W + b \in WordAt(src, i) <=> k < WordBytes /\ b \in src[i + k]
<1> DEFINE x == k * W + b
<1>1. x \in WordAt(src, i) <=> \E c \in 0..WordBytes-1 : x \in Shl(src[i + c], c * W)
  BY DEF WordAt
<1>2. ASSUME NEW c \in 0..WordBytes-1, x \in Shl(src[i + c], c * W) PROVE c = k /\ b \in src[i + k]
  <2>1. PICK y \in src[i + c] : x = y + c * W
    BY <1>2 DEF Shl
  <2>2. y \in 0..W-1 /\ c \in Nat /\ c * W \in Nat
    BY MultiplesOrdered DEF Byte
  <2>3. x = c * W + y
    <3> HIDE DEF x
    <3> QED BY <2>1, <2>2
  <2>4. x \div W = c /\ x % W = y
    <3>1. (c * W + y) \div W = c /\ (c * W + y) % W = y
      BY <2>2, PlaceIs
    <3> HIDE DEF x
    <3> QED BY <2>3, <3>1
  <2>5. x \div W = k /\ x % W = b
    BY PlaceIs
  <2> HIDE DEF x
  <2> QED BY <2>1, <2>4, <2>5
<1>3. ASSUME k < WordBytes, b \in src[i + k] PROVE k \in 0..WordBytes-1 /\ x \in Shl(src[i + k], k * W)
  <2>1. k \in 0..WordBytes-1 /\ k * W \in Nat /\ x = b + k * W
    BY <1>3, MultiplesOrdered
  <2> HIDE DEF x
  <2> QED BY <1>3, <2>1 DEF Shl
<1> HIDE DEF x
<1>4. (\E c \in 0..WordBytes-1 : x \in Shl(src[i + c], c * W)) => k < WordBytes /\ b \in src[i + k]
  BY <1>2
<1> QED BY <1>1, <1>3, <1>4 DEF x

(* A word has no negative place.                                           *)
LEMMA WordIsNat ==
  ASSUME NEW src, NEW i \in Nat, \A c \in 0..WordBytes-1 : src[i + c] \in Byte
  PROVE  WordAt(src, i) \subseteq Nat
<1> SUFFICES ASSUME NEW x \in WordAt(src, i) PROVE x \in Nat
  OBVIOUS
<1>1. PICK c \in 0..WordBytes-1 : x \in Shl(src[i + c], c * W)
  BY DEF WordAt
<1>2. PICK y \in src[i + c] : x = y + c * W
  BY <1>1 DEF Shl
<1>3. y \in 0..W-1
  BY DEF Byte
<1>4. c \in Nat /\ c * W \in Nat
  BY MultiplesOrdered
<1> QED BY <1>2, <1>3, <1>4

(* The members of a set of places moved up or down.                        *)
LEMMA Moves ==
  ASSUME NEW S \in SUBSET Int, NEW n \in Nat, NEW x \in Nat
  PROVE  (x \in Shl(S, n) <=> x - n \in S) /\ (x \in Shr(S, n) <=> x + n \in S)
<1>1. x \in Shl(S, n) <=> \E k \in S : x = k + n
  BY DEF Shl
<1>2. x \in Shr(S, n) <=> \E k \in S : k >= n /\ x = k - n
  BY DEF Shr
<1>3. (\E k \in S : x = k + n) <=> x - n \in S
  <2>1. ASSUME NEW k \in S, x = k + n PROVE x - n = k
    BY <2>1
  <2>2. x = (x - n) + n
    OBVIOUS
  <2> QED BY <2>1, <2>2
<1>4. (\E k \in S : k >= n /\ x = k - n) <=> x + n \in S
  <2>1. ASSUME NEW k \in S, x = k - n PROVE x + n = k
    BY <2>1
  <2>2. x + n >= n /\ x = (x + n) - n
    OBVIOUS
  <2> QED BY <2>1, <2>2
<1> QED BY <1>1, <1>2, <1>3, <1>4

(* What comes up from byte i - 1 when a row of bytes is shifted up by sh,  *)
(* below the first byte what was there; and byte i shifted up.             *)
Carry(src, low, sh, i) == IF i = 0 THEN low \cap Low(sh) ELSE Shr(src[i - 1], W - sh)
UpByte(src, low, sh, i) == AsByte(Shl(src[i], sh) \cup Carry(src, low, sh, i))

(* What a byte receives from the one before it: the bits that left at its  *)
(* top, or those that were there.                                          *)
LEMMA CarryHas ==
  ASSUME NEW src, NEW low \in Byte, NEW sh \in 1..W-1, NEW i \in Nat, i > 0 => src[i - 1] \in Byte, NEW b \in Nat
  PROVE  b \in Carry(src, low, sh, i)
           <=> b < sh /\ IF i = 0 THEN b \in low ELSE b + (W - sh) \in src[i - 1]
<1>1. CASE i = 0
  BY <1>1 DEF Carry, Low
<1>2. CASE i # 0
  <2>1. src[i - 1] \in SUBSET (0..W-1) /\ src[i - 1] \in SUBSET Int /\ W - sh \in Nat
    BY <1>2 DEF Byte
  <2>2. Carry(src, low, sh, i) = Shr(src[i - 1], W - sh)
    BY <1>2 DEF Carry
  <2> DEFINE S == src[i - 1]
             t == W - sh
  <2>3. b + t \in S => b < sh
    BY <2>1
  <2> HIDE DEF S, t
  <2>4. b \in Shr(S, t) <=> b + t \in S
    BY <2>1, Moves DEF S, t
  <2> QED BY <1>2, <2>2, <2>3, <2>4 DEF S, t
<1> QED BY <1>1, <1>2

(* Byte i shifted up has the bits of the byte below its shift, then its own. *)
LEMMA UpByteHas ==
  ASSUME NEW src, NEW low \in Byte, NEW sh \in 1..W-1, NEW i \in Nat, src[i] \in Byte,
         i > 0 => src[i - 1] \in Byte, NEW b \in 0..W-1
  PROVE  b \in UpByte(src, low, sh, i)
           <=> IF b < sh THEN b \in Carry(src, low, sh, i) ELSE b - sh \in src[i]
<1>1. b \in UpByte(src, low, sh, i) <=> b \in Shl(src[i], sh) \/ b \in Carry(src, low, sh, i)
  BY DEF UpByte, AsByte, Low
<1>2. src[i] \in SUBSET Int /\ sh \in Nat /\ b \in Nat /\ src[i] \in SUBSET (0..W-1)
  BY DEF Byte
<1>3. b \in Shl(src[i], sh) <=> b - sh \in src[i]
  <2> DEFINE S == src[i]
  <2> HIDE DEF S
  <2>1. b \in Shl(S, sh) <=> b - sh \in S
    BY <1>2, Moves DEF S
  <2> QED BY <2>1 DEF S
<1>4. b - sh \in src[i] => ~(b < sh)
  BY <1>2
<1>5. b \in Carry(src, low, sh, i) => b < sh
  BY <1>2, CarryHas
<1> QED BY <1>1, <1>3, <1>4, <1>5

(* What extend_from_slice has written after x bytes of the source, and the *)
(* spill it carries.                                                       *)
UpState(size, bytes, src, d, sh, x) ==
  [bytes |-> [k \in 0..size-1 |-> IF d <= k /\ k < d + x THEN UpByte(src, bytes[d], sh, k - d) ELSE bytes[k]],
   spill |-> Carry(src, bytes[d], sh, x)]

(* One step of the loop over bytes takes the loop one byte further.        *)
LEMMA ByteStep ==
  ASSUME NEW size \in Nat, NEW bytes, NEW src, NEW d \in Nat, NEW sh \in 1..W-1, NEW x \in Nat, d + x < size
  PROVE  ShiftByte(UpState(size, bytes, src, d, sh, x), src, d, sh, x) = UpState(size, bytes, src, d, sh, x + 1)
<1> DEFINE st == UpState(size, bytes, src, d, sh, x)
           low == bytes[d]
           Up(i) == UpByte(src, low, sh, i)
           new == AsByte(Shl(src[x], sh) \cup st.spill)
<1>1. st.spill = Carry(src, low, sh, x)
      /\ st.bytes = [k \in 0..size-1 |-> IF d <= k /\ k < d + x THEN Up(k - d) ELSE bytes[k]]
  BY DEF UpState
<1>2. new = Up(x)
  BY <1>1 DEF UpByte
<1>3. Spill(src[x], W, sh) = Carry(src, low, sh, x + 1)
  <2>1. x + 1 # 0 /\ (x + 1) - 1 = x
    OBVIOUS
  <2> QED BY <2>1 DEF Spill, Carry
<1>4. ShiftByte(st, src, d, sh, x) = [bytes |-> [st.bytes EXCEPT ![d + x] = new], spill |-> Spill(src[x], W, sh)]
  BY DEF ShiftByte
<1>5. [st.bytes EXCEPT ![d + x] = new]
        = [k \in 0..size-1 |-> IF d <= k /\ k < d + (x + 1) THEN Up(k - d) ELSE bytes[k]]
  <2> DEFINE b == st.bytes
             a == [b EXCEPT ![d + x] = new]
             e == [k \in 0..size-1 |-> IF d <= k /\ k < d + (x + 1) THEN Up(k - d) ELSE bytes[k]]
  <2>1. DOMAIN b = 0..size-1 /\ \A k \in 0..size-1 : b[k] = IF d <= k /\ k < d + x THEN Up(k - d) ELSE bytes[k]
    BY <1>1
  <2>2. DOMAIN a = 0..size-1 /\ a = [k \in DOMAIN a |-> a[k]]
    <3> HIDE DEF b, new
    <3> QED BY <2>1
  <2>3. \A k \in 0..size-1 : a[k] = IF k = d + x THEN new ELSE b[k]
    <3> HIDE DEF b, new
    <3> QED BY <2>1
  <2> HIDE DEF a, b, new, Up
  <2>4. \A k \in 0..size-1 : a[k] = e[k]
    <3> TAKE k \in 0..size-1
    <3>1. e[k] = IF d <= k /\ k < d + (x + 1) THEN Up(k - d) ELSE bytes[k]
      OBVIOUS
    <3> HIDE DEF e
    <3>2. CASE k = d + x
      <4>1. k - d = x /\ d <= k /\ k < d + (x + 1)
        BY <3>2
      <4> QED BY <1>2, <2>3, <3>1, <3>2, <4>1
    <3>3. CASE k # d + x
      <4>1. (d <= k /\ k < d + (x + 1)) <=> (d <= k /\ k < d + x)
        BY <3>3
      <4> QED BY <2>1, <2>3, <3>1, <3>3, <4>1
    <3> QED BY <3>2, <3>3
  <2>5. e = [k \in 0..size-1 |-> e[k]]
    OBVIOUS
  <2> HIDE DEF e
  <2>6. a = e
    BY <2>2, <2>4, <2>5
  <2> QED BY <2>6 DEF a, b, e
<1>6. UpState(size, bytes, src, d, sh, x + 1)
        = [bytes |-> [k \in 0..size-1 |-> IF d <= k /\ k < d + (x + 1) THEN Up(k - d) ELSE bytes[k]],
           spill |-> Carry(src, low, sh, x + 1)]
  BY DEF UpState
<1> HIDE DEF new, st, Up, low
<1>7. ShiftByte(st, src, d, sh, x) = UpState(size, bytes, src, d, sh, x + 1)
  BY <1>3, <1>4, <1>5, <1>6
<1> QED BY <1>7 DEF st

(* A byte of a word shifted up and joined with what the previous word      *)
(* spilled is the byte that byte by byte shifting writes.                  *)
LEMMA WordByte ==
  ASSUME NEW src, NEW low \in Byte, NEW sh \in 1..W-1, NEW x \in Nat,
         \A i \in 0..x + WordBytes - 1 : src[i] \in Byte, NEW c \in 0..WordBytes-1
  PROVE  AsByte(Shr(Shl(WordAt(src, x), sh) \cup Carry(src, low, sh, x), c * W)) = UpByte(src, low, sh, x + c)
<1> DEFINE word == WordAt(src, x)
           carry == Carry(src, low, sh, x)
           U == Shl(word, sh) \cup carry
           left == AsByte(Shr(U, c * W))
           right == UpByte(src, low, sh, x + c)
<1>1. c \in Nat /\ c * W \in Nat /\ sh \in Nat /\ WordBytes \in Nat
  BY MultiplesOrdered
<1>2. \A i \in 0..WordBytes-1 : src[x + i] \in Byte
  <2> TAKE i \in 0..WordBytes-1
  <2>1. x + i \in 0..x + WordBytes - 1
    BY <1>1
  <2> QED BY <2>1
<1>3. src[x + c] \in Byte /\ (x > 0 => src[x - 1] \in Byte) /\ (x + c > 0 => src[x + c - 1] \in Byte)
  <2>1. x > 0 => x - 1 \in 0..x + WordBytes - 1
    BY <1>1
  <2>2. x + c > 0 => x + c - 1 \in 0..x + WordBytes - 1
    BY <1>1
  <2> QED BY <1>2, <2>1, <2>2
<1>4. word \in SUBSET Nat /\ word \in SUBSET Int
  <2>1. word \in SUBSET Nat
    BY <1>2, WordIsNat
  <2> HIDE DEF word
  <2> QED BY <2>1
<1>5. U \in SUBSET Int
  <2>1. Shl(word, sh) \in SUBSET Int
    <3> HIDE DEF word
    <3> QED BY <1>1, <1>4 DEF Shl
  <2>2. carry \in SUBSET Int
    <3>1. CASE x = 0
      BY <3>1 DEF Carry, Low
    <3>2. CASE x # 0
      <4>1. src[x - 1] \in SUBSET Int
        BY <1>3, <3>2 DEF Byte
      <4> QED BY <3>2, <4>1 DEF Carry, Shr
    <3> QED BY <3>1, <3>2
  <2> QED BY <2>1, <2>2
<1>6. ASSUME NEW b \in 0..W-1 PROVE b \in left <=> b \in right
  <2> DEFINE y == c * W + b
  <2>0. b \in Nat /\ y \in Nat /\ b + c * W = y
    BY <1>1
  <2>1. b \in left <=> y \in U
    <3>1. b \in left <=> b \in Shr(U, c * W)
      BY DEF AsByte, Low
    <3>2. b \in Shr(U, c * W) <=> b + c * W \in U
      <4> DEFINE n == c * W
      <4> HIDE DEF n, U
      <4>1. n \in Nat
        BY <1>1 DEF n
      <4>2. b \in Shr(U, n) <=> b + n \in U
        BY <1>5, <2>0, <4>1, Moves
      <4> QED BY <4>2 DEF n
    <3> HIDE DEF left, U, y
    <3> QED BY <2>0, <3>1, <3>2
  <2>2. y \in U <=> y - sh \in word \/ y \in carry
    <3>1. y \in Shl(word, sh) <=> y - sh \in word
      <4> HIDE DEF word, y
      <4> QED BY <1>1, <1>4, <2>0, Moves
    <3> HIDE DEF word, y, carry
    <3> QED BY <3>1
  <2>3. y \in carry <=> y < sh /\ IF x = 0 THEN y \in low ELSE y + (W - sh) \in src[x - 1]
    <3> HIDE DEF y
    <3> QED BY <1>3, <2>0, CarryHas
  <2>4. b \in right <=> IF b < sh THEN b \in Carry(src, low, sh, x + c) ELSE b - sh \in src[x + c]
    BY <1>1, <1>3, UpByteHas
  <2>5. CASE ~(b < sh)
    <3>1. b - sh \in 0..W-1 /\ c < WordBytes
      BY <1>1, <2>5
    <3>2. c * W + (b - sh) \in word <=> c < WordBytes /\ b - sh \in src[x + c]
      BY <1>1, <1>2, <3>1, WordHas
    <3>3. y - sh = c * W + (b - sh) /\ ~(y < sh)
      BY <1>1, <2>0, <2>5
    <3> HIDE DEF left, right, word, carry, y, U
    <3> QED BY <2>1, <2>2, <2>3, <2>4, <2>5, <3>1, <3>2, <3>3
  <2>6. CASE b < sh /\ c = 0
    <3>1. y = b /\ y - sh \notin word
      <4>1. y = b
        BY <2>6
      <4>2. y - sh \notin Nat
        BY <2>0, <2>6, <4>1
      <4> QED BY <1>4, <4>1, <4>2
    <3>2. Carry(src, low, sh, x + c) = carry
      BY <2>6
    <3> HIDE DEF left, right, word, carry, y, U
    <3> QED BY <2>1, <2>2, <2>4, <2>6, <3>1, <3>2
  <2>7. CASE b < sh /\ c # 0
    <3>1. c - 1 \in Nat /\ c - 1 < WordBytes /\ W + b - sh \in 0..W-1 /\ c * W = (c - 1) * W + W /\ (c - 1) * W \in Nat
      <4>1. c - 1 \in Nat /\ c = (c - 1) + 1
        BY <1>1, <2>7
      <4>2. \A k \in Nat : (k + 1) * W = k * W + W /\ k * W \in Nat
        BY MultiplesOrdered
      <4>3. ((c - 1) + 1) * W = (c - 1) * W + W /\ (c - 1) * W \in Nat
        BY <4>1, <4>2
      <4> QED BY <1>1, <2>7, <4>1, <4>3
    <3>2. y - sh = (c - 1) * W + (W + b - sh) /\ ~(y < sh)
      BY <1>1, <2>0, <3>1
    <3> DEFINE k == c - 1
               e == W + b - sh
    <3>3. k \in Nat /\ e \in 0..W-1
      BY <3>1
    <3> HIDE DEF k, e
    <3>4. k * W + e \in word <=> k < WordBytes /\ e \in src[x + k]
      BY <1>2, <3>3, WordHas
    <3>5. b \in Carry(src, low, sh, x + c)
            <=> b < sh /\ IF x + c = 0 THEN b \in low ELSE b + (W - sh) \in src[x + c - 1]
      BY <1>1, <1>3, <2>0, CarryHas
    <3>6. x + c # 0 /\ x + c - 1 = x + k /\ b + (W - sh) = e /\ k < WordBytes
      BY <1>1, <2>0, <2>7, <3>1 DEF k, e
    <3>7. y - sh = k * W + e
      BY <3>2 DEF k, e
    <3> HIDE DEF left, right, word, carry, y, U
    <3> QED BY <2>1, <2>2, <2>3, <2>4, <2>7, <3>2, <3>4, <3>5, <3>6, <3>7
  <2> QED BY <2>5, <2>6, <2>7
<1>7. left \subseteq 0..W-1 /\ right \subseteq 0..W-1
  BY DEF AsByte, Low, UpByte
<1> HIDE DEF left, right
<1>8. left = right
  BY <1>6, <1>7
<1> QED BY <1>8 DEF left, right

(* What a word spills is what its last byte spills.                        *)
LEMMA WordSpill ==
  ASSUME NEW src, NEW low, NEW sh \in 1..W-1, NEW x \in Nat,
         \A i \in 0..x + WordBytes - 1 : src[i] \in Byte
  PROVE  Spill(WordAt(src, x), W * WordBytes, sh) = Carry(src, low, sh, x + WordBytes)
<1> DEFINE word == WordAt(src, x)
           l == WordBytes - 1
           n == W * WordBytes - sh
           t == W - sh
           last == src[x + l]
<1>1. l \in Nat /\ l * W \in Nat /\ t \in 1..W-1 /\ n = l * W + t /\ n \in Nat
  <2>1. l \in Nat /\ WordBytes = l + 1 /\ t \in 1..W-1
    OBVIOUS
  <2> HIDE DEF l
  <2>2. (l + 1) * W = l * W + W /\ l * W \in Nat
    BY <2>1, MultiplesOrdered
  <2>3. W * WordBytes = (l + 1) * W
    BY <2>1
  <2>4. n = (l * W + W) - sh
    BY <2>2, <2>3
  <2> HIDE DEF n
  <2> QED BY <2>1, <2>2, <2>4
<1>2. \A i \in 0..WordBytes-1 : src[x + i] \in Byte
  <2> TAKE i \in 0..WordBytes-1
  <2>1. x + i \in 0..x + WordBytes - 1
    OBVIOUS
  <2> QED BY <2>1
<1>3. word \in SUBSET Nat /\ word \in SUBSET Int
  <2>1. word \in SUBSET Nat
    BY <1>2, WordIsNat
  <2> HIDE DEF word
  <2> QED BY <2>1
<1>4. last \in SUBSET (0..W-1) /\ last \in SUBSET Int
  BY <1>1, <1>2 DEF Byte
<1>5. Carry(src, low, sh, x + WordBytes) = Shr(last, t)
  <2>1. x + WordBytes # 0 /\ x + WordBytes - 1 = x + l
    OBVIOUS
  <2> QED BY <2>1 DEF Carry
<1>6. ASSUME NEW y \in Nat PROVE y \in Shr(word, n) <=> y \in Shr(last, t)
  <2>1. y \in Shr(word, n) <=> y + n \in word
    <3> HIDE DEF word, n
    <3> QED BY <1>1, <1>3, Moves
  <2>2. y \in Shr(last, t) <=> y + t \in last
    <3> HIDE DEF last, t
    <3> QED BY <1>1, <1>4, Moves
  <2>3. y + n = l * W + (y + t)
    <3> HIDE DEF n, t, l
    <3> QED BY <1>1
  <2>4. CASE y < sh
    <3>1. y + t \in 0..W-1 /\ l < WordBytes
      BY <1>1, <2>4
    <3> DEFINE e == y + t
    <3> HIDE DEF e, l
    <3>2. l * W + e \in word <=> l < WordBytes /\ e \in src[x + l]
      BY <1>1, <1>2, <3>1, WordHas DEF e
    <3> HIDE DEF word, n, t
    <3> QED BY <2>1, <2>2, <2>3, <3>1, <3>2 DEF e
  <2>5. CASE ~(y < sh)
    <3>1. y + t \notin last
      BY <1>4, <2>5
    <3>2. y + n \notin word
      <4> DEFINE z == y + n
                 k == z \div W
                 e == z % W
      <4>1. z \in Nat /\ WordBytes * W <= z
        <5>1. WordBytes = l + 1
          OBVIOUS
        <5> HIDE DEF l, n
        <5>2. WordBytes * W = l * W + W
          BY <1>1, <5>1, MultiplesOrdered
        <5> HIDE DEF t
        <5>3. y + n \in Nat /\ l * W + W <= y + n
          <6>1. y + t >= W
            BY <2>5 DEF t
          <6> QED BY <1>1, <2>3, <6>1
        <5> QED BY <5>2, <5>3
      <4> HIDE DEF z
      <4>2. k \in Nat /\ e \in 0..W-1 /\ z = k * W + e /\ WordBytes <= k
        <5>1. WordBytes \in Nat
          OBVIOUS
        <5> QED BY <4>1, <5>1, WholeAndRest, PlaceOrder
      <4> HIDE DEF k, e
      <4>3. k * W + e \in word <=> k < WordBytes /\ e \in src[x + k]
        BY <1>2, <4>2, WordHas
      <4>4. ~(k < WordBytes)
        BY <4>2
      <4> HIDE DEF word
      <4> QED BY <4>2, <4>3, <4>4 DEF z
    <3> QED BY <2>1, <2>2, <3>1, <3>2
  <2> QED BY <2>4, <2>5
<1>7. Shr(word, n) \subseteq Nat /\ Shr(last, t) \subseteq Nat
  <2> HIDE DEF word, n, last, t
  <2> QED BY <1>1, <1>3, <1>4 DEF Shr
<1> HIDE DEF word, n, last, t
<1>8. Shr(word, n) = Shr(last, t)
  BY <1>6, <1>7
<1> QED BY <1>5, <1>8 DEF Spill, word, n

(* A word shifted up is WordBytes bytes shifted up.                        *)
LEMMA WordStep ==
  ASSUME NEW size \in Nat, NEW bytes \in Buffers(size), NEW src, NEW d \in 0..size-1, NEW sh \in 1..W-1, NEW x \in Nat,
         d + x + WordBytes <= size, \A i \in 0..x + WordBytes - 1 : src[i] \in Byte
  PROVE  ShiftWord(UpState(size, bytes, src, d, sh, x), src, d, sh, x)
           = UpState(size, bytes, src, d, sh, x + WordBytes)
<1> DEFINE st == UpState(size, bytes, src, d, sh, x)
           low == bytes[d]
           Up(i) == UpByte(src, low, sh, i)
           word == Shl(WordAt(src, x), sh) \cup st.spill
           b == st.bytes
           a == PutWord(b, d + x, word)
           e == [k \in 0..size-1 |-> IF d <= k /\ k < d + (x + WordBytes) THEN Up(k - d) ELSE bytes[k]]
<1>0. low \in Byte /\ d \in Nat /\ WordBytes \in Nat
  BY DEF Buffers
<1>1. st.spill = Carry(src, low, sh, x) /\ DOMAIN b = 0..size-1
      /\ \A k \in 0..size-1 : b[k] = IF d <= k /\ k < d + x THEN Up(k - d) ELSE bytes[k]
  BY DEF UpState
<1>2. \A c \in 0..WordBytes-1 : AsByte(Shr(word, c * W)) = Up(x + c)
  <2> TAKE c \in 0..WordBytes-1
  <2>1. AsByte(Shr(Shl(WordAt(src, x), sh) \cup Carry(src, low, sh, x), c * W)) = UpByte(src, low, sh, x + c)
    <3>1. \A i \in 0..x + WordBytes - 1 : src[i] \in Byte
      OBVIOUS
    <3> HIDE DEF low, st
    <3>2. sh \in 1..W-1 /\ x \in Nat /\ low \in Byte /\ c \in 0..WordBytes-1
      BY <1>0
    <3> QED BY ONLY <3>1, <3>2, WordByte
  <2> HIDE DEF low, st
  <2> QED BY <1>1, <2>1
<1>3. Spill(WordAt(src, x), W * WordBytes, sh) = Carry(src, low, sh, x + WordBytes)
  BY <1>0, WordSpill
<1>4. ShiftWord(st, src, d, sh, x) = [bytes |-> a, spill |-> Spill(WordAt(src, x), W * WordBytes, sh)]
  BY DEF ShiftWord
<1>5. a = e
  <2>1. a = [k \in 0..size-1 |-> IF k \in d + x .. d + x + WordBytes - 1
                                 THEN AsByte(Shr(word, (k - (d + x)) * W)) ELSE b[k]]
    BY <1>1 DEF PutWord
  <2> HIDE DEF b, word, Up, low
  <2>2. ASSUME NEW k \in 0..size-1
        PROVE  (IF k \in d + x .. d + x + WordBytes - 1 THEN AsByte(Shr(word, (k - (d + x)) * W)) ELSE b[k])
                 = IF d <= k /\ k < d + (x + WordBytes) THEN Up(k - d) ELSE bytes[k]
    <3>1. CASE k \in d + x .. d + x + WordBytes - 1
      <4> DEFINE c == k - (d + x)
      <4>1. c \in 0..WordBytes-1 /\ x + c = k - d /\ d <= k /\ k < d + (x + WordBytes)
        BY <1>0, <3>1
      <4> HIDE DEF c
      <4>2. AsByte(Shr(word, c * W)) = Up(x + c)
        BY <1>2, <4>1
      <4>3. AsByte(Shr(word, (k - (d + x)) * W)) = Up(k - d)
        BY <4>1, <4>2 DEF c
      <4> QED BY <3>1, <4>1, <4>3
    <3>2. CASE ~(k \in d + x .. d + x + WordBytes - 1)
      <4>1. (d <= k /\ k < d + (x + WordBytes)) <=> (d <= k /\ k < d + x)
        BY <1>0, <3>2
      <4> QED BY <1>1, <3>2, <4>1
    <3> QED BY <3>1, <3>2
  <2> HIDE DEF a
  <2> QED BY <2>1, <2>2
<1>6. UpState(size, bytes, src, d, sh, x + WordBytes) = [bytes |-> e, spill |-> Carry(src, low, sh, x + WordBytes)]
  BY DEF UpState
<1> HIDE DEF a, e, st, low
<1>7. ShiftWord(st, src, d, sh, x) = UpState(size, bytes, src, d, sh, x + WordBytes)
  BY <1>3, <1>4, <1>5, <1>6
<1> QED BY <1>7 DEF st

(* The loops of extend_from_slice, over words and then over the bytes left *)
(* of n: together they shift n bytes up.                                   *)
LEMMA ShiftedUpIs ==
  ASSUME NEW size \in Nat, NEW bytes \in Buffers(size), NEW src, NEW d \in Nat, NEW sh \in 1..W-1,
         NEW words \in Nat, NEW n \in Nat, n > 0, words * WordBytes <= n, d + n <= size,
         \A i \in 0..n-1 : src[i] \in Byte
  PROVE  ShiftedUp(bytes, src, d, sh, words, words + n - words * WordBytes) = UpState(size, bytes, src, d, sh, n)
<1> DEFINE lw == words * WordBytes
           steps == words + n - lw
           U(x) == UpState(size, bytes, src, d, sh, x)
           p(j) == IF j <= words THEN j * WordBytes ELSE lw + j - 1 - words + 1
           first == [bytes |-> bytes, spill |-> bytes[d] \cap Low(sh)]
           Step(st, j) == IF j <= words THEN ShiftWord(st, src, d, sh, (j - 1) * WordBytes)
                          ELSE ShiftByte(st, src, d, sh, lw + j - 1 - words)
           R(g) == g = [j \in 0..steps |-> IF j = 0 THEN first ELSE Step(g[j - 1], j)]
           after == CHOOSE g : R(g)
<1>0. lw \in Nat /\ steps \in Nat /\ steps >= words /\ WordBytes \in Nat /\ WordBytes > 0
  <2>1. lw \in Nat
    BY WidthAssumption
  <2> HIDE DEF lw
  <2> QED BY <2>1 DEF lw
<1>1. ShiftedUp(bytes, src, d, sh, words, steps) = after[steps]
  <2>1. ShiftedUp(bytes, src, d, sh, words, steps)
          = (CHOOSE g : g = [j \in 0..steps |->
               IF j = 0 THEN first ELSE IF j <= words THEN ShiftWord(g[j - 1], src, d, sh, (j - 1) * WordBytes)
               ELSE ShiftByte(g[j - 1], src, d, sh, words * WordBytes + j - 1 - words)])[steps]
    <3> HIDE DEF steps
    <3> QED BY DEF ShiftedUp
  <2> QED BY <2>1
<1>2. first = U(p(0))
  <2>1. p(0) = 0
    OBVIOUS
  <2>2. [k \in 0..size-1 |-> IF d <= k /\ k < d + 0 THEN UpByte(src, bytes[d], sh, k - d) ELSE bytes[k]] = bytes
    <3>1. bytes = [k \in 0..size-1 |-> bytes[k]]
      BY DEF Buffers
    <3>2. \A k \in 0..size-1 : ~(d <= k /\ k < d + 0)
      OBVIOUS
    <3> QED BY <3>1, <3>2
  <2>3. U(0) = first
    BY <2>2 DEF UpState, Carry
  <2> QED BY <2>1, <2>3
<1>3. \A j \in 1..steps : Step(U(p(j - 1)), j) = U(p(j))
  <2> TAKE j \in 1..steps
  <2>0. j \in Nat /\ j - 1 \in Nat /\ j >= 1
    BY <1>0
  <2>1. CASE j <= words
    <3> DEFINE x == (j - 1) * WordBytes
               e == words - j
    <3>1. x \in Nat /\ j * WordBytes = x + WordBytes
      BY <1>0, <2>0
    <3>2. x + WordBytes <= lw
      <4>1. e \in Nat /\ words = j + e
        BY <2>0, <2>1
      <4> HIDE DEF e
      <4>2. e * WordBytes \in Nat
        BY <1>0, <4>1
      <4>3. (j + e) * WordBytes = j * WordBytes + e * WordBytes
        BY <1>0, <2>0, <4>1
      <4>4. lw = j * WordBytes + e * WordBytes
        BY <4>1, <4>3
      <4> HIDE DEF lw, x
      <4> QED BY <3>1, <4>2, <4>4
    <3>3. p(j - 1) = x /\ p(j) = x + WordBytes
      BY <2>0, <2>1, <3>1
    <3> HIDE DEF p
    <3>4. Step(U(x), j) = ShiftWord(U(x), src, d, sh, x)
      BY <2>1
    <3> HIDE DEF x, lw, Step
    <3>5. d + x + WordBytes <= size /\ d \in 0..size-1
      BY <1>0, <3>1, <3>2 DEF lw
    <3>6. \A i \in 0..x + WordBytes - 1 : src[i] \in Byte
      <4>1. \A i \in 0..x + WordBytes - 1 : i \in 0..n-1
        BY <1>0, <3>1, <3>2 DEF lw
      <4> QED BY <4>1
    <3>7. ShiftWord(U(x), src, d, sh, x) = U(x + WordBytes)
      BY <3>1, <3>5, <3>6, WordStep
    <3> QED BY <3>3, <3>4, <3>7
  <2>2. CASE ~(j <= words)
    <3> DEFINE x == lw + j - 1 - words
    <3>1. x \in Nat /\ d + x < size /\ x + 1 = lw + j - 1 - words + 1
      <4> HIDE DEF lw
      <4> QED BY <1>0, <2>0, <2>2 DEF lw
    <3>2. p(j) = x + 1
      BY <2>2, <3>1
    <3>3. p(j - 1) = x
      <4>1. CASE j - 1 <= words
        <5>1. j - 1 = words /\ p(j - 1) = words * WordBytes
          BY <2>0, <2>2, <4>1
        <5>2. p(j - 1) = lw
          BY <5>1
        <5> HIDE DEF p, lw
        <5> QED BY <1>0, <5>1, <5>2
      <4>2. CASE ~(j - 1 <= words)
        <5>1. p(j - 1) = lw + (j - 1) - 1 - words + 1
          BY <4>2
        <5> HIDE DEF p, lw
        <5> QED BY <1>0, <2>0, <5>1
      <4> QED BY <4>1, <4>2
    <3> HIDE DEF p
    <3>4. Step(U(x), j) = ShiftByte(U(x), src, d, sh, x)
      BY <2>2
    <3> HIDE DEF x, lw, Step
    <3>5. ShiftByte(U(x), src, d, sh, x) = U(x + 1)
      BY <3>1, ByteStep
    <3> QED BY <3>2, <3>3, <3>4, <3>5
  <2> QED BY <2>1, <2>2
<1>4. p(steps) = n
  <2>1. CASE steps <= words
    <3>1. steps = words /\ lw = n
      <4> HIDE DEF lw
      <4> QED BY <1>0, <2>1 DEF lw
    <3> QED BY <2>1, <3>1
  <2>2. CASE ~(steps <= words)
    <3>1. p(steps) = lw + steps - 1 - words + 1
      BY <2>2
    <3> HIDE DEF p
    <3>2. steps = words + n - lw
      OBVIOUS
    <3> HIDE DEF steps, lw
    <3> QED BY <1>0, <3>1, <3>2
  <2> QED BY <2>1, <2>2
<1> HIDE DEF U, p, first, Step, steps
<1>5. R(after)
  <2> DEFINE g == [j \in 0..steps |-> U(p(j))]
  <2>1. R(g)
    <3>1. \A j \in 0..steps : g[j] = IF j = 0 THEN first ELSE Step(g[j - 1], j)
      <4> TAKE j \in 0..steps
      <4>1. CASE j = 0
        BY <1>2, <4>1
      <4>2. CASE j # 0
        <5>1. j \in 1..steps /\ j - 1 \in 0..steps
          BY <1>0, <4>2
        <5>2. g[j] = U(p(j)) /\ g[j - 1] = U(p(j - 1))
          BY <5>1
        <5> HIDE DEF g
        <5> QED BY <1>3, <4>2, <5>1, <5>2
      <4> QED BY <4>1, <4>2
    <3>2. g = [j \in 0..steps |-> g[j]]
      OBVIOUS
    <3> HIDE DEF g
    <3> QED BY <3>1, <3>2
  <2> HIDE DEF R, g
  <2> QED BY <2>1
<1> HIDE DEF after
<1> DEFINE T == {j \in Nat : j <= steps => after[j] = U(p(j))}
<1>6. 0 \in T
  <2>1. after[0] = first
    BY <1>0, <1>5
  <2> QED BY <1>2, <2>1
<1>7. ASSUME NEW j \in Nat, j \in T PROVE j + 1 \in T
  <2> SUFFICES ASSUME j + 1 <= steps PROVE after[j + 1] = U(p(j + 1))
    OBVIOUS
  <2>1. j + 1 \in 1..steps /\ (j + 1) - 1 = j /\ j + 1 # 0 /\ j <= steps
    BY <1>0
  <2>2. after[j + 1] = Step(after[j], j + 1)
    BY <1>5, <2>1
  <2>3. after[j] = U(p(j))
    BY <1>7, <2>1
  <2>4. Step(U(p((j + 1) - 1)), j + 1) = U(p(j + 1))
    BY <1>3, <2>1
  <2> QED BY <2>1, <2>2, <2>3, <2>4
<1>8. steps \in T
  <2> HIDE DEF T
  <2> QED BY <1>0, <1>6, <1>7, Induction
<1>9. after[steps] = U(n)
  BY <1>0, <1>4, <1>8
<1> QED BY <1>1, <1>9 DEF U, steps

-----------------------------------------------------------------------------
(* Slices and windows appended                                             *)

(* What extend_from_slice writes when the old bits end on a byte boundary. *)
JoinedOnBytes(bytes, src, d, n) ==
  [k \in DOMAIN bytes |->
     IF k \in d..d + n \div W - 1 THEN src[k - d]
     ELSE IF k = d + n \div W /\ n % W # 0
     THEN (bytes[k] \ Low(n % W)) \cup (src[n \div W] \cap Low(n % W))
     ELSE bytes[k]]

(* Joined on a byte boundary, the bits of both follow each other.          *)
LEMMA OnBytesAt ==
  ASSUME NEW bytes, NEW src, NEW d \in Nat, NEW n \in Nat, NEW i \in Nat, i \div W \in DOMAIN bytes,
         i < d * W + n
  PROVE  BitAt(JoinedOnBytes(bytes, src, d, n), i) <=> IF i < d * W THEN BitAt(bytes, i) ELSE BitAt(src, i - d * W)
<1> DEFINE k == i \div W
           r == i % W
           f == n \div W
           t == n % W
           new == JoinedOnBytes(bytes, src, d, n)
           dw == d * W
<1>1. /\ k \in Nat /\ k * W \in Nat /\ r \in 0..W-1 /\ i = k * W + r
      /\ f \in Nat /\ f * W \in Nat /\ t \in 0..W-1 /\ n = f * W + t /\ dw \in Nat
      /\ (d <= k <=> dw <= i)
  BY WholeAndRest, PlaceOrder
<1>2. new[k] = IF k \in d..d+f-1 THEN src[k - d]
               ELSE IF k = d + f /\ t # 0 THEN (bytes[k] \ Low(t)) \cup (src[f] \cap Low(t)) ELSE bytes[k]
  BY DEF JoinedOnBytes
<1>3. CASE i < dw
  <2>1. ~(d <= k)
    BY <1>1, <1>3
  <2> HIDE DEF k, f, new
  <2>2. new[k] = bytes[k]
    BY <1>1, <1>2, <2>1
  <2> QED BY <1>3, <2>2 DEF BitAt, k, new
<1>4. CASE ~(i < dw)
  <2> DEFINE e == k - d
             y == i - dw
  <2>1. e \in Nat /\ k = d + e
    BY <1>1, <1>4
  <2>2. e * W \in Nat /\ y = e * W + r
    <3> HIDE DEF e, k
    <3>1. k * W = d * W + e * W /\ e * W \in Nat
      BY <2>1, MultiplesOrdered
    <3> HIDE DEF dw, r
    <3>2. k * W = dw + e * W
      BY <3>1 DEF dw
    <3> DEFINE kw == k * W
               ew == e * W
    <3>3. i = kw + r /\ kw = dw + ew /\ ew \in Nat /\ dw \in Nat /\ r \in Nat
      BY <1>1, <3>1, <3>2
    <3> HIDE DEF kw, ew
    <3>4. y = ew + r
      BY <3>3
    <3> QED BY <3>3, <3>4 DEF ew
  <2>3. y \div W = e /\ y % W = r
    <3> HIDE DEF e, y, r
    <3> QED BY <1>1, <2>1, <2>2, PlaceIs
  <2>4. y < n
    <3> HIDE DEF dw
    <3> QED BY <1>1, <1>4 DEF dw
  <2>5. e <= f /\ (e = f => r < t)
    <3> HIDE DEF e, f, y, r, t, k, dw
    <3>1. e * W < f * W + W
      BY <1>1, <2>2, <2>4
    <3>2. e * W < (f + 1) * W
      BY <1>1, <3>1, MultiplesOrdered
    <3>3. e + 1 <= f + 1
      BY <1>1, <2>1, <3>2, MultiplesOrdered
    <3> QED BY <1>1, <2>1, <2>2, <2>4, <3>3
  <2>6. BitAt(src, y) <=> r \in src[e]
    BY <2>3 DEF BitAt
  <2>7. BitAt(new, i) <=> r \in new[k]
    BY DEF BitAt
  <2> HIDE DEF y, new
  <2>8. r \in new[k] <=> r \in src[e]
    <3> HIDE DEF r, f, t
    <3>1. CASE e < f
      <4>1. k \in d..d+f-1
        BY <1>1, <2>1, <3>1
      <4> QED BY <1>2, <4>1
    <3>2. CASE e = f
      <4>1. k = d + f /\ k \notin d..d+f-1 /\ t # 0 /\ r \in Low(t)
        <5> HIDE DEF k, e
        <5> QED BY <1>1, <2>1, <2>5, <3>2 DEF Low
      <4>2. new[k] = (bytes[k] \ Low(t)) \cup (src[e] \cap Low(t))
        <5> HIDE DEF k, e
        <5> QED BY <1>2, <3>2, <4>1
      <4> HIDE DEF k, e
      <4> QED BY <4>1, <4>2
    <3> HIDE DEF e
    <3> QED BY <1>1, <2>1, <2>5, <3>1, <3>2
  <2> HIDE DEF dw
  <2> QED BY <1>4, <2>6, <2>7, <2>8 DEF y, new, dw
<1> QED BY <1>3, <1>4 DEF dw

(* The byte x of a row shifted up by sh has the bits sh places below.      *)
LEMMA UpAt ==
  ASSUME NEW src, NEW low \in Byte, NEW sh \in 1..W-1, NEW size \in Nat, \A k \in 0..size-1 : src[k] \in Byte,
         NEW x \in 0..size, NEW r \in 0..W-1, x = size => r < sh
  PROVE  LET bit == IF r < sh THEN r \in Carry(src, low, sh, x) ELSE r - sh \in src[x]
         IN IF x * W + r < sh THEN bit <=> r \in low ELSE bit <=> BitAt(src, x * W + r - sh)
<1> DEFINE y == x * W + r - sh
<1>1. x \in Nat /\ x * W \in Nat /\ sh \in Nat
  BY MultiplesOrdered
<1>2. CASE r < sh
  <2>1. x > 0 => src[x - 1] \in Byte
    <3>1. x > 0 => x - 1 \in 0..size-1
      BY <1>1
    <3> QED BY <3>1
  <2>2. r \in Carry(src, low, sh, x) <=> r < sh /\ IF x = 0 THEN r \in low ELSE r + (W - sh) \in src[x - 1]
    BY <1>1, <2>1, CarryHas
  <2>3. CASE x = 0
    <3>1. x * W + r < sh
      BY <1>2, <2>3
    <3> QED BY <1>2, <2>2, <2>3, <3>1
  <2>4. CASE x # 0
    <3> DEFINE z == x - 1
               e == r + (W - sh)
    <3>1. z \in Nat /\ x = z + 1 /\ e \in 0..W-1
      BY <1>1, <1>2, <2>4
    <3> HIDE DEF z
    <3>2. x * W = z * W + W /\ z * W \in Nat
      BY <3>1, MultiplesOrdered
    <3>3. y = z * W + e /\ ~(x * W + r < sh)
      BY <1>1, <3>1, <3>2
    <3> HIDE DEF e, y
    <3>4. y \div W = z /\ y % W = e
      BY <3>1, <3>3, PlaceIs
    <3>5. BitAt(src, y) <=> e \in src[z]
      BY <3>4 DEF BitAt
    <3> QED BY <1>2, <2>2, <2>4, <3>3, <3>5 DEF y, e, z
  <2> QED BY <2>3, <2>4
<1>3. CASE ~(r < sh)
  <2> DEFINE e == r - sh
  <2>1. e \in 0..W-1 /\ y = x * W + e /\ ~(x * W + r < sh)
    BY <1>1, <1>3
  <2> HIDE DEF e, y
  <2>2. y \div W = x /\ y % W = e
    BY <1>1, <2>1, PlaceIs
  <2>3. BitAt(src, y) <=> e \in src[x]
    BY <2>2 DEF BitAt
  <2> QED BY <1>3, <2>1, <2>3 DEF y, e
<1> QED BY <1>2, <1>3

(* What extend_from_slice writes when the old bits end inside a byte.      *)
LEMMA OffBytesAt ==
  ASSUME NEW len \in Nat, NEW n \in Nat, n > 0, len % W # 0, NEW bytes \in Packed(len + n),
         NEW src, \A k \in 0..BytesFor(n)-1 : src[k] \in Byte, NEW i \in 0..len+n-1
  PROVE  BitAt(ExtendShifted(bytes, len, src, n), i) <=> IF i < len THEN BitAt(bytes, i) ELSE BitAt(src, i - len)
<1> DEFINE size == BytesFor(len + n)
           d == len \div W
           dw == d * W
           sh == len % W
           nsrc == BytesFor(n)
           words == nsrc \div WordBytes
           lw == words * WordBytes
           last == ShiftedUp(bytes, src, d, sh, words, words + nsrc - lw)
           low == bytes[d]
           new == ExtendShifted(bytes, len, src, n)
           k == i \div W
           r == i % W
<1>1. d \in Nat /\ dw \in Nat /\ sh \in 1..W-1 /\ len = dw + sh
  <2>1. d \in Nat /\ sh \in 0..W-1 /\ dw \in Nat /\ len = dw + sh
    BY ONLY len \in Nat, WholeAndRest
  <2>2. sh # 0
    OBVIOUS
  <2> HIDE DEF d, dw, sh
  <2> QED BY ONLY <2>1, <2>2, WidthAssumption
<1>2. nsrc \in Nat /\ nsrc > 0 /\ n <= nsrc * W /\ size \in Nat /\ d + nsrc <= size /\ nsrc * W \in Nat
  <2>1. nsrc \in Nat /\ n <= nsrc * W /\ size \in Nat /\ nsrc * W \in Nat
    BY BytesForHolds
  <2>2. nsrc > 0
    <3> HIDE DEF nsrc
    <3>1. nsrc = 0 => nsrc * W = 0
      OBVIOUS
    <3> QED BY <2>1, <3>1
  <2>3. BytesFor((n + sh) + d * W) = BytesFor(n + sh) + d /\ BytesFor(n) <= BytesFor(n + sh) /\ BytesFor(n + sh) \in Nat
    <3>1. n + sh \in Nat /\ n <= n + sh
      BY <1>1
    <3> HIDE DEF d, sh
    <3> QED BY <1>1, <3>1, BytesForGrows, BytesForHolds
  <2>4. (n + sh) + d * W = len + n
    <3> HIDE DEF sh, d
    <3> QED BY <1>1
  <2>5. d + nsrc <= BytesFor(len + n)
    <3>1. BytesFor(len + n) = BytesFor(n + sh) + d
      BY <2>3, <2>4
    <3> HIDE DEF d
    <3> QED BY <1>1, <2>1, <2>3, <3>1
  <2> QED BY <2>1, <2>2, <2>5
<1>3. words \in Nat /\ lw <= nsrc
  <2> HIDE DEF nsrc
  <2>1. words \in Nat /\ nsrc % WordBytes \in Nat /\ nsrc = WordBytes * words + (nsrc % WordBytes)
    BY <1>2
  <2> HIDE DEF words
  <2>2. WordBytes * words = words * WordBytes
    BY <2>1
  <2> QED BY <2>1, <2>2
<1>4. bytes \in Buffers(size) /\ low \in Byte /\ DOMAIN bytes = 0..size-1
  <2>1. bytes \in Buffers(size)
    BY DEF Packed, Buffers
  <2> HIDE DEF size, d, nsrc
  <2>2. d \in 0..size-1
    BY <1>1, <1>2
  <2> QED BY <2>1, <2>2 DEF Buffers
<1>5. last = UpState(size, bytes, src, d, sh, nsrc)
  <2>1. \A j \in 0..nsrc-1 : src[j] \in Byte
    OBVIOUS
  <2>2. last = ShiftedUp(bytes, src, d, sh, words, words + nsrc - words * WordBytes)
    OBVIOUS
  <2>3. words * WordBytes <= nsrc
    BY <1>3
  <2> HIDE DEF d, sh, size, nsrc, words, last, lw, dw
  <2>4. ShiftedUp(bytes, src, d, sh, words, words + nsrc - words * WordBytes) = UpState(size, bytes, src, d, sh, nsrc)
    <3>1. /\ size \in Nat /\ bytes \in Buffers(size) /\ d \in Nat /\ sh \in 1..W-1 /\ words \in Nat
          /\ nsrc \in Nat /\ nsrc > 0 /\ d + nsrc <= size
      BY ONLY <1>1, <1>2, <1>3, <1>4
    <3> QED BY ONLY <2>1, <2>3, <3>1, ShiftedUpIs
  <2> QED BY ONLY <2>2, <2>4
<1>6. new = [j \in DOMAIN bytes |-> AsByte(IF j = d + nsrc THEN last.spill ELSE last.bytes[j])]
  BY DEF ExtendShifted
<1> HIDE DEF new, last
<1>7. k \in 0..size-1 /\ r \in 0..W-1 /\ k \in Nat /\ k * W \in Nat /\ i = k * W + r /\ i \in Nat
      /\ (d <= k <=> dw <= i)
  <2> DEFINE all == len + n
  <2>1. all \in Nat /\ i \in 0..all-1 /\ i \in Nat
    OBVIOUS
  <2> HIDE DEF all
  <2>2. i \div W \in 0..BytesFor(all)-1 /\ r \in 0..W-1 /\ i = k * W + r /\ k * W \in Nat
    BY <2>1, PlaceWithin
  <2>3. d <= k <=> dw <= i
    BY <1>1, <2>1, PlaceOrder
  <2> QED BY <2>1, <2>2, <2>3 DEF all
<1>8. new[k] = AsByte(IF k = d + nsrc THEN Carry(src, low, sh, nsrc)
                      ELSE IF d <= k /\ k < d + nsrc THEN UpByte(src, low, sh, k - d) ELSE bytes[k])
  <2> HIDE DEF k, d, sh, nsrc, size
  <2>1. last.spill = Carry(src, low, sh, nsrc)
    BY <1>5 DEF UpState
  <2>2. last.bytes[k] = IF d <= k /\ k < d + nsrc THEN UpByte(src, low, sh, k - d) ELSE bytes[k]
    BY <1>5, <1>7 DEF UpState
  <2> QED BY <1>4, <1>6, <1>7, <2>1, <2>2
<1>9. /\ BitAt(new, i) <=> r \in new[k]
      /\ BitAt(bytes, i) <=> r \in bytes[k]
      /\ \A S : r \in AsByte(S) <=> r \in S
  BY <1>7 DEF BitAt, AsByte, Low
<1>0. \A j \in 0..nsrc-1 : src[j] \in Byte
  OBVIOUS
<1> HIDE DEF k, d, sh, nsrc, size, r, dw
<1>10. CASE k < d
  <2>1. k # d + nsrc /\ ~(d <= k) /\ i < len
    BY <1>1, <1>2, <1>7, <1>10
  <2> QED BY <1>8, <1>9, <2>1 DEF new
<1>11. CASE ~(k < d)
  <2> DEFINE x == k - d
             bit == IF r < sh THEN r \in Carry(src, low, sh, x) ELSE r - sh \in src[x]
             xw == x * W
             kw == k * W
  <2>1. x \in Nat /\ k = d + x
    BY <1>1, <1>7, <1>11
  <2> HIDE DEF x
  <2>2. xw \in Nat /\ kw = dw + xw
    BY <1>1, <2>1, MultiplesOrdered DEF dw
  <2>3. i = dw + xw + r
    <3>1. i = kw + r
      BY <1>7
    <3> HIDE DEF xw, kw
    <3> QED BY <1>1, <1>7, <2>2, <3>1
  <2>4. x <= nsrc /\ (x = nsrc => r < sh)
    <3> DEFINE nw == nsrc * W
    <3>1. n <= nw /\ nw \in Nat
      BY <1>2
    <3>2. xw + r < nw + sh
      <4> HIDE DEF xw, nw
      <4> QED BY <1>1, <1>7, <2>2, <2>3, <3>1
    <3>3. xw < (nsrc + 1) * W
      <4>1. (nsrc + 1) * W = nw + W
        BY <1>2, MultiplesOrdered
      <4> HIDE DEF xw, nw
      <4> QED BY <1>1, <1>7, <2>2, <3>1, <3>2, <4>1
    <3>4. x + 1 <= nsrc + 1
      BY <1>2, <2>1, <3>3, MultiplesOrdered
    <3>5. x = nsrc => xw = nw
      OBVIOUS
    <3> HIDE DEF xw, nw
    <3> QED BY <1>1, <1>2, <1>7, <2>1, <2>2, <3>1, <3>2, <3>4, <3>5
  <2>5. IF xw + r < sh THEN bit <=> r \in low ELSE bit <=> BitAt(src, xw + r - sh)
    <3>1. x \in 0..nsrc
      BY <1>2, <2>1, <2>4
    <3> QED BY ONLY <1>0, <1>1, <1>2, <1>4, <1>7, <2>4, <3>1, UpAt
  <2>6. r \in new[k] <=> bit
    <3>1. CASE x = nsrc
      <4>1. k = d + nsrc /\ r < sh
        BY <2>1, <2>4, <3>1
      <4> QED BY <1>8, <1>9, <3>1, <4>1
    <3>2. CASE x # nsrc
      <4>1. k # d + nsrc /\ d <= k /\ k < d + nsrc /\ k - d = x
        BY <1>1, <1>2, <2>1, <2>4, <3>2
      <4>2. r \in new[k] <=> r \in UpByte(src, low, sh, x)
        BY <1>8, <1>9, <4>1
      <4>3. src[x] \in Byte /\ (x > 0 => src[x - 1] \in Byte)
        <5>1. x \in 0..nsrc-1 /\ (x > 0 => x - 1 \in 0..nsrc-1)
          BY <1>2, <2>1, <2>4, <3>2
        <5> QED BY <1>0, <5>1
      <4> HIDE DEF low
      <4>4. r \in UpByte(src, low, sh, x) <=> bit
        BY <1>1, <1>4, <1>7, <2>1, <4>3, UpByteHas
      <4> QED BY <4>2, <4>4
    <3> QED BY <3>1, <3>2
  <2>7. CASE i < len
    <3>1. xw + r < sh
      <4> HIDE DEF xw
      <4> QED BY <1>1, <1>7, <2>2, <2>3, <2>7
    <3>2. x = 0
      <4>1. x # 0 => 1 * W <= xw
        BY <2>1, MultiplesOrdered
      <4> HIDE DEF xw
      <4> QED BY <1>1, <1>7, <2>2, <3>1, <4>1
    <3>3. k = d
      BY <2>1, <3>2, <1>1
    <3> HIDE DEF bit, xw
    <3> QED BY <1>9, <2>5, <2>6, <2>7, <3>1, <3>3 DEF new
  <2>8. CASE ~(i < len)
    <3>1. ~(xw + r < sh) /\ xw + r - sh = i - len
      <4> HIDE DEF xw
      <4> QED BY <1>1, <1>7, <2>2, <2>3, <2>8
    <3> HIDE DEF bit, xw
    <3> QED BY <1>9, <2>5, <2>6, <2>8, <3>1 DEF new
  <2> QED BY <2>7, <2>8
<1> QED BY <1>10, <1>11

(* extend_from_slice appends the first n bits of the source.               *)
LEMMA ExtendFromSliceAt ==
  ASSUME NEW m, Row(m), NEW n \in Nat, NEW src, \A k \in 0..BytesFor(n)-1 : src[k] \in Byte
  PROVE  /\ Row(ExtendFromSlice(m, src, n)) /\ m.len \in Nat /\ ExtendFromSlice(m, src, n).len = m.len + n
         /\ \A i \in 0..m.len + n - 1 :
              BitAt(ExtendFromSlice(m, src, n).bytes, i)
                <=> IF i < m.len THEN BitAt(m.bytes, i) ELSE BitAt(src, i - m.len)
<1> DEFINE len == m.len
           all == len + n
           g == Resize(m, all, FALSE)
           old == g.bytes
           on == JoinedOnBytes(old, src, len \div W, n)
           off == ExtendShifted(old, len, src, n)
           bytes == IF len % W = 0 THEN on ELSE IF n = 0 THEN old ELSE off
           x == ExtendFromSlice(m, src, n)
<1>1. len \in Nat /\ all \in Nat
  BY DEF Row, Raw
<1>2. x = MaskTrailing(New(bytes, all))
  BY DEF ExtendFromSlice, JoinedOnBytes
<1>3. Row(g) /\ g.len = all /\ old \in Packed(all) /\ DOMAIN old = 0..BytesFor(all)-1
  <2> HIDE DEF all
  <2>1. Row(g) /\ g.len = all
    BY <1>1, ResizeRow
  <2> HIDE DEF g
  <2> QED BY <2>1, RawParts DEF Row
<1>4. \A i \in 0..all-1 : BitAt(old, i) <=> i < len /\ BitAt(m.bytes, i)
  <2> HIDE DEF all
  <2>1. \A i \in 0..all-1 : BitAt(old, i) <=> IF i < m.len THEN BitAt(m.bytes, i) ELSE FALSE = TRUE
    BY <1>1, ResizeAt
  <2> QED BY <2>1
<1> HIDE DEF x, g, old
<1>5. len \div W \in Nat /\ n \div W \in Nat /\ n % W \in 0..W-1 /\ BytesFor(n) \in Nat
      /\ (n % W = 0 => BytesFor(n) = n \div W) /\ (n % W # 0 => BytesFor(n) = n \div W + 1)
  BY <1>1, WholeAndRest, BytesForHolds, BytesForSplits
<1>6. on \in Packed(all)
  <2> DEFINE d == len \div W
             f == n \div W
             t == n % W
  <2>1. \A k \in 0..BytesFor(all)-1 : old[k] \in Byte
    BY <1>3 DEF Packed
  <2>2. Low(t) \subseteq 0..W-1
    BY <1>5 DEF Low
  <2>3. on = [k \in 0..BytesFor(all)-1 |->
                IF k \in d..d+f-1 THEN src[k - d]
                ELSE IF k = d + f /\ t # 0 THEN (old[k] \ Low(t)) \cup (src[f] \cap Low(t)) ELSE old[k]]
    BY <1>3 DEF JoinedOnBytes
  <2> HIDE DEF on, all, d, f, t
  <2>4. \A k \in 0..BytesFor(all)-1 : k \in d..d+f-1 => k - d \in 0..BytesFor(n)-1
    BY <1>5 DEF d, f, t
  <2>5. \A k \in 0..BytesFor(all)-1 : (old[k] \ Low(t)) \cup (src[f] \cap Low(t)) \in Byte
    BY <2>1, <2>2 DEF Byte
  <2> QED BY <2>1, <2>3, <2>4, <2>5 DEF Packed
<1>7. off \in Packed(all)
  <2>1. \A y : AsByte(y) \in Byte
    BY DEF AsByte, Low, Byte
  <2> HIDE DEF all
  <2> QED BY <1>3, <2>1 DEF ExtendShifted, Packed
<1>8. bytes \in Packed(all)
  <2> HIDE DEF on, off, all
  <2> QED BY <1>3, <1>6, <1>7
<1>9. ASSUME NEW i \in 0..all-1
      PROVE  BitAt(bytes, i) <=> IF i < len THEN BitAt(m.bytes, i) ELSE BitAt(src, i - len)
  <2>1. i \in Nat
    BY <1>1
  <2>2. CASE len % W = 0
    <3> DEFINE d == len \div W
    <3>1. d \in Nat /\ len = d * W
      <4> HIDE DEF len
      <4>1. len \div W \in Nat /\ (len \div W) * W \in Nat /\ len = (len \div W) * W + (len % W)
        BY <1>1, WholeAndRest
      <4> QED BY <2>2, <4>1
    <3>2. i \div W \in DOMAIN old
      <4> HIDE DEF all
      <4> QED BY <1>1, <1>3, PlaceWithin
    <3>3. i < d * W + n
      <4> HIDE DEF d
      <4>1. i < len + n
        BY <1>1
      <4> HIDE DEF len
      <4> QED BY <3>1, <4>1
    <3> HIDE DEF d
    <3>4. BitAt(JoinedOnBytes(old, src, d, n), i) <=> IF i < d * W THEN BitAt(old, i) ELSE BitAt(src, i - d * W)
      BY <2>1, <3>1, <3>2, <3>3, OnBytesAt
    <3>5. on = JoinedOnBytes(old, src, d, n)
      BY DEF d
    <3> HIDE DEF on, off, len
    <3> QED BY <1>4, <2>2, <3>1, <3>4, <3>5
  <2>3. CASE len % W # 0 /\ n = 0
    <3>1. i < len
      BY <1>1, <2>3
    <3> HIDE DEF on, off, len, all
    <3> QED BY <1>4, <2>3, <3>1
  <2>4. CASE len % W # 0 /\ n # 0
    <3>1. n > 0 /\ n \in Nat
      BY <2>4
    <3>2. len % W # 0
      BY <2>4
    <3>3. \A k \in 0..BytesFor(n)-1 : src[k] \in Byte
      OBVIOUS
    <3>4. all = len + n
      OBVIOUS
    <3> HIDE DEF len, all
    <3>5. old \in Packed(len + n) /\ i \in 0..len+n-1
      BY <1>1, <1>3, <3>4
    <3>6. BitAt(off, i) <=> IF i < len THEN BitAt(old, i) ELSE BitAt(src, i - len)
      BY ONLY <1>1, <3>1, <3>2, <3>3, <3>5, OffBytesAt
    <3> HIDE DEF on, off
    <3> QED BY <1>4, <2>4, <3>6
  <2> QED BY <2>2, <2>3, <2>4
<1> HIDE DEF bytes
<1>10. Row(x) /\ x.len = all
  <2> HIDE DEF all
  <2> QED BY <1>1, <1>2, <1>8, MaskTrailingRow
<1>11. \A i \in 0..all-1 : BitAt(x.bytes, i) <=> BitAt(bytes, i)
  <2> HIDE DEF all
  <2> QED BY <1>1, <1>2, <1>8, MaskTrailingAt
<1>12. all = m.len + n
  OBVIOUS
<1> HIDE DEF all
<1>13. \A i \in 0..all-1 : BitAt(x.bytes, i) <=> IF i < m.len THEN BitAt(m.bytes, i) ELSE BitAt(src, i - m.len)
  BY <1>9, <1>11
<1> QED BY <1>1, <1>10, <1>12, <1>13 DEF x

(* The bytes a window that starts inside a byte is shifted down to.        *)
LEMMA AlignedFromAt ==
  ASSUME NEW x, Raw(x), NEW off \in Nat, NEW n \in Nat, off + n <= x.len
  PROVE  /\ \A k \in 0..BytesFor(n)-1 : AlignedFrom(x.bytes, off, n)[k] \in Byte
         /\ \A y \in 0..n-1 : BitAt(AlignedFrom(x.bytes, off, n), y) <=> BitAt(x.bytes, off + y)
<1> DEFINE src == AlignedFrom(x.bytes, off, n)
           lo == off \div W
           sh == off % W
           size == BytesFor(x.len)
           need == BytesFor(n)
           cnt == IF sh = 0 THEN size - lo ELSE Least(need + 1, size - lo)
<1>1. /\ x.len \in Nat /\ size \in Nat /\ need \in Nat /\ x.bytes \in Buffers(size) /\ Size(x.bytes) = size
  BY RawParts, SizeOfBytes, BytesForHolds DEF Buffers, Packed
<1>2. lo \in Nat /\ sh \in 0..W-1 /\ lo * W \in Nat /\ off = lo * W + sh
  BY WholeAndRest
<1>3. src = [k \in 0..cnt-1 |-> Straddle(x.bytes, lo + k, sh)]
  BY <1>1 DEF AlignedFrom
<1>4. need + lo <= size
  <2> DEFINE low == n + lo * W
             len == x.len
  <2>1. low \in Nat /\ low <= len /\ len \in Nat
    <3> HIDE DEF lo, sh
    <3> QED BY <1>1, <1>2
  <2>2. BytesFor(low) = need + lo
    <3> HIDE DEF lo
    <3> QED BY <1>2, BytesForGrows
  <2> HIDE DEF low, len
  <2>3. BytesFor(low) <= BytesFor(len)
    BY <2>1, BytesForGrows
  <2> QED BY <2>2, <2>3 DEF len
<1> HIDE DEF size, need, lo, sh
<1>5. cnt \in Int /\ need <= cnt /\ lo + cnt <= size
  BY <1>1, <1>2, <1>4 DEF Least
<1> HIDE DEF cnt
<1>6. \A k \in 0..need-1 : k \in 0..cnt-1 /\ lo + k \in 0..size-1 /\ src[k] = Straddle(x.bytes, lo + k, sh)
  <2>1. \A k \in 0..need-1 : k \in 0..cnt-1 /\ lo + k \in 0..size-1
    BY <1>1, <1>2, <1>5
  <2> QED BY <1>3, <2>1
<1> HIDE DEF src
<1>7. \A k \in 0..need-1 : src[k] \in Byte
  <2>1. \A i : Straddle(x.bytes, i, sh) \in Byte
    BY DEF Straddle, AsByte, Low, Byte
  <2> QED BY <1>6, <2>1
<1>8. ASSUME NEW y \in 0..n-1 PROVE BitAt(src, y) <=> BitAt(x.bytes, off + y)
  <2> DEFINE k == y \div W
             b == y % W
             p == (lo + k) * W + sh + b
             len == x.len
  <2>1. k \in 0..need-1 /\ b \in 0..W-1 /\ y = k * W + b /\ k * W \in Nat /\ k \in Nat
    <3>1. /\ y \div W \in 0..BytesFor(n)-1 /\ y % W \in 0..W-1
          /\ y = (y \div W) * W + (y % W) /\ (y \div W) * W \in Nat
      BY PlaceWithin
    <3>2. y \div W \in Nat
      BY WholeAndRest
    <3> QED BY <3>1, <3>2 DEF need
  <2> HIDE DEF k, b
  <2>2. p = off + y
    <3>1. (lo + k) * W = lo * W + k * W
      BY <1>2, <2>1, MultiplesOrdered
    <3> DEFINE lw == lo * W
               kw == k * W
    <3>2. off = lw + sh /\ y = kw + b /\ p = lw + kw + sh + b /\ lw \in Nat /\ kw \in Nat
      BY <1>2, <2>1, <3>1
    <3> HIDE DEF lw, kw, p
    <3> QED BY <1>2, <2>1, <3>2
  <2>3. b \in src[k] <=> p \div W \in 0..size-1 /\ BitAt(x.bytes, p)
    <3>1. lo + k \in 0..size-1 /\ src[k] = Straddle(x.bytes, lo + k, sh)
      BY <1>6, <2>1
    <3>2. b \in Straddle(x.bytes, lo + k, sh) <=> p \div W \in 0..size-1 /\ BitAt(x.bytes, p)
      BY <1>1, <1>2, <2>1, <3>1, StraddleAt
    <3> QED BY <3>1, <3>2
  <2> HIDE DEF p
  <2>4. p \div W \in 0..size-1
    <3>1. p \in 0..len-1 /\ len \in Nat
      BY <1>1, <2>2
    <3> HIDE DEF len
    <3>2. p \div W \in 0..BytesFor(len)-1
      BY <3>1, PlaceWithin
    <3> QED BY <3>2 DEF len, size
  <2>5. BitAt(src, y) <=> b \in src[k]
    BY DEF BitAt, k, b
  <2> QED BY <2>2, <2>3, <2>4, <2>5
<1> QED BY <1>7, <1>8 DEF src, need

(* extend_from_bitmask_range appends the window.                           *)
LEMMA ExtendFromRangeAt ==
  ASSUME NEW m, Row(m), NEW x, Raw(x), NEW off \in Nat, NEW n \in Nat, off + n <= x.len
  PROVE  /\ Row(ExtendFromRange(m, x, off, n)) /\ m.len \in Nat /\ ExtendFromRange(m, x, off, n).len = m.len + n
         /\ \A i \in 0..m.len + n - 1 :
              BitAt(ExtendFromRange(m, x, off, n).bytes, i)
                <=> IF i < m.len THEN BitAt(m.bytes, i) ELSE BitAt(x.bytes, off + (i - m.len))
<1>0. m.len \in Nat
  BY DEF Row, Raw
<1>1. CASE n = 0
  <2>1. ExtendFromRange(m, x, off, n) = m
    BY <1>1 DEF ExtendFromRange
  <2>2. \A i \in 0..m.len + n - 1 : i < m.len
    BY <1>0, <1>1
  <2>3. m.len = m.len + n
    BY <1>0, <1>1
  <2> QED BY <1>0, <2>1, <2>2, <2>3
<1>2. CASE n # 0
  <2> DEFINE src == AlignedFrom(x.bytes, off, n)
             e == ExtendFromSlice(m, src, n)
  <2>1. ExtendFromRange(m, x, off, n) = e
    BY <1>2 DEF ExtendFromRange
  <2>2. /\ \A k \in 0..BytesFor(n)-1 : src[k] \in Byte
        /\ \A y \in 0..n-1 : BitAt(src, y) <=> BitAt(x.bytes, off + y)
    BY AlignedFromAt
  <2> HIDE DEF src
  <2>3. /\ Row(e) /\ e.len = m.len + n
        /\ \A i \in 0..m.len + n - 1 : BitAt(e.bytes, i) <=> IF i < m.len THEN BitAt(m.bytes, i) ELSE BitAt(src, i - m.len)
    BY <2>2, ExtendFromSliceAt
  <2> HIDE DEF e
  <2>4. \A i \in 0..m.len + n - 1 : ~(i < m.len) => i - m.len \in 0..n-1
    BY <1>0
  <2>5. \A i \in 0..m.len + n - 1 :
          BitAt(e.bytes, i) <=> IF i < m.len THEN BitAt(m.bytes, i) ELSE BitAt(x.bytes, off + (i - m.len))
    BY <2>2, <2>3, <2>4
  <2> QED BY <1>0, <2>1, <2>3, <2>5
<1> QED BY <1>1, <1>2

(* new_set_all                                                             *)
LEMMA NewSetAllAt ==
  ASSUME NEW n \in Nat, NEW v \in BOOLEAN
  PROVE  /\ Row(NewSetAll(n, v)) /\ NewSetAll(n, v).len = n
         /\ \A i \in 0..n-1 : BitAt(NewSetAll(n, v).bytes, i) <=> v = TRUE
<1> DEFINE bytes == [i \in 0..BytesFor(n)-1 |-> Fill(v)]
<1>1. bytes \in Packed(n)
  BY DEF Fill, Low, Byte, Packed
<1>2. NewSetAll(n, v) = MaskTrailing(New(bytes, n))
  BY DEF NewSetAll
<1>3. ASSUME NEW i \in 0..n-1 PROVE BitAt(bytes, i) <=> v = TRUE
  <2>1. i \div W \in 0..BytesFor(n)-1 /\ i % W \in 0..W-1
    BY PlaceWithin
  <2>2. bytes[i \div W] = Fill(v)
    BY <2>1
  <2> QED BY <2>1, <2>2 DEF BitAt, Fill, Low
<1> HIDE DEF bytes
<1>4. \A i \in 0..n-1 : BitAt(NewSetAll(n, v).bytes, i) <=> BitAt(bytes, i)
  BY <1>1, <1>2, MaskTrailingAt
<1> QED BY <1>3, <1>4, NewSetAllRow

(* extend_from_bitmask grows with ones and clears those of the other that  *)
(* are not set.                                                            *)
LEMMA ExtendFromBitmaskAt ==
  ASSUME NEW m, Row(m), NEW x, Row(x)
  PROVE  /\ Row(ExtendFromBitmask(m, x)) /\ m.len \in Nat /\ x.len \in Nat
         /\ ExtendFromBitmask(m, x).len = m.len + x.len
         /\ \A i \in 0..m.len + x.len - 1 :
              BitAt(ExtendFromBitmask(m, x).bytes, i)
                <=> IF i < m.len THEN BitAt(m.bytes, i) ELSE BitAt(x.bytes, i - m.len)
<1> DEFINE len == m.len
           n == x.len
           all == len + n
           g == Resize(m, all, TRUE)
           clear == {i \in 0..n-1 : ~Get(x, i)}
           S == {len + i : i \in clear}
<1>1. len \in Nat /\ n \in Nat /\ all \in Nat /\ LenOf(x) = n /\ x.view = {}
  BY RawParts, BitsAt DEF Row
<1>2. ExtendFromBitmask(m, x) = PutBits(g, S, FALSE)
  BY <1>1 DEF ExtendFromBitmask
<1>3. Row(g) /\ g.len = all
  <2> HIDE DEF all
  <2> QED BY <1>1, ResizeRow
<1>4. \A i \in 0..all-1 : BitAt(g.bytes, i) <=> IF i < len THEN BitAt(m.bytes, i) ELSE TRUE
  <2> HIDE DEF all
  <2>1. \A i \in 0..all-1 : BitAt(g.bytes, i) <=> IF i < m.len THEN BitAt(m.bytes, i) ELSE TRUE = TRUE
    BY <1>1, ResizeAt
  <2> QED BY <2>1
<1>5. \A i \in 0..n-1 : Get(x, i) <=> BitAt(x.bytes, i)
  BY <1>1 DEF Get, BitAt
<1>6. all = len + n
  OBVIOUS
<1> HIDE DEF g, all, n, len
<1>7. \A i \in 0..all-1 : i \in S <=> ~(i < len) /\ ~BitAt(x.bytes, i - len)
  <2> TAKE i \in 0..all-1
  <2>1. ASSUME i \in S PROVE ~(i < len) /\ ~BitAt(x.bytes, i - len)
    <3>1. PICK j \in 0..n-1 : ~Get(x, j) /\ i = len + j
      BY <2>1
    <3>2. i - len = j /\ ~(i < len)
      BY <1>1, <3>1
    <3> QED BY <1>5, <3>1, <3>2
  <2>2. ASSUME ~(i < len), ~BitAt(x.bytes, i - len) PROVE i \in S
    <3> DEFINE j == i - len
    <3>1. j \in 0..n-1 /\ i = len + j
      BY <1>1, <1>6, <2>2
    <3>2. ~Get(x, j)
      BY <1>5, <2>2, <3>1
    <3> HIDE DEF j
    <3> QED BY <3>1, <3>2
  <2> QED BY <2>1, <2>2
<1>8. S \in SUBSET (0..g.len-1)
  <2>1. \A j \in 0..n-1 : len + j \in 0..all-1
    BY <1>1, <1>6
  <2> QED BY <1>3, <2>1
<1> HIDE DEF S
<1> DEFINE p == PutBits(g, S, FALSE)
<1>9. Row(p) /\ p.len = all
  BY <1>3, <1>8, PutBitsRow
<1>10. \A i \in 0..all-1 : BitAt(p.bytes, i) <=> IF i \in S THEN FALSE ELSE BitAt(g.bytes, i)
  <2>1. S \in SUBSET Nat /\ Raw(g)
    <3>1. S \in SUBSET (0..all-1)
      BY <1>3, <1>8
    <3> QED BY <1>1, <1>3, <3>1 DEF Row
  <2>2. \A i \in 0..g.len-1 : BitAt(p.bytes, i) <=> IF i \in S THEN FALSE = TRUE ELSE BitAt(g.bytes, i)
    BY <2>1, PutBitsAt
  <2> HIDE DEF p
  <2> QED BY <1>3, <2>2
<1> HIDE DEF p
<1>11. \A i \in 0..all-1 : BitAt(p.bytes, i) <=> IF i < len THEN BitAt(m.bytes, i) ELSE BitAt(x.bytes, i - len)
  BY <1>4, <1>7, <1>10
<1>12. ExtendFromBitmask(m, x) = p
  BY <1>2 DEF p
<1>13. len = m.len /\ n = x.len
  BY DEF len, n
<1> QED BY <1>1, <1>6, <1>9, <1>11, <1>12, <1>13

(* extend: bit after bit.                                                  *)
LEMMA ExtendAt ==
  ASSUME NEW m, Row(m), NEW n \in Nat, NEW bits, DOMAIN bits = 0..n-1, \A i \in 0..n-1 : bits[i] \in BOOLEAN
  PROVE  /\ Row(Extend(m, bits)) /\ m.len \in Nat /\ Extend(m, bits).len = m.len + n
         /\ \A i \in 0..m.len + n - 1 :
              BitAt(Extend(m, bits).bytes, i) <=> IF i < m.len THEN BitAt(m.bytes, i) ELSE bits[i - m.len]
<1> DEFINE len == m.len
           v(k) == bits[k] = TRUE
           Step(x, k) == Push(x, bits[k - 1])
           R(g) == g = [k \in 0..n |-> IF k = 0 THEN m ELSE Step(g[k - 1], k)]
           after == CHOOSE g : R(g)
           f == [k \in 1..n |-> [x \in Rows |-> Step(x, k)]]
<1>0. len \in Nat /\ m \in Rows /\ Size(bits) = n
  BY RawParts, InRows, SizeIs DEF Row
<1>1. \A k \in 1..n, x \in Rows : Step(x, k) \in Rows
  <2> TAKE k \in 1..n, x \in Rows
  <2>1. Row(x) /\ x.len \in Nat
    BY InRows, RawParts DEF Row
  <2>2. k - 1 \in 0..n-1
    OBVIOUS
  <2>3. bits[k - 1] \in BOOLEAN
    BY <2>2
  <2> QED BY <2>1, <2>3, InRows, SetBitAt DEF Push
<1> HIDE DEF Step
<1>2. PICK g \in [0..n -> Rows] : g[0] = m /\ \A k \in 1..n : g[k] = f[k][g[k - 1]]
  <2>1. f \in [1..n -> [Rows -> Rows]]
    BY <1>1
  <2> HIDE DEF f
  <2>2. m \in Rows /\ n \in Nat
    BY <1>0
  <2> QED BY ONLY <2>1, <2>2, LoopRuns
<1>3. R(g)
  <2>1. \A k \in 0..n : k # 0 => k \in 1..n /\ k - 1 \in 0..n
    OBVIOUS
  <2>2. \A k \in 0..n : k # 0 => f[k][g[k - 1]] = Step(g[k - 1], k)
    BY <2>1
  <2> HIDE DEF f
  <2>3. \A k \in 0..n : g[k] = IF k = 0 THEN m ELSE Step(g[k - 1], k)
    BY <1>2, <2>1, <2>2
  <2>4. g = [k \in 0..n |-> g[k]]
    OBVIOUS
  <2> QED BY <2>3, <2>4
<1>4. R(after)
  <2> HIDE DEF R
  <2> QED BY <1>3
<1>5. Extend(m, bits) = MaskTrailing(after[n])
  BY <1>0 DEF Extend, Step
<1> HIDE DEF after, len
<1> DEFINE Done(x, k) ==
             /\ Row(x) /\ x.len = len + k
             /\ \A i \in 0..len + k - 1 : BitAt(x.bytes, i) <=> IF i < len THEN BitAt(m.bytes, i) ELSE bits[i - len]
           T == {k \in Nat : k <= n => Done(after[k], k)}
<1>6. 0 \in T
  <2>1. after[0] = m
    BY <1>4
  <2>2. Done(m, 0)
    BY <1>0 DEF len
  <2> HIDE DEF Done
  <2> QED BY <2>1, <2>2
<1> HIDE DEF Done
<1>7. ASSUME NEW k \in Nat, k \in T PROVE k + 1 \in T
  <2> SUFFICES ASSUME k + 1 <= n PROVE Done(after[k + 1], k + 1)
    OBVIOUS
  <2> DEFINE x == after[k]
             b == bits[k]
             y == SetBit(x, len + k, b)
  <2>0. Done(x, k)
    BY <1>7
  <2>1. /\ Row(x) /\ x.len = len + k
        /\ \A i \in 0..len + k - 1 : BitAt(x.bytes, i) <=> IF i < len THEN BitAt(m.bytes, i) ELSE bits[i - len]
    BY <2>0 DEF Done
  <2>2. after[k + 1] = y
    <3>1. k + 1 \in 0..n /\ k + 1 # 0 /\ (k + 1) - 1 = k
      OBVIOUS
    <3>2. after[k + 1] = Step(after[k], k + 1)
      BY <1>4, <3>1
    <3> QED BY <2>1, <3>1, <3>2 DEF Step, Push
  <2> HIDE DEF x
  <2>3. len + k \in Nat /\ b \in BOOLEAN
    <3>1. k \in 0..n-1
      OBVIOUS
    <3> QED BY <1>0, <3>1
  <2> HIDE DEF b
  <2>4. /\ Row(y) /\ y.len = IF len + k + 1 > x.len THEN len + k + 1 ELSE x.len
        /\ \A i \in 0..y.len-1 :
             BitAt(y.bytes, i) <=> IF i = len + k THEN b = TRUE ELSE i < x.len /\ BitAt(x.bytes, i)
    <3> DEFINE s == len + k
    <3>1. s \in Nat
      BY <2>3
    <3> HIDE DEF s
    <3>2. /\ x.len \in Nat /\ Row(SetBit(x, s, b)) /\ SetBit(x, s, b).len = IF s + 1 > x.len THEN s + 1 ELSE x.len
          /\ \A i \in 0..SetBit(x, s, b).len-1 :
               BitAt(SetBit(x, s, b).bytes, i) <=> IF i = s THEN b = TRUE ELSE i < x.len /\ BitAt(x.bytes, i)
      BY ONLY <2>1, <2>3, <3>1, SetBitAt
    <3> QED BY <3>2 DEF s
  <2> HIDE DEF y
  <2>5. y.len = len + (k + 1)
    BY <1>0, <2>1, <2>4
  <2>6. ASSUME NEW i \in 0..len + (k + 1) - 1
        PROVE  BitAt(y.bytes, i) <=> IF i < len THEN BitAt(m.bytes, i) ELSE bits[i - len]
    <3>1. i \in 0..y.len-1 /\ i \in Nat
      BY <1>0, <2>5
    <3>2. CASE i = len + k
      <4>1. i - len = k /\ ~(i < len)
        BY <1>0, <3>2
      <4>2. bits[i - len] = b
        BY <4>1 DEF b
      <4> QED BY <2>3, <2>4, <3>1, <3>2, <4>1, <4>2
    <3>3. CASE i # len + k
      <4>1. i \in 0..len+k-1 /\ i < x.len
        BY <1>0, <2>1, <3>3
      <4> QED BY <2>1, <2>4, <3>1, <3>3, <4>1
    <3> QED BY <3>2, <3>3
  <2> QED BY <2>2, <2>4, <2>5, <2>6 DEF Done
<1>8. n \in T
  <2> HIDE DEF T
  <2> QED BY <1>6, <1>7, Induction
<1>9. Done(after[n], n)
  BY <1>8
<1>10. MaskTrailing(after[n]) = after[n]
  BY <1>9, RowIsMasked DEF Done
<1> QED BY <1>0, <1>5, <1>9, <1>10 DEF Done, len

-----------------------------------------------------------------------------
(* Windows copied                                                          *)

(* A place some whole bytes further.                                       *)
LEMMA PlaceMoves ==
  ASSUME NEW a \in Nat, NEW p \in Nat
  PROVE  /\ a * W \in Nat /\ p \div W \in Nat /\ (a * W + p) \div W = a + p \div W
         /\ (a * W + p) % W = p % W
<1> DEFINE k == p \div W
           b == p % W
           aw == a * W
           kw == k * W
<1>1. k \in Nat /\ b \in 0..W-1 /\ p = kw + b /\ kw \in Nat /\ aw \in Nat
  BY WholeAndRest, MultiplesOrdered
<1>2. a + k \in Nat /\ (a + k) * W = aw + kw
  <2> HIDE DEF k
  <2> QED BY <1>1, MultiplesOrdered
<1>3. aw + p = (a + k) * W + b
  <2> HIDE DEF aw, kw, k, b
  <2> QED BY <1>1, <1>2
<1>4. ((a + k) * W + b) \div W = a + k /\ ((a + k) * W + b) % W = b
  <2> DEFINE q == a + k
  <2> HIDE DEF k, b, q
  <2>1. (q * W + b) \div W = q /\ (q * W + b) % W = b
    BY <1>1, <1>2, PlaceIs DEF q
  <2> QED BY <2>1 DEF q
<1> QED BY <1>1, <1>3, <1>4

(* split_off: the two halves show the two windows.                         *)
LEMMA SplitOffAt ==
  ASSUME NEW m, Row(m), NEW at \in Nat, at <= m.len
  PROVE  /\ m.len \in Nat /\ Row(SplitOff(m, at)[1]) /\ Row(SplitOff(m, at)[2])
         /\ SplitOff(m, at)[1].len = at /\ SplitOff(m, at)[2].len = m.len - at
         /\ \A i \in 0..at-1 : BitAt(SplitOff(m, at)[1].bytes, i) <=> BitAt(m.bytes, i)
         /\ \A i \in 0..m.len - at - 1 : BitAt(SplitOff(m, at)[2].bytes, i) <=> BitAt(m.bytes, at + i)
<1> DEFINE n == m.len - at
           lower == LowerBytes(m, at)
           rest == IF at % W = 0 THEN UpperBytes(m, at) ELSE MovedBytes(m, at)
           lo == MaskTrailing(New(lower, at))
           hi == MaskTrailing(New(rest, n))
           x == SplitOff(m, at)
<1>1. m.len \in Nat /\ n \in Nat /\ lower \in Packed(at) /\ rest \in Packed(n) /\ n + at = m.len
  BY SplitBytes
<1>2. Row(x[1]) /\ Row(x[2])
  BY SplitOffRow
<1>3. CASE at = m.len
  <2> DEFINE none == NewSetAll(0, FALSE)
  <2>1. x = <<m, none>>
    BY <1>3, SplitOffIs
  <2>2. none.len = 0
    BY NewSetAllRow
  <2> HIDE DEF none, x
  <2>3. x[1] = m /\ x[2] = none
    BY <2>1
  <2>4. m.len - at = 0 /\ \A i \in 0..m.len - at - 1 : FALSE
    BY <1>1, <1>3
  <2> QED BY <1>1, <1>2, <1>3, <2>2, <2>3, <2>4 DEF x
<1>4. CASE at # m.len
  <2>1. x = <<lo, hi>>
    BY <1>4, SplitOffIs
  <2>2. ASSUME NEW i \in 0..at-1 PROVE BitAt(lower, i) <=> BitAt(m.bytes, i)
    <3>1. (IF at % W = 0 THEN at \div W ELSE BytesFor(at)) = BytesFor(at)
      BY BytesForSplits
    <3>2. BitAt(Resized(m.bytes, BytesFor(at), {}), i)
            <=> IF i \div W < BytesFor(m.len) THEN BitAt(m.bytes, i) ELSE i % W \in {}
      <4>1. {} \in Byte
        BY DEF Byte
      <4> QED BY <4>1, ResizedAt
    <3>3. i \div W < BytesFor(m.len)
      <4>1. i \in Nat /\ i < m.len
        BY <1>1
      <4> QED BY <4>1, RowAt
    <3> QED BY <3>1, <3>2, <3>3 DEF LowerBytes
  <2>3. ASSUME NEW i \in 0..n-1 PROVE BitAt(rest, i) <=> BitAt(m.bytes, at + i)
    <3> DEFINE k == i \div W
               b == i % W
    <3>1. k \in Nat /\ k \in 0..BytesFor(n)-1 /\ b \in 0..W-1 /\ i = k * W + b /\ k * W \in Nat /\ i \in Nat
      <4>1. n \in Nat /\ i \in 0..n-1
        BY <1>1
      <4> HIDE DEF n
      <4>2. i \in Nat
        BY <4>1
      <4> QED BY <4>1, <4>2, PlaceWithin, WholeAndRest
    <3>2. CASE at % W = 0
      <4> DEFINE a == at \div W
      <4>1. a \in Nat /\ at = a * W
        BY <3>2, WholeAndRest
      <4> HIDE DEF a
      <4>2. at + i \in Nat /\ (at + i) \div W = a + k /\ (at + i) % W = b
        <5>1. a * W \in Nat /\ (a * W + i) \div W = a + k /\ (a * W + i) % W = b
          BY <3>1, <4>1, PlaceMoves
        <5> HIDE DEF k, b
        <5> QED BY <3>1, <4>1, <5>1
      <4>3. DOMAIN rest = 0..BytesFor(n)-1 /\ rest = UpperBytes(m, at)
        BY <1>1, <3>2 DEF Packed
      <4>4. rest[k] = m.bytes[k + a]
        <5>1. DOMAIN UpperBytes(m, at) = 0..BytesFor(n)-1 /\ k \in 0..BytesFor(n)-1
          <6> HIDE DEF n, rest, k
          <6> QED BY <3>1, <4>3
        <5>2. UpperBytes(m, at) = [j \in 0..Size(m.bytes) - a - 1 |-> m.bytes[j + a]]
          BY DEF UpperBytes, a
        <5> HIDE DEF n, k
        <5>3. UpperBytes(m, at)[k] = m.bytes[k + a]
          BY <5>1, <5>2
        <5> HIDE DEF rest
        <5> QED BY <4>3, <5>3
      <4>5. k + a = a + k
        BY <3>1, <4>1
      <4>6. BitAt(rest, i) <=> b \in rest[k]
        BY DEF BitAt
      <4> HIDE DEF rest, k, b
      <4> QED BY <4>2, <4>4, <4>5, <4>6 DEF BitAt
    <3>3. CASE at % W # 0
      <4>1. at + k * W + b = at + i /\ at + i < m.len
        <5> DEFINE kw == k * W
        <5>1. kw \in Nat /\ i = kw + b
          BY <3>1
        <5> HIDE DEF kw, k, b
        <5> QED BY <1>1, <3>1, <5>1 DEF kw
      <4>2. rest[k] = {c \in 0..W-1 : at + k * W + c < m.len /\ (at + k * W + c) % W \in m.bytes[(at + k * W + c) \div W]}
        <5> HIDE DEF k
        <5> QED BY <3>1, <3>3 DEF MovedBytes
      <4>3. BitAt(rest, i) <=> b \in rest[k]
        BY DEF BitAt
      <4> HIDE DEF rest, k, b
      <4>4. b \in rest[k] <=> at + i < m.len /\ (at + i) % W \in m.bytes[(at + i) \div W]
        BY <3>1, <4>1, <4>2
      <4> QED BY <4>1, <4>3, <4>4 DEF BitAt
    <3> QED BY <3>2, <3>3
  <2> HIDE DEF lower, rest, n
  <2>4. lo.len = at /\ \A i \in 0..at-1 : BitAt(lo.bytes, i) <=> BitAt(lower, i)
    BY <1>1, MaskTrailingRow, MaskTrailingAt
  <2>5. hi.len = n /\ \A i \in 0..n-1 : BitAt(hi.bytes, i) <=> BitAt(rest, i)
    BY <1>1, MaskTrailingRow, MaskTrailingAt
  <2> HIDE DEF lo, hi, x
  <2>6. x[1] = lo /\ x[2] = hi
    BY <2>1
  <2>7. \A i \in 0..at-1 : BitAt(x[1].bytes, i) <=> BitAt(m.bytes, i)
    BY <2>2, <2>4, <2>6
  <2>8. \A i \in 0..n-1 : BitAt(x[2].bytes, i) <=> BitAt(m.bytes, at + i)
    BY <2>3, <2>5, <2>6
  <2> QED BY <1>1, <1>2, <2>4, <2>5, <2>6, <2>7, <2>8 DEF n, x
<1> QED BY <1>3, <1>4

(* A byte of a word shifted down, the byte after the word completing it,   *)
(* is the byte that straddles two bytes of the row.                        *)
LEMMA JoinedByte ==
  ASSUME NEW size \in Nat, NEW src \in Buffers(size), NEW x \in Nat, x + WordBytes < size,
         NEW sh \in 1..W-1, NEW c \in 0..WordBytes-1
  PROVE  AsByte(Shr(JoinedWord(src, x, sh), c * W)) = Straddle(src, x + c, sh)
<1> DEFINE word == WordAt(src, x)
           all == WordBytes * W
           down == Shr(word, sh)
           up == Shl(src[x + WordBytes], all - sh)
           U == down \cup up
           cw == c * W
           left == AsByte(Shr(U, cw))
           right == Straddle(src, x + c, sh)
<1>1. c \in Nat /\ cw \in Nat /\ sh \in Nat /\ WordBytes \in Nat /\ c + 1 <= WordBytes
      /\ all \in Nat /\ (c + 1) * W = cw + W /\ cw + W <= all
  <2>1. c \in Nat /\ c + 1 \in Nat /\ WordBytes \in Nat /\ c + 1 <= WordBytes
    OBVIOUS
  <2> QED BY <2>1, MultiplesOrdered
<1>2. /\ \A i \in 0..WordBytes-1 : src[x + i] \in Byte
      /\ src[x + WordBytes] \in SUBSET (0..W-1) /\ src[x + c] \in SUBSET (0..W-1) /\ src[x + c + 1] \in SUBSET (0..W-1)
      /\ DOMAIN src = 0..size-1 /\ x + c + 1 \in DOMAIN src /\ x + c \in DOMAIN src
  <2>1. \A i \in 0..WordBytes : x + i \in 0..size-1
    OBVIOUS
  <2>2. c \in 0..WordBytes /\ c + 1 \in 0..WordBytes /\ WordBytes \in 0..WordBytes /\ x + (c + 1) = x + c + 1
    OBVIOUS
  <2>3. \A i \in 0..WordBytes : x + i \in DOMAIN src /\ src[x + i] \in Byte
    BY <2>1 DEF Buffers
  <2>4. DOMAIN src = 0..size-1
    BY DEF Buffers
  <2>5. x + c \in DOMAIN src /\ src[x + c] \in Byte /\ x + (c + 1) \in DOMAIN src /\ src[x + (c + 1)] \in Byte
    BY <2>2, <2>3
  <2>6. src[x + WordBytes] \in Byte
    BY <2>2, <2>3
  <2>7. \A i \in 0..WordBytes-1 : src[x + i] \in Byte
    BY <2>3
  <2> QED BY <2>2, <2>4, <2>5, <2>6, <2>7 DEF Byte
<1>3. word \in SUBSET Nat
  BY <1>2, WordIsNat
<1>4. up \in SUBSET Nat
  <2> DEFINE t == all - sh
             S == src[x + WordBytes]
  <2>1. t \in Nat /\ S \in SUBSET (0..W-1)
    <3> HIDE DEF all, cw
    <3> QED BY <1>1, <1>2
  <2> HIDE DEF t, S
  <2>2. Shl(S, t) \in SUBSET Nat
    BY <2>1 DEF Shl
  <2> QED BY <2>2 DEF S, t
<1>5. down \in SUBSET Nat
  <2> HIDE DEF word
  <2> QED BY <1>1, <1>3 DEF Shr
<1>6. ASSUME NEW b \in 0..W-1 PROVE b \in left <=> b \in right
  <2> DEFINE y == b + cw
             z == y + sh
  <2>1. b \in Nat /\ y \in Nat /\ z \in Nat
    BY <1>1
  <2>2. b \in left <=> y \in down \/ y \in up
    <3>1. b \in left <=> b \in Shr(U, cw)
      BY DEF AsByte, Low
    <3>2. b \in Shr(U, cw) <=> y \in U
      <4>1. U \in SUBSET Int
        BY <1>4, <1>5
      <4> HIDE DEF cw, U
      <4> QED BY <1>1, <2>1, <4>1, Moves
    <3> HIDE DEF left, down, up, y
    <3> QED BY <3>1, <3>2
  <2>3. y \in down <=> z \in word
    <3>1. word \in SUBSET Int
      BY <1>3
    <3> HIDE DEF word, y
    <3> QED BY <1>1, <2>1, <3>1, Moves
  <2>4. y \in up <=> y - (all - sh) \in src[x + WordBytes]
    <3> DEFINE t == all - sh
               S == src[x + WordBytes]
    <3>1. t \in Nat /\ S \in SUBSET Int
      <4> HIDE DEF all, cw
      <4> QED BY <1>1, <1>2
    <3> HIDE DEF t, S, y
    <3>2. y \in Shl(S, t) <=> y - t \in S
      BY <2>1, <3>1, Moves
    <3> QED BY <3>2 DEF t, S
  <2>5. b \in right <=> b + sh \in src[x + c] \/ b - (W - sh) \in src[x + c + 1]
    <3>1. b \in right <=> b \in Shr(src[x + c], sh) \/ b \in Shl(src[x + c + 1], W - sh)
      <4>1. sh # 0
        OBVIOUS
      <4> QED BY <1>2, <4>1 DEF Straddle, AsByte, Low
    <3> DEFINE S == src[x + c]
               V == src[x + c + 1]
               t == W - sh
    <3>2. S \in SUBSET Int /\ V \in SUBSET Int /\ t \in Nat
      BY <1>2
    <3> HIDE DEF S, V, t
    <3>3. (b \in Shr(S, sh) <=> b + sh \in S) /\ (b \in Shl(V, t) <=> b - t \in V)
      BY <1>1, <2>1, <3>2, Moves
    <3> HIDE DEF right
    <3> QED BY <3>1, <3>3 DEF S, V, t
  <2> HIDE DEF left, right, down, up
  <2>6. CASE b + sh < W
    <3>1. b + sh \in 0..W-1 /\ z = c * W + (b + sh)
      BY <1>1, <2>1, <2>6
    <3>2. z \in word <=> b + sh \in src[x + c]
      <4> DEFINE e == b + sh
      <4>1. e \in 0..W-1 /\ z = c * W + e
        BY <3>1
      <4> HIDE DEF e, z
      <4>2. c * W + e \in word <=> c < WordBytes /\ e \in src[x + c]
        BY <1>1, <1>2, <4>1, WordHas
      <4> HIDE DEF word
      <4> QED BY <1>1, <4>1, <4>2 DEF e
    <3>3. ~(b - (W - sh) \in src[x + c + 1])
      <4> DEFINE V == src[x + c + 1]
                 v == b - (W - sh)
      <4>1. V \in SUBSET (0..W-1) /\ v \in Int /\ v < 0
        BY <1>2, <2>6
      <4> HIDE DEF V, v
      <4> QED BY <4>1 DEF V, v
    <3>4. ~(y - (all - sh) \in src[x + WordBytes])
      <4>1. y - (all - sh) < 0 /\ y - (all - sh) \in Int
        <5> HIDE DEF all, cw
        <5> QED BY <1>1, <2>1, <2>6
      <4> HIDE DEF y, all
      <4> QED BY <1>2, <4>1
    <3> HIDE DEF word, y, z, all
    <3> QED BY <2>2, <2>3, <2>4, <2>5, <3>2, <3>3, <3>4
  <2>7. CASE ~(b + sh < W)
    <3> DEFINE e == b + sh - W
               k == c + 1
    <3>1. e \in 0..W-1 /\ z = k * W + e /\ b - (W - sh) = e /\ k \in Nat
      <4>1. k * W = cw + W
        BY <1>1
      <4> HIDE DEF cw, k
      <4> QED BY <1>1, <2>1, <2>7, <4>1 DEF k
    <3>2. z \in word <=> k < WordBytes /\ e \in src[x + k]
      <4> HIDE DEF e, z, k
      <4>2. k * W + e \in word <=> k < WordBytes /\ e \in src[x + k]
        BY <1>1, <1>2, <3>1, WordHas
      <4> HIDE DEF word
      <4> QED BY <3>1, <4>2
    <3>3. ~(b + sh \in src[x + c])
      BY <1>2, <2>7
    <3>4. y - (all - sh) \in src[x + WordBytes] <=> k = WordBytes /\ e \in src[x + k]
      <4>1. CASE k = WordBytes
        <5>1. all = cw + W /\ src[x + WordBytes] = src[x + k]
          BY <1>1, <4>1
        <5>2. y - (all - sh) = e
          <6> HIDE DEF all, cw
          <6> QED BY <1>1, <2>1, <5>1
        <5> HIDE DEF y, all, e, k
        <5> QED BY <4>1, <5>1, <5>2
      <4>2. CASE k # WordBytes
        <5>1. cw + W + W <= all
          <6>1. c + 2 \in Nat /\ c + 2 <= WordBytes
            BY <1>1, <4>2
          <6>2. (c + 2) * W <= all /\ (c + 2) * W = cw + 2 * W
            BY <1>1, <6>1, MultiplesOrdered
          <6> HIDE DEF all, cw
          <6> QED BY <1>1, <6>2
        <5>2. y - (all - sh) < 0 /\ y - (all - sh) \in Int
          <6> HIDE DEF all, cw
          <6> QED BY <1>1, <2>1, <5>1
        <5> HIDE DEF y, all
        <5> QED BY <1>2, <4>2, <5>2
      <4> QED BY <4>1, <4>2
    <3>5. k < WordBytes \/ k = WordBytes
      BY <1>1
    <3>6. src[x + k] = src[x + c + 1]
      <4>1. x + k = x + c + 1
        BY <1>1
      <4> QED BY <4>1
    <3> HIDE DEF word, y, z, all, e, k
    <3> QED BY <2>2, <2>3, <2>4, <2>5, <3>1, <3>2, <3>3, <3>4, <3>5, <3>6
  <2> QED BY <2>6, <2>7
<1>7. left \subseteq 0..W-1 /\ right \subseteq 0..W-1
  BY DEF AsByte, Low, Straddle
<1>8. AsByte(Shr(JoinedWord(src, x, sh), c * W)) = left
  BY DEF JoinedWord
<1> HIDE DEF left, right
<1>9. left = right
  BY <1>6, <1>7
<1> QED BY <1>8, <1>9 DEF right

(* The word a byte is in lies within the words.                            *)
LEMMA WordOf ==
  ASSUME NEW k \in Nat, NEW words \in Nat, k < words * WordBytes
  PROVE  LET i == (k \div WordBytes) * WordBytes
         IN i \in Nat /\ k - i \in 0..WordBytes-1 /\ i + WordBytes <= words * WordBytes
<1> DEFINE q == k \div WordBytes
           r == k % WordBytes
           i == q * WordBytes
           lw == words * WordBytes
<1>1. q \in Nat /\ r \in 0..WordBytes-1 /\ WordBytes \in Nat /\ k = WordBytes * q + r
  OBVIOUS
<1> HIDE DEF q, r
<1>2. i \in Nat /\ k = i + r /\ lw \in Nat
  <2>1. WordBytes * q = q * WordBytes /\ q * WordBytes \in Nat /\ words * WordBytes \in Nat
    BY <1>1
  <2> QED BY <1>1, <2>1
<1>3. q < words
  <2> SUFFICES ASSUME ~(q < words) PROVE FALSE
    OBVIOUS
  <2> DEFINE d == q - words
  <2>1. d \in Nat /\ q = words + d
    BY <1>1
  <2> HIDE DEF d
  <2>2. d * WordBytes \in Nat
    BY <1>1, <2>1
  <2>3. (words + d) * WordBytes = words * WordBytes + d * WordBytes
    BY <1>1, <2>1
  <2>4. i = lw + d * WordBytes
    BY <2>1, <2>3
  <2>5. k < lw
    OBVIOUS
  <2> HIDE DEF i, lw
  <2> QED BY <1>1, <1>2, <2>2, <2>4, <2>5
<1>4. i + WordBytes <= lw
  <2> DEFINE d == words - q - 1
  <2>1. d \in Nat /\ words = (q + 1) + d
    BY <1>1, <1>3
  <2> HIDE DEF d
  <2>2. d * WordBytes \in Nat
    BY <1>1, <2>1
  <2>3. ((q + 1) + d) * WordBytes = q * WordBytes + WordBytes + d * WordBytes
    BY <1>1, <2>1
  <2>4. lw = i + WordBytes + d * WordBytes
    BY <2>1, <2>3
  <2> HIDE DEF i, lw
  <2> QED BY <1>1, <1>2, <2>2, <2>4
<1>5. k - i \in 0..WordBytes-1
  <2> HIDE DEF i
  <2> QED BY <1>1, <1>2
<1> QED BY <1>2, <1>4, <1>5 DEF q

(* slice_clone copies the window.                                          *)
LEMMA SliceCloneAt ==
  ASSUME NEW m, Row(m), NEW off \in Nat, NEW n \in Nat, off + n <= m.len
  PROVE  /\ m.len \in Nat /\ Row(SliceClone(m, off, n)) /\ SliceClone(m, off, n).len = n
         /\ \A i \in 0..n-1 : BitAt(SliceClone(m, off, n).bytes, i) <=> BitAt(m.bytes, off + i)
<1> DEFINE lo == off \div W
           sh == off % W
           size == BytesFor(off + n) - lo
           need == BytesFor(n)
           src == [k \in 0..size-1 |-> m.bytes[lo + k]]
           words == IF size <= WordBytes THEN 0 ELSE (size - 1) \div WordBytes
           lw == words * WordBytes
           first(k) == (k \div WordBytes) * WordBytes
           copied(k) == IF sh # 0 /\ k < lw THEN AsByte(Shr(JoinedWord(src, first(k), sh), (k - first(k)) * W))
                        ELSE Straddle(src, k, sh)
           bytes == [k \in 0..need-1 |-> copied(k)]
           x == SliceClone(m, off, n)
<1>1. /\ m.len \in Nat /\ DOMAIN m.bytes = 0..BytesFor(m.len)-1
      /\ \A k \in 0..BytesFor(m.len)-1 : m.bytes[k] \in Byte
  BY RawParts DEF Row
<1>2. lo \in Nat /\ lo * W \in Nat /\ sh \in 0..W-1 /\ off = lo * W + sh /\ need \in Nat
  BY WholeAndRest, BytesForHolds
<1>3. size \in Nat /\ need <= size /\ lo + size <= BytesFor(m.len) /\ lo + size = BytesFor(off + n)
  <2> DEFINE low == n + lo * W
             end == off + n
             len == m.len
  <2>1. low \in Nat /\ low <= end /\ len \in Nat /\ end \in Nat /\ end <= len
    <3> HIDE DEF lo, sh
    <3> QED BY <1>1, <1>2
  <2>2. BytesFor(low) = need + lo
    <3> HIDE DEF lo
    <3> QED BY <1>2, BytesForGrows
  <2> HIDE DEF low, len, end
  <2>3. BytesFor(low) <= BytesFor(end) /\ BytesFor(end) <= BytesFor(len) /\ BytesFor(end) \in Nat
    BY <2>1, BytesForGrows, BytesForHolds
  <2>4. size = BytesFor(end) - lo
    BY DEF end
  <2> HIDE DEF size, lo, need
  <2>5. size \in Nat /\ need <= size /\ lo + size <= BytesFor(len) /\ lo + size = BytesFor(end)
    <3>1. BytesFor(len) \in Nat
      BY <2>1, BytesForHolds
    <3> QED BY <1>2, <2>2, <2>3, <2>4, <3>1
  <2> QED BY <2>5 DEF len, end
<1> HIDE DEF lo, sh, size, need
<1>4. src \in Buffers(size) /\ Size(src) = size /\ DOMAIN src = 0..size-1
  <2>1. \A k \in 0..size-1 : lo + k \in 0..BytesFor(m.len)-1
    <3>1. BytesFor(m.len) \in Nat
      BY <1>1, BytesForHolds
    <3> QED BY <1>2, <1>3, <3>1
  <2>2. \A k \in 0..size-1 : m.bytes[lo + k] \in Byte
    BY <1>1, <2>1
  <2>3. Size(src) = size
    BY <1>3, SizeIs
  <2> QED BY <2>2, <2>3 DEF Buffers
<1>5. x = MaskTrailing(New(bytes, n))
  <2> DEFINE s == [k \in 0..BytesFor(off + n) - (off \div W) - 1 |-> m.bytes[off \div W + k]]
             w == IF Size(s) <= WordBytes THEN 0 ELSE (Size(s) - 1) \div WordBytes
             by(k) == AsByte(Shr(JoinedWord(s, first(k), off % W), (k - first(k)) * W))
             c(k) == IF off % W # 0 /\ k < w * WordBytes THEN by(k) ELSE Straddle(s, k, off % W)
  <2>1. x = MaskTrailing(New([k \in 0..BytesFor(n)-1 |-> c(k)], n))
    BY DEF SliceClone
  <2>2. s = src
    BY DEF size, lo
  <2>3. w = words
    BY <1>4, <2>2
  <2>4. off % W = sh /\ BytesFor(n) = need
    BY DEF sh, need
  <2> HIDE DEF s, w, src, words, x, first
  <2>5. [k \in 0..BytesFor(n)-1 |-> c(k)] = bytes
    BY <2>2, <2>3, <2>4
  <2> QED BY <2>1, <2>5
<1>6. words \in Nat /\ (lw = 0 \/ lw < size)
  <2>1. CASE size <= WordBytes
    <3>1. words = 0
      BY <2>1
    <3> HIDE DEF words
    <3> QED BY <3>1
  <2>2. CASE ~(size <= WordBytes)
    <3> DEFINE z == size - 1
    <3>1. z \in Nat /\ words = z \div WordBytes /\ z < size
      BY <1>3, <2>2
    <3> HIDE DEF words, z
    <3>2. words \in Nat /\ z % WordBytes \in Nat /\ z = WordBytes * words + (z % WordBytes)
      BY <3>1
    <3>3. WordBytes * words = lw /\ lw \in Nat
      BY <3>2
    <3> HIDE DEF lw
    <3> QED BY <1>3, <3>1, <3>2, <3>3
  <2> QED BY <2>1, <2>2
<1> HIDE DEF src, words, first, x
<1>7. \A k \in 0..need-1 : copied(k) = Straddle(src, k, sh)
  <2> TAKE k \in 0..need-1
  <2>1. CASE sh # 0 /\ k < lw
    <3> DEFINE i == first(k)
               c == k - i
    <3>1. i \in Nat /\ c \in 0..WordBytes-1 /\ i + WordBytes <= lw
      <4>1. k \in Nat /\ words \in Nat /\ k < words * WordBytes
        BY <1>2, <1>6, <2>1
      <4>2. /\ (k \div WordBytes) * WordBytes \in Nat /\ k - (k \div WordBytes) * WordBytes \in 0..WordBytes-1
            /\ (k \div WordBytes) * WordBytes + WordBytes <= words * WordBytes
        BY ONLY <4>1, WordOf
      <4> QED BY <4>2 DEF first
    <3> HIDE DEF i
    <3>2. i + WordBytes < size /\ sh \in 1..W-1 /\ i + c = k /\ size \in Nat
      <4>1. lw \in Nat
        BY <1>6
      <4> HIDE DEF lw
      <4> QED BY <1>2, <1>3, <1>6, <2>1, <3>1, <4>1
    <3> HIDE DEF c
    <3>3. AsByte(Shr(JoinedWord(src, i, sh), c * W)) = Straddle(src, i + c, sh)
      BY <1>4, <3>1, <3>2, JoinedByte
    <3>4. copied(k) = AsByte(Shr(JoinedWord(src, i, sh), c * W))
      BY <2>1 DEF i, c
    <3> HIDE DEF copied
    <3> QED BY <3>2, <3>3, <3>4
  <2>2. CASE ~(sh # 0 /\ k < lw)
    BY <2>2
  <2> QED BY <2>1, <2>2
<1> HIDE DEF copied
<1>8. bytes \in Packed(n) /\ \A k \in 0..need-1 : bytes[k] = Straddle(src, k, sh)
  <2>1. \A k : Straddle(src, k, sh) \in Byte
    BY DEF Straddle, AsByte, Low, Byte
  <2> QED BY <1>7, <2>1 DEF Packed, need
<1> HIDE DEF bytes
<1>9. ASSUME NEW i \in 0..n-1 PROVE BitAt(bytes, i) <=> BitAt(m.bytes, off + i)
  <2> DEFINE k == i \div W
             b == i % W
             p == k * W + sh + b
             q == p \div W
             r == p % W
  <2>1. k \in 0..need-1 /\ k \in Nat /\ b \in 0..W-1 /\ i = k * W + b /\ k * W \in Nat /\ i \in Nat
    <3>1. i \in Nat
      OBVIOUS
    <3>2. /\ i \div W \in 0..BytesFor(n)-1 /\ i % W \in 0..W-1
          /\ i = (i \div W) * W + (i % W) /\ (i \div W) * W \in Nat
      BY PlaceWithin
    <3>3. i \div W \in Nat
      BY <3>1, WholeAndRest
    <3> QED BY <3>1, <3>2, <3>3 DEF need
  <2>2. BitAt(bytes, i) <=> b \in bytes[k]
    BY DEF BitAt
  <2> HIDE DEF k, b
  <2>3. p \in Nat /\ off + i = lo * W + p
    <3> DEFINE kw == k * W
               low == lo * W
    <3>1. kw \in Nat /\ low \in Nat /\ i = kw + b /\ off = low + sh /\ p = kw + sh + b
      BY <1>2, <2>1
    <3> HIDE DEF kw, low, p
    <3> QED BY <1>2, <2>1, <3>1 DEF low
  <2>4. k \in 0..size-1
    BY <1>2, <1>3, <2>1
  <2>5. b \in Straddle(src, k, sh) <=> q \in 0..size-1 /\ BitAt(src, p)
    BY <1>2, <1>3, <1>4, <2>1, <2>4, StraddleAt
  <2> HIDE DEF p
  <2>6. (off + i) \div W = lo + q /\ (off + i) % W = r /\ q \in Nat
    <3>1. (lo * W + p) \div W = lo + q /\ (lo * W + p) % W = r /\ q \in Nat
      BY <1>2, <2>3, PlaceMoves
    <3> HIDE DEF q, r
    <3> QED BY <2>3, <3>1
  <2>7. q \in 0..size-1
    <3> DEFINE end == off + n
               y == off + i
    <3>1. end \in Nat /\ y \in 0..end-1
      BY <2>1
    <3>2. y \div W = lo + q /\ lo + size = BytesFor(end)
      BY <1>3, <2>6
    <3> HIDE DEF end, y, q
    <3>3. y \div W \in 0..BytesFor(end)-1
      BY <3>1, PlaceWithin
    <3> QED BY <1>2, <1>3, <2>6, <3>2, <3>3
  <2>8. BitAt(src, p) <=> r \in m.bytes[lo + q]
    <3>1. src[q] = m.bytes[lo + q]
      <4> HIDE DEF q
      <4> QED BY <2>7 DEF src
    <3> QED BY <3>1 DEF BitAt
  <2>9. BitAt(m.bytes, off + i) <=> r \in m.bytes[lo + q]
    <3> HIDE DEF q, r
    <3> QED BY <2>6 DEF BitAt
  <2> HIDE DEF q, r
  <2> QED BY <1>8, <2>1, <2>2, <2>5, <2>7, <2>8, <2>9
<1>10. Row(x) /\ x.len = n /\ \A i \in 0..n-1 : BitAt(x.bytes, i) <=> BitAt(bytes, i)
  BY <1>5, <1>8, MaskTrailingRow, MaskTrailingAt
<1> QED BY <1>1, <1>9, <1>10 DEF x

-----------------------------------------------------------------------------
(* Bits counted                                                            *)

(* A mask of the bits of a mask is that mask.                              *)
LEMMA FromBoolsIs == ASSUME NEW m, Row(m) PROVE FromBools(Bits(m)) = m
<1> DEFINE n == m.len
           bits == Bits(m)
           f == [k \in 0..BytesFor(n)-1 |-> {b \in 0..W-1 : k * W + b < n /\ bits[k * W + b]}]
<1>1. /\ n \in Nat /\ m = New(m.bytes, n) /\ DOMAIN m.bytes = 0..BytesFor(n)-1
      /\ m.bytes = [k \in 0..BytesFor(n)-1 |-> m.bytes[k]]
      /\ \A k \in 0..BytesFor(n)-1 : m.bytes[k] \subseteq 0..W-1
  <2>1. n \in Nat /\ m = New(m.bytes, n) /\ m.bytes \in [0..BytesFor(n)-1 -> Byte]
    BY DEF Row, Raw, Packed
  <2> HIDE DEF n
  <2> QED BY <2>1 DEF Byte
<1>2. LenOf(m) = n /\ \A i \in 0..n-1 : bits[i] <=> BitAt(m.bytes, i)
  BY BitsAt
<1>3. Size(bits) = n
  <2>1. DOMAIN bits = 0..n-1
    BY <1>2 DEF Bits
  <2> HIDE DEF bits, n
  <2> QED BY <1>1, <2>1, SizeIs
<1>4. FromBools(bits) = MaskTrailing(New(f, n))
  BY <1>3 DEF FromBools
<1> HIDE DEF bits
<1>5. ASSUME NEW k \in 0..BytesFor(n)-1 PROVE {b \in 0..W-1 : k * W + b < n /\ bits[k * W + b]} = m.bytes[k]
  <2>1. m.bytes[k] \subseteq {b \in 0..W-1 : k * W + b < n}
    BY RowInside DEF Inside
  <2>2. k \in Nat /\ k * W \in Nat
    <3>1. BytesFor(n) \in Nat
      BY <1>1, BytesForHolds
    <3>2. k \in Nat
      BY <3>1
    <3> QED BY <3>2, MultiplesOrdered
  <2>3. ASSUME NEW b \in 0..W-1, k * W + b < n PROVE bits[k * W + b] <=> b \in m.bytes[k]
    <3> DEFINE i == k * W + b
    <3>1. i \in 0..n-1
      BY <1>1, <2>2, <2>3
    <3>2. i \div W = k /\ i % W = b
      BY <2>2, PlaceIs
    <3> HIDE DEF i, n
    <3>3. bits[i] <=> BitAt(m.bytes, i)
      BY <1>2, <3>1
    <3> QED BY <3>2, <3>3 DEF BitAt, i
  <2> HIDE DEF n
  <2> QED BY <2>1, <2>3
<1>6. f = m.bytes
  <2> HIDE DEF n
  <2> QED BY <1>1, <1>5
<1>7. MaskTrailing(New(f, n)) = m
  <2> HIDE DEF f, n
  <2> QED BY <1>1, <1>6, RowIsMasked
<1> QED BY <1>4, <1>7 DEF bits

(* The bits of a byte that are within the length: all of them, or those of *)
(* the last byte.                                                          *)
LEMMA InsideIs ==
  ASSUME NEW n \in Nat, NEW k \in 0..BytesFor(n)-1
  PROVE  /\ k \in Nat /\ Inside(k, n) = IF k < n \div W THEN Low(W) ELSE Low(n % W)
<1> DEFINE q == n \div W
           r == n % W
           kw == k * W
           qw == q * W
<1>1. q \in Nat /\ r \in 0..W-1 /\ qw \in Nat /\ n = qw + r /\ k \in Nat /\ kw \in Nat
      /\ (r = 0 => k < q) /\ (r # 0 => k <= q)
  <2>1. BytesFor(n) \in Nat
    BY BytesForHolds
  <2>2. k \in Nat
    BY <2>1
  <2>3. kw \in Nat
    BY <2>2, MultiplesOrdered
  <2>4. q \in Nat /\ r \in 0..W-1 /\ qw \in Nat /\ n = qw + r
    BY WholeAndRest
  <2>5. (r = 0 => BytesFor(n) = q) /\ (r # 0 => BytesFor(n) = q + 1)
    BY BytesForSplits
  <2> HIDE DEF q, r, kw, qw
  <2> QED BY <2>1, <2>2, <2>3, <2>4, <2>5
<1>2. Inside(k, n) = {b \in 0..W-1 : kw + b < n}
  BY DEF Inside
<1>3. CASE k < q
  <2>1. kw + W <= qw
    <3>1. k + 1 \in Nat /\ k + 1 <= q
      BY <1>1, <1>3
    <3>2. (k + 1) * W <= q * W /\ (k + 1) * W = k * W + W
      <4> HIDE DEF q
      <4> QED BY <1>1, <3>1, MultiplesOrdered
    <3> QED BY <3>2
  <2> HIDE DEF q, kw, qw, r
  <2>2. \A b \in 0..W-1 : kw + b < n
    BY <1>1, <2>1
  <2> QED BY <1>1, <1>2, <1>3, <2>2 DEF Low, q
<1>4. CASE ~(k < q)
  <2>1. k = q /\ r # 0
    BY <1>1, <1>4
  <2>2. kw = qw
    BY <2>1
  <2> HIDE DEF q, kw, qw, r
  <2>3. \A b \in 0..W-1 : kw + b < n <=> b < r
    BY <1>1, <2>2
  <2>4. {b \in 0..W-1 : kw + b < n} = 0..r-1
    BY <1>1, <2>3
  <2> QED BY <1>1, <1>2, <1>4, <2>4 DEF Low, q, r
<1> QED BY <1>3, <1>4

(* The bytes cut to the length have its bits and no others.                *)
LEMMA CutAt ==
  ASSUME NEW n \in Nat, NEW bytes, \A k \in 0..BytesFor(n)-1 : bytes[k] \in Byte
  PROVE  /\ CutBytes(New(bytes, n)) \in Buffers(BytesFor(n))
         /\ \A k \in 0..BytesFor(n)-1 : CutBytes(New(bytes, n))[k] = bytes[k] \cap Inside(k, n)
         /\ \A i \in Nat : i \div W < BytesFor(n) => (BitAt(CutBytes(New(bytes, n)), i) <=> i < n /\ BitAt(bytes, i))
<1> DEFINE c == CutBytes(New(bytes, n))
           size == BytesFor(n)
<1>1. c = [k \in 0..size-1 |-> IF k < n \div W THEN bytes[k] ELSE bytes[k] \cap Low(n % W)]
  BY DEF CutBytes, New
<1>2. \A k \in 0..size-1 : (IF k < n \div W THEN bytes[k] ELSE bytes[k] \cap Low(n % W)) = bytes[k] \cap Inside(k, n)
  <2> TAKE k \in 0..size-1
  <2>1. Inside(k, n) = IF k < n \div W THEN Low(W) ELSE Low(n % W)
    BY InsideIs
  <2>2. bytes[k] \subseteq Low(W)
    BY DEF Byte, Low
  <2> QED BY <2>1, <2>2
<1> HIDE DEF c
<1>3. \A k \in 0..size-1 : c[k] = bytes[k] \cap Inside(k, n)
  BY <1>1, <1>2
<1>4. c \in Buffers(size)
  <2>1. \A k \in 0..size-1 : bytes[k] \cap Inside(k, n) \in Byte
    BY DEF Byte
  <2>2. c = [k \in 0..size-1 |-> bytes[k] \cap Inside(k, n)]
    BY <1>1, <1>2
  <2> QED BY <2>1, <2>2 DEF Buffers
<1>5. ASSUME NEW i \in Nat, i \div W < size PROVE BitAt(c, i) <=> i < n /\ BitAt(bytes, i)
  <2> DEFINE k == i \div W
             b == i % W
  <2>1. k \in Nat /\ b \in 0..W-1 /\ k * W \in Nat /\ i = k * W + b
    BY WholeAndRest
  <2>2. k \in 0..size-1
    BY <1>5, <2>1, BytesForHolds
  <2>3. b \in Inside(k, n) <=> i < n
    <3>1. b \in Inside(k, n) <=> k * W + b < n
      BY <2>1 DEF Inside
    <3> HIDE DEF k, b
    <3> QED BY <2>1, <3>1
  <2> HIDE DEF size
  <2> QED BY <1>3, <2>2, <2>3 DEF BitAt
<1> QED BY <1>3, <1>4, <1>5 DEF c

(* The bits of a row below a byte.                                         *)
OnesBelow(bytes, k) == {i \in 0..k * W - 1 : BitAt(bytes, i)}

(* One more byte adds its bits to the count.                               *)
LEMMA OneMoreByte ==
  ASSUME NEW size \in Nat, NEW bytes \in Buffers(size), NEW k \in 0..size-1
  PROVE  /\ IsFiniteSet(OnesBelow(bytes, k)) /\ Cardinality(OnesBelow(bytes, k)) \in Nat
         /\ Cardinality(bytes[k]) \in Nat
         /\ Cardinality(OnesBelow(bytes, k + 1)) = Cardinality(OnesBelow(bytes, k)) + Cardinality(bytes[k])
<1> DEFINE kw == k * W
           S == bytes[k]
           T == {kw + b : b \in S}
           low == OnesBelow(bytes, k)
           f == [b \in S |-> kw + b]
<1>1. k \in Nat /\ kw \in Nat /\ (k + 1) * W = kw + W /\ S \in SUBSET (0..W-1)
  BY MultiplesOrdered DEF Buffers, Byte
<1>2. IsFiniteSet(low) /\ IsFiniteSet(S) /\ Cardinality(low) \in Nat /\ Cardinality(S) \in Nat
  <2>1. low \in SUBSET (0..kw-1)
    BY DEF OnesBelow
  <2> HIDE DEF low, S, kw
  <2>2. IsFiniteSet(0..kw-1) /\ IsFiniteSet(0..W-1)
    <3>1. kw - 1 \in Int /\ W - 1 \in Int /\ 0 \in Int
      BY <1>1
    <3>2. IsFiniteSet(0..kw-1)
      BY <3>1, FS_Interval
    <3>3. IsFiniteSet(0..W-1)
      BY <3>1, FS_Interval
    <3> QED BY <3>2, <3>3
  <2>3. IsFiniteSet(low) /\ IsFiniteSet(S)
    BY <1>1, <2>1, <2>2, FS_Subset
  <2> QED BY <2>3, FS_CardinalityType
<1>3. IsFiniteSet(T) /\ Cardinality(T) = Cardinality(S)
  <2> HIDE DEF kw, S
  <2>1. f \in [S -> T]
    OBVIOUS
  <2>2. \A a, b \in S : f[a] = f[b] => a = b
    BY <1>1
  <2>3. \A t \in T : \E b \in S : f[b] = t
    OBVIOUS
  <2>4. f \in Bijection(S, T)
    BY <2>1, <2>2, <2>3 DEF Bijection, Injection, Surjection, IsInjective
  <2>5. ExistsBijection(S, T)
    BY <2>4 DEF ExistsBijection
  <2> HIDE DEF T
  <2> QED BY <1>2, <2>5, FS_Bijection
<1>4. \A i \in kw..kw+W-1 : BitAt(bytes, i) <=> i - kw \in S
  <2> TAKE i \in kw..kw+W-1
  <2> DEFINE b == i - kw
  <2>1. b \in 0..W-1 /\ i = kw + b
    <3> HIDE DEF kw
    <3> QED BY <1>1
  <2> HIDE DEF b
  <2>2. i \div W = k /\ i % W = b
    <3>1. (k * W + b) \div W = k /\ (k * W + b) % W = b
      BY <1>1, <2>1, PlaceIs
    <3> QED BY <2>1, <3>1
  <2>3. BitAt(bytes, i) <=> b \in S
    BY <2>2 DEF BitAt
  <2> QED BY <2>3 DEF b
<1>5. OnesBelow(bytes, k + 1) = low \cup T /\ low \cap T = {}
  <2>1. OnesBelow(bytes, k + 1) = {i \in 0..kw + W - 1 : BitAt(bytes, i)}
    BY <1>1 DEF OnesBelow
  <2>2. low = {i \in 0..kw-1 : BitAt(bytes, i)}
    BY DEF OnesBelow
  <2> HIDE DEF kw, S, low
  <2>3. \A i \in kw..kw+W-1 : BitAt(bytes, i) <=> i \in T
    <3> TAKE i \in kw..kw+W-1
    <3>1. i \in T <=> i - kw \in S
      <4>1. ASSUME NEW b \in S, i = kw + b PROVE i - kw = b
        BY <1>1, <4>1
      <4>2. i = kw + (i - kw)
        BY <1>1
      <4> QED BY <4>1, <4>2
    <3> QED BY <1>4, <3>1
  <2>4. T \subseteq kw..kw+W-1
    BY <1>1
  <2> HIDE DEF T
  <2>5. low \cap T = {}
    BY <1>1, <2>2, <2>4
  <2>6. \A i : i \in 0..kw+W-1 <=> i \in 0..kw-1 \/ i \in kw..kw+W-1
    BY <1>1
  <2>7. {i \in 0..kw + W - 1 : BitAt(bytes, i)} = low \cup T
    BY <2>2, <2>3, <2>4, <2>6
  <2> QED BY <2>1, <2>5, <2>7
<1> HIDE DEF low, S, T
<1>6. Cardinality(low \cup T) = Cardinality(low) + Cardinality(T) - Cardinality(low \cap T)
  BY <1>2, <1>3, FS_Union
<1>7. Cardinality(OnesBelow(bytes, k + 1)) = Cardinality(low) + Cardinality(S)
  <2>1. Cardinality(low \cap T) = 0
    BY <1>5, FS_EmptySet
  <2> DEFINE a == Cardinality(low)
             b == Cardinality(S)
  <2>2. a \in Nat /\ b \in Nat /\ Cardinality(low \cup T) = a + b - 0
    BY <1>2, <1>3, <1>6, <2>1
  <2>3. Cardinality(OnesBelow(bytes, k + 1)) = Cardinality(low \cup T)
    BY <1>5
  <2> HIDE DEF a, b
  <2>4. Cardinality(low \cup T) = a + b
    BY <2>2
  <2> QED BY <2>3, <2>4 DEF a, b
<1> QED BY <1>2, <1>7 DEF low, S

(* The bits of every byte added up are the bits of the row.                *)
LEMMA OnesInIs ==
  ASSUME NEW size \in Nat, NEW bytes \in Buffers(size)
  PROVE  OnesIn(bytes) = Cardinality(OnesBelow(bytes, size))
<1> DEFINE card(k) == Cardinality(OnesBelow(bytes, k))
           more(k) == Cardinality(bytes[k])
           R(g) == g = [k \in 0..size |-> IF k = 0 THEN 0 ELSE g[k - 1] + more(k - 1)]
           upTo == CHOOSE g : R(g)
<1>1. Size(bytes) = size
  BY SizeIs DEF Buffers
<1>2. OnesIn(bytes) = upTo[size]
  BY <1>1 DEF OnesIn
<1>3. card(0) = 0
  <2>1. OnesBelow(bytes, 0) = {}
    BY DEF OnesBelow
  <2> QED BY <2>1, FS_EmptySet
<1>4. \A k \in 0..size-1 : card(k + 1) = card(k) + more(k)
  BY OneMoreByte
<1> HIDE DEF card, more
<1>5. R(upTo)
  <2> DEFINE g == [k \in 0..size |-> card(k)]
  <2>1. \A k \in 0..size : g[k] = IF k = 0 THEN 0 ELSE g[k - 1] + more(k - 1)
    <3> TAKE k \in 0..size
    <3>1. CASE k = 0
      BY <1>3, <3>1
    <3>2. CASE k # 0
      <4>1. k - 1 \in 0..size-1 /\ k - 1 \in 0..size /\ (k - 1) + 1 = k
        BY <3>2
      <4>2. card((k - 1) + 1) = card(k - 1) + more(k - 1)
        BY <1>4, <4>1
      <4>3. card(k) = card(k - 1) + more(k - 1)
        BY <4>1, <4>2
      <4> QED BY <3>2, <4>1, <4>3
    <3> QED BY <3>1, <3>2
  <2>2. g = [k \in 0..size |-> g[k]]
    OBVIOUS
  <2> HIDE DEF g
  <2>3. R(g)
    BY <2>1, <2>2
  <2> HIDE DEF R
  <2> QED BY <2>3
<1> HIDE DEF upTo
<1> DEFINE T == {k \in Nat : k <= size => upTo[k] = card(k)}
<1>6. 0 \in T
  BY <1>3, <1>5
<1>7. ASSUME NEW k \in Nat, k \in T PROVE k + 1 \in T
  <2> SUFFICES ASSUME k + 1 <= size PROVE upTo[k + 1] = card(k + 1)
    OBVIOUS
  <2>1. k + 1 \in 0..size /\ k + 1 # 0 /\ (k + 1) - 1 = k /\ k \in 0..size-1 /\ k <= size
    OBVIOUS
  <2>2. upTo[k + 1] = upTo[k] + more(k)
    BY <1>5, <2>1
  <2>3. upTo[k] = card(k)
    BY <1>7, <2>1
  <2> QED BY <1>4, <2>1, <2>2, <2>3
<1>8. size \in T
  <2> HIDE DEF T
  <2> QED BY <1>6, <1>7, Induction
<1> QED BY <1>2, <1>8 DEF card

(* count_ones, all_true and all_false see the bits below the length.       *)
LEMMA CountsAt ==
  ASSUME NEW n \in Nat, NEW bytes, \A k \in 0..BytesFor(n)-1 : bytes[k] \in Byte,
         NEW ones, ones = {i \in 0..n-1 : BitAt(bytes, i)}
  PROVE  /\ CountOnes(New(bytes, n)) = Cardinality(ones)
         /\ Every(New(bytes, n), TRUE) <=> ones = 0..n-1
         /\ Every(New(bytes, n), FALSE) <=> ones = {}
<1> DEFINE m == New(bytes, n)
           c == CutBytes(m)
           size == BytesFor(n)
           sw == size * W
<1>1. size \in Nat /\ sw \in Nat /\ n <= sw
  BY BytesForHolds
<1>2. /\ c \in Buffers(size)
      /\ \A k \in 0..size-1 : c[k] = bytes[k] \cap Inside(k, n)
      /\ \A i \in Nat : i \div W < size => (BitAt(c, i) <=> i < n /\ BitAt(bytes, i))
  BY CutAt
<1>3. m.view = {} /\ m.len = n
  BY DEF New
<1>4. DOMAIN c = 0..size-1
  BY <1>3 DEF CutBytes
<1>5. \A i \in 0..sw-1 : i \in Nat /\ i \div W < size
  <2> TAKE i \in 0..sw-1
  <2>1. i \in Nat /\ i < sw
    BY <1>1
  <2>2. i \div W \in Nat /\ (size <= i \div W <=> size * W <= i)
    BY <1>1, <2>1, PlaceOrder, WholeAndRest
  <2> DEFINE k == i \div W
  <2>3. k \in Nat /\ (size <= k <=> sw <= i)
    BY <2>2
  <2> HIDE DEF k, size, sw
  <2> QED BY <1>1, <2>1, <2>3 DEF k
<1>6. OnesBelow(c, size) = {i \in 0..sw-1 : BitAt(c, i)}
  BY DEF OnesBelow
<1>7. CountOnes(m) = OnesIn(c)
  BY <1>3 DEF CountOnes
<1>8. OnesIn(c) = Cardinality(OnesBelow(c, size))
  BY <1>1, <1>2, OnesInIs
<1>9. Every(m, TRUE) <=> \A k \in 0..size-1 : c[k] = Inside(k, n)
  <2>1. Every(m, TRUE) <=> \A k \in DOMAIN c : c[k] = IF k < n \div W THEN Low(W) ELSE Low(n % W)
    BY <1>3 DEF Every
  <2>2. \A k \in 0..size-1 : Inside(k, n) = IF k < n \div W THEN Low(W) ELSE Low(n % W)
    BY InsideIs
  <2> QED BY <1>4, <2>1, <2>2, Zenon
<1>10. Every(m, FALSE) <=> \A k \in 0..size-1 : c[k] = {}
  <2>1. Every(m, FALSE) <=> \A k \in DOMAIN c : c[k] = {}
    BY <1>3 DEF Every
  <2> QED BY <1>4, <2>1
<1>11. \A i \in 0..n-1 : i \in Nat /\ i \div W \in 0..size-1 /\ i % W \in Inside(i \div W, n)
  <2> TAKE i \in 0..n-1
  <2>1. i \in Nat /\ i < n
    OBVIOUS
  <2>2. i \div W \in 0..size-1
    BY <2>1, PlaceWithin
  <2>3. i % W \in 0..W-1 /\ i = (i \div W) * W + (i % W)
    BY <2>1, WholeAndRest
  <2> QED BY <2>1, <2>2, <2>3 DEF Inside
<1>12. \A k \in 0..size-1 : \A b \in Inside(k, n) :
         \E i \in 0..n-1 : i \div W = k /\ i % W = b
  <2> TAKE k \in 0..size-1
  <2> TAKE b \in Inside(k, n)
  <2> DEFINE i == k * W + b
  <2>1. k \in Nat /\ k * W \in Nat /\ b \in 0..W-1 /\ i < n
    <3>1. k \in Nat
      BY <1>1
    <3> QED BY <3>1, MultiplesOrdered DEF Inside
  <2>2. i \in 0..n-1
    BY <2>1
  <2>3. i \div W = k /\ i % W = b
    BY <2>1, PlaceIs
  <2> QED BY <2>2, <2>3
<1> HIDE DEF m, c, sw, size
<1>13. {i \in 0..sw-1 : BitAt(c, i)} = ones
  <2>1. \A i \in 0..sw-1 : BitAt(c, i) <=> i < n /\ BitAt(bytes, i)
    BY <1>2, <1>5
  <2>2. \A i : i \in 0..n-1 <=> i \in 0..sw-1 /\ i < n
    BY <1>1
  <2> QED BY <2>1, <2>2
<1>14. Every(m, TRUE) <=> ones = 0..n-1
  <2>1. ASSUME \A k \in 0..size-1 : c[k] = Inside(k, n) PROVE ones = 0..n-1
    <3>1. ASSUME NEW i \in 0..n-1 PROVE i % W \in bytes[i \div W]
      <4>1. i \div W \in 0..size-1 /\ i % W \in Inside(i \div W, n)
        BY <1>11
      <4> DEFINE k == i \div W
      <4>2. k \in 0..size-1 /\ i % W \in Inside(k, n)
        BY <4>1
      <4> HIDE DEF k
      <4>3. Inside(k, n) = bytes[k] \cap Inside(k, n)
        BY <1>2, <2>1, <4>2
      <4>4. i % W \in bytes[k]
        BY <4>2, <4>3
      <4> QED BY <4>4 DEF k
    <3> QED BY <3>1 DEF BitAt
  <2>2. ASSUME ones = 0..n-1 PROVE \A k \in 0..size-1 : c[k] = Inside(k, n)
    <3>1. \A i \in 0..n-1 : i % W \in bytes[i \div W]
      BY <2>2 DEF BitAt
    <3>2. ASSUME NEW k \in 0..size-1, NEW b \in Inside(k, n) PROVE b \in bytes[k]
      <4>1. PICK i \in 0..n-1 : i \div W = k /\ i % W = b
        BY <1>12
      <4> QED BY <3>1, <4>1
    <3> QED BY <1>2, <3>2
  <2> QED BY <1>9, <2>1, <2>2
<1>15. Every(m, FALSE) <=> ones = {}
  <2>1. ASSUME \A k \in 0..size-1 : c[k] = {}, NEW i \in 0..n-1, BitAt(bytes, i) PROVE FALSE
    <3>1. i % W \in bytes[i \div W]
      BY <2>1 DEF BitAt
    <3>2. i % W \in c[i \div W]
      BY <1>2, <1>11, <3>1
    <3> QED BY <1>11, <2>1, <3>2
  <2>2. ASSUME ones = {}, NEW k \in 0..size-1, NEW b \in c[k] PROVE FALSE
    <3>1. b \in bytes[k] /\ b \in Inside(k, n)
      BY <1>2, <2>2
    <3>2. PICK i \in 0..n-1 : i \div W = k /\ i % W = b
      BY <1>12, <3>1
    <3>3. BitAt(bytes, i)
      BY <3>1, <3>2 DEF BitAt
    <3> QED BY <2>2, <3>3
  <2> QED BY <1>10, <2>1, <2>2
<1>16. CountOnes(m) = Cardinality(ones)
  BY <1>6, <1>7, <1>8, <1>13
<1> QED BY <1>14, <1>15, <1>16 DEF m

-----------------------------------------------------------------------------
(* What the calls mean                                                     *)

(* set_range, set and set_bits_chunk write the bits they name and keep all *)
(* others.                                                                 *)
LEMMA SetsAreExact == ASSUME Row(mask) PROVE SetsOnlyItsBits
<1> DEFINE len == mask.len
           at(i) == BitAt(mask.bytes, i)
<1>1. /\ len \in Nat /\ LenOf(mask) = len
      /\ \A i \in 0..len-1 : Here[i] \in BOOLEAN /\ (Here[i] <=> at(i))
  BY BitsAt DEF Here
<1> HIDE DEF at, len
<1>2. ASSUME NEW e \in 1..MaxLen, NEW v \in BOOLEAN, NEW s \in 0..e-1
      PROVE  LET n == IF e > LenOf(mask) THEN e ELSE LenOf(mask)
                 bits == [i \in 0..n-1 |-> IF s <= i /\ i < e THEN v ELSE i < LenOf(mask) /\ Here[i]]
             IN /\ Reads(SetRange(mask, s, e, v), bits)
                /\ e = s + 1 => Reads(SetBit(mask, s, v), bits)
                /\ Reads(SetBitsChunk(mask, s, IF v THEN Low(e - s) ELSE {}, e - s), bits)
  <2> DEFINE n == IF e > len THEN e ELSE len
             bits == [i \in 0..n-1 |-> IF s <= i /\ i < e THEN v ELSE i < len /\ Here[i]]
             word == IF v THEN Low(e - s) ELSE {}
  <2>1. s \in Nat /\ e \in Nat /\ s < e /\ n \in Nat /\ e - s \in Nat /\ e - s > 0
    BY <1>1, BoundAssumption
  <2>2. \A i \in 0..n-1 :
          bits[i] \in BOOLEAN /\ (bits[i] <=> IF s <= i /\ i < e THEN v = TRUE ELSE i < len /\ at(i))
    <3> SUFFICES ASSUME NEW i \in 0..n-1
                 PROVE  /\ bits[i] \in BOOLEAN
                        /\ bits[i] <=> IF s <= i /\ i < e THEN v = TRUE ELSE i < len /\ at(i)
      OBVIOUS
    <3>1. i < len => i \in 0..len-1
      BY <1>1, <2>1
    <3>2. bits[i] = IF s <= i /\ i < e THEN v ELSE i < len /\ Here[i]
      BY Zenon
    <3> HIDE DEF bits
    <3>3. CASE s <= i /\ i < e
      BY <3>2, <3>3
    <3>4. CASE ~(s <= i /\ i < e)
      <4>1. bits[i] = (i < len /\ Here[i])
        BY <3>2, <3>4
      <4> QED BY <1>1, <3>1, <3>4, <4>1
    <3> QED BY <3>3, <3>4
  <2>3. DOMAIN bits = 0..n-1 /\ bits = [i \in DOMAIN bits |-> bits[i]]
    BY Zenon
  <2> HIDE DEF bits, n
  <2>4. ASSUME NEW x, Row(x), x.len = n,
               \A i \in 0..x.len-1 : BitAt(x.bytes, i) <=> IF s <= i /\ i < e THEN v = TRUE ELSE i < len /\ at(i)
        PROVE  Reads(x, bits)
    BY <2>2, <2>3, <2>4, ReadsAs, Zenon
  <2>5. Reads(SetRange(mask, s, e, v), bits)
    <3>1. Row(SetRange(mask, s, e, v))
      BY <2>1, SetRangeRow
    <3>2. SetRange(mask, s, e, v).len = n
      <4>1. SetRange(mask, s, e, v).len = IF e > mask.len THEN e ELSE mask.len
        BY <2>1, SetRangeLen
      <4> QED BY <4>1 DEF n, len
    <3>3. \A i \in 0..SetRange(mask, s, e, v).len-1 :
            BitAt(SetRange(mask, s, e, v).bytes, i)
              <=> IF s <= i /\ i < e THEN v = TRUE ELSE i < len /\ at(i)
      BY <2>1, SetRangeAt DEF len, at
    <3> QED BY <2>4, <3>1, <3>2, <3>3
  <2>6. ASSUME e = s + 1 PROVE Reads(SetBit(mask, s, v), bits)
    <3>1. Row(SetBit(mask, s, v)) /\ SetBit(mask, s, v).len = n
      BY <2>1, <2>6, SetBitAt DEF n, len
    <3>2. \A i \in 0..SetBit(mask, s, v).len-1 :
            BitAt(SetBit(mask, s, v).bytes, i) <=> IF i = s THEN v = TRUE ELSE i < len /\ at(i)
      BY <2>1, SetBitAt DEF len, at
    <3>3. \A i \in 0..SetBit(mask, s, v).len-1 : i = s <=> s <= i /\ i < e
      <4> HIDE DEF len
      <4>1. \A i \in 0..n-1 : i = s <=> s <= i /\ i < e
        BY <2>1, <2>6
      <4> QED BY <3>1, <4>1
    <3> QED BY <2>4, <3>1, <3>2, <3>3, Zenon
  <2>7. Reads(SetBitsChunk(mask, s, word, e - s), bits)
    <3> DEFINE x == SetBitsChunk(mask, s, word, e - s)
    <3> HIDE DEF word
    <3>1. Row(x) /\ x.len = n
      <4>1. x.len = IF e - s > 0 /\ s + (e - s) > mask.len THEN s + (e - s) ELSE mask.len
        BY <2>1, SetBitsChunkAt
      <4>2. s + (e - s) = e
        BY <2>1
      <4>3. Row(x)
        BY <2>1, SetBitsChunkAt
      <4> HIDE DEF x
      <4> QED BY <2>1, <4>1, <4>2, <4>3 DEF n, len
    <3>2. \A i \in 0..x.len-1 :
            BitAt(x.bytes, i) <=> IF s <= i /\ i < s + (e - s) THEN i - s \in word
                                  ELSE i < mask.len /\ BitAt(mask.bytes, i)
      BY <2>1, SetBitsChunkAt
    <3> HIDE DEF x
    <3>3. \A i \in 0..n-1 : s <= i /\ i < e => (i - s \in word <=> v = TRUE)
      BY <2>1 DEF word, Low
    <3>4. s + (e - s) = e
      BY <2>1
    <3>5. \A i \in 0..x.len-1 :
            BitAt(x.bytes, i) <=> IF s <= i /\ i < e THEN v = TRUE ELSE i < len /\ at(i)
      BY <3>1, <3>2, <3>3, <3>4, Zenon DEF len, at
    <3> QED BY <2>4, <3>1, <3>5 DEF x
  <2> QED BY <1>1, <2>5, <2>6, <2>7 DEF bits, n, word
<1> QED BY <1>2 DEF SetsOnlyItsBits

(* resize                                                                  *)
LEMMA ResizesAreExact == ASSUME Row(mask) PROVE ResizeFillsNewBits
<1>1. /\ mask.len \in Nat
      /\ \A i \in 0..mask.len-1 : Here[i] \in BOOLEAN /\ (Here[i] <=> BitAt(mask.bytes, i))
  BY BitsAt DEF Here
<1> SUFFICES ASSUME NEW n \in 0..MaxLen, NEW v \in BOOLEAN
             PROVE  Bits(Resize(mask, n, v)) = [i \in 0..n-1 |-> IF i < mask.len THEN Here[i] ELSE v]
  BY DEF ResizeFillsNewBits
<1> DEFINE x == Resize(mask, n, v)
           bits == [i \in 0..n-1 |-> IF i < mask.len THEN Here[i] ELSE v]
<1>2. n \in Nat /\ Row(x) /\ x.len = n
  BY ResizeRow, BoundAssumption
<1>3. \A i \in 0..n-1 : BitAt(x.bytes, i) <=> IF i < mask.len THEN BitAt(mask.bytes, i) ELSE v = TRUE
  BY <1>2, ResizeAt
<1>4. DOMAIN bits = 0..n-1 /\ bits = [i \in DOMAIN bits |-> bits[i]]
      /\ \A i \in 0..n-1 : bits[i] = IF i < mask.len THEN Here[i] ELSE v
  BY Zenon
<1> HIDE DEF x, bits
<1>5. \A i \in 0..n-1 : i < mask.len => i \in 0..mask.len-1
  BY <1>1, <1>2
<1>6. \A i \in 0..n-1 : bits[i] \in BOOLEAN /\ (bits[i] <=> BitAt(x.bytes, i))
  <2> SUFFICES ASSUME NEW i \in 0..n-1 PROVE bits[i] \in BOOLEAN /\ (bits[i] <=> BitAt(x.bytes, i))
    OBVIOUS
  <2>1. CASE i < mask.len
    <3>1. bits[i] = Here[i] /\ i \in 0..mask.len-1 /\ (BitAt(x.bytes, i) <=> BitAt(mask.bytes, i))
      BY <1>3, <1>4, <1>5, <2>1
    <3> QED BY <1>1, <3>1
  <2>2. CASE ~(i < mask.len)
    <3>1. bits[i] = v /\ (BitAt(x.bytes, i) <=> v = TRUE)
      BY <1>3, <1>4, <2>2
    <3> QED BY <3>1
  <2> QED BY <2>1, <2>2
<1>7. Bits(x) = bits
  BY <1>2, <1>4, <1>6, ReadsAs, Zenon
<1> QED BY <1>7 DEF x, bits

(* delete_range                                                            *)
LEMMA DeletesAreExact == ASSUME Row(mask) PROVE DeletesExactlyTheRange
<1>1. /\ mask.len \in Nat
      /\ \A i \in 0..mask.len-1 : Here[i] \in BOOLEAN /\ (Here[i] <=> BitAt(mask.bytes, i))
  BY BitsAt DEF Here
<1> SUFFICES ASSUME NEW e \in 0..mask.len, NEW s \in 0..e
             PROVE  Reads(DeleteRange(mask, s, e), Append2(Window(Here, 0, s), Window(Here, e, mask.len - e)))
  BY DEF DeletesExactlyTheRange
<1> DEFINE x == DeleteRange(mask, s, e)
           n == mask.len - (e - s)
           head == Window(Here, 0, s)
           tail == Window(Here, e, mask.len - e)
           bits == Append2(head, tail)
           from(i) == IF i < s THEN i ELSE i + (e - s)
<1>2. s \in Nat /\ e \in Nat /\ s <= e /\ e <= mask.len /\ n \in Nat /\ mask.len - e \in Nat
  BY <1>1
<1>3. Row(x) /\ x.len = n /\ \A i \in 0..x.len-1 : BitAt(x.bytes, i) <=> BitAt(mask.bytes, from(i))
  BY <1>2, DeleteRangeAt
<1>4. Size(head) = s /\ Size(tail) = mask.len - e
  BY <1>2, SizeOfWindow
<1>5. /\ DOMAIN bits = 0..n-1 /\ bits = [i \in DOMAIN bits |-> bits[i]]
      /\ \A i \in 0..n-1 : bits[i] = IF i < s THEN head[i] ELSE tail[i - s]
  <2>1. Size(head) + Size(tail) - 1 = n - 1
    BY <1>1, <1>2, <1>4
  <2> HIDE DEF head, tail, n
  <2>2. bits = [i \in 0..n-1 |-> IF i < s THEN head[i] ELSE tail[i - s]]
    BY <1>4, <2>1 DEF Append2
  <2> HIDE DEF bits
  <2> QED BY <2>2, Zenon
<1>6. ASSUME NEW i \in 0..n-1 PROVE from(i) \in 0..mask.len-1 /\ bits[i] = Here[from(i)]
  <2>1. CASE i < s
    <3>1. i \in 0..s-1 /\ i \in 0..mask.len-1
      BY <1>1, <1>2, <2>1
    <3>2. head[i] = Here[i]
      BY <1>2, <3>1 DEF Window
    <3> HIDE DEF head, tail, bits, n
    <3> QED BY <1>5, <2>1, <3>1, <3>2
  <2>2. CASE ~(i < s)
    <3>1. i - s \in 0..mask.len-e-1 /\ e + (i - s) = i + (e - s) /\ i + (e - s) \in 0..mask.len-1
      BY <1>1, <1>2, <2>2
    <3>2. tail[i - s] = Here[i + (e - s)]
      BY <1>2, <3>1 DEF Window
    <3> HIDE DEF head, tail, bits, n
    <3> QED BY <1>5, <2>2, <3>1, <3>2
  <2> QED BY <2>1, <2>2
<1> HIDE DEF x, bits, from, n
<1>7. \A i \in 0..n-1 : bits[i] \in BOOLEAN /\ (bits[i] <=> BitAt(x.bytes, i))
  BY <1>1, <1>3, <1>6, Zenon
<1>8. Reads(x, bits)
  BY <1>3, <1>5, <1>7, ReadsAs, Zenon
<1> QED BY <1>8 DEF x, bits

(* A mask that shows one sequence of bits and then another reads as their  *)
(* concatenation.                                                          *)
LEMMA ReadsAppended ==
  ASSUME NEW x, Row(x), NEW a \in Nat, NEW n \in Nat, NEW A, NEW B, Size(A) = a, Size(B) = n, x.len = a + n,
         \A i \in 0..a-1 : A[i] \in BOOLEAN, \A i \in 0..n-1 : B[i] \in BOOLEAN,
         \A i \in 0..a + n - 1 : BitAt(x.bytes, i) <=> IF i < a THEN A[i] = TRUE ELSE B[i - a] = TRUE
  PROVE  Reads(x, Append2(A, B))
<1> DEFINE bits == Append2(A, B)
<1>1. /\ DOMAIN bits = 0..a + n - 1 /\ bits = [i \in DOMAIN bits |-> bits[i]]
      /\ \A i \in 0..a + n - 1 : bits[i] = IF i < a THEN A[i] ELSE B[i - a]
  <2>1. bits = [i \in 0..a + n - 1 |-> IF i < a THEN A[i] ELSE B[i - a]]
    BY DEF Append2
  <2> HIDE DEF bits
  <2> QED BY <2>1, Zenon
<1> HIDE DEF bits
<1>2. ASSUME NEW i \in 0..a + n - 1 PROVE bits[i] \in BOOLEAN /\ (bits[i] <=> BitAt(x.bytes, i))
  <2>1. CASE i < a
    <3>1. i \in 0..a-1 /\ bits[i] = A[i] /\ (BitAt(x.bytes, i) <=> A[i] = TRUE)
      BY <1>1, <2>1
    <3>2. A[i] \in BOOLEAN
      BY <3>1
    <3> QED BY <3>1, <3>2
  <2>2. CASE ~(i < a)
    <3>1. i - a \in 0..n-1 /\ bits[i] = B[i - a] /\ (BitAt(x.bytes, i) <=> B[i - a] = TRUE)
      BY <1>1, <2>2
    <3>2. B[i - a] \in BOOLEAN
      BY <3>1
    <3> QED BY <3>1, <3>2
  <2> QED BY <2>1, <2>2
<1>3. DOMAIN bits = 0..x.len-1 /\ \A i \in 0..x.len-1 : bits[i] \in BOOLEAN /\ (bits[i] <=> BitAt(x.bytes, i))
  BY <1>1, <1>2
<1>4. Reads(x, bits)
  BY <1>1, <1>3, ReadsAs, Zenon
<1> QED BY <1>4 DEF bits

(* A mask that shows a window of a sequence of bits reads as the window.   *)
LEMMA ReadsWindow ==
  ASSUME NEW x, Row(x), NEW bits, NEW off \in Nat, NEW n \in Nat, x.len = n,
         \A i \in 0..n-1 : bits[off + i] \in BOOLEAN /\ (bits[off + i] <=> BitAt(x.bytes, i))
  PROVE  Reads(x, Window(bits, off, n))
<1> DEFINE w == Window(bits, off, n)
<1>1. DOMAIN w = 0..n-1 /\ w = [i \in DOMAIN w |-> w[i]] /\ \A i \in 0..n-1 : w[i] = bits[off + i]
  BY Zenon DEF Window
<1> HIDE DEF w
<1>2. \A i \in 0..n-1 : w[i] \in BOOLEAN /\ (w[i] <=> BitAt(x.bytes, i))
  BY <1>1
<1>3. Reads(x, w)
  BY <1>1, <1>2, ReadsAs, Zenon
<1> QED BY <1>3 DEF w

(* The bits of the mask and their number.                                  *)
LEMMA HereAt ==
  ASSUME Row(mask)
  PROVE  /\ mask.len \in Nat /\ DOMAIN Here = 0..mask.len-1 /\ Size(Here) = mask.len
         /\ \A i \in 0..mask.len-1 : Here[i] \in BOOLEAN /\ (Here[i] <=> BitAt(mask.bytes, i))
<1>1. /\ mask.len \in Nat /\ LenOf(mask) = mask.len
      /\ \A i \in 0..mask.len-1 : Here[i] \in BOOLEAN /\ (Here[i] <=> BitAt(mask.bytes, i))
  BY BitsAt DEF Here
<1>2. DOMAIN Here = 0..mask.len-1
  BY <1>1 DEF Here, Bits
<1> HIDE DEF Here
<1> QED BY <1>1, <1>2, SizeIs

(* extend_from_slice                                                       *)
LEMMA SlicesAreAppended == ASSUME Row(mask) PROVE ExtendAppendsSlice
<1> SUFFICES ASSUME NEW n \in 0..MaxLen - mask.len, NEW src \in Packed(n)
             PROVE  Reads(ExtendFromSlice(mask, src, n), Append2(Here, Unpacked(src, n)))
  BY DEF ExtendAppendsSlice
<1> DEFINE len == mask.len
           x == ExtendFromSlice(mask, src, n)
           B == Unpacked(src, n)
<1>1. /\ len \in Nat /\ Size(Here) = len
      /\ \A i \in 0..len-1 : Here[i] \in BOOLEAN /\ (Here[i] <=> BitAt(mask.bytes, i))
  BY HereAt
<1>2. n \in Nat
  BY <1>1, BoundAssumption
<1>3. \A k \in 0..BytesFor(n)-1 : src[k] \in Byte
  BY DEF Packed
<1>4. /\ Row(x) /\ x.len = len + n
      /\ \A i \in 0..len + n - 1 :
           BitAt(x.bytes, i) <=> IF i < len THEN BitAt(mask.bytes, i) ELSE BitAt(src, i - len)
  BY <1>2, <1>3, ExtendFromSliceAt
<1>5. Size(B) = n /\ \A i \in 0..n-1 : B[i] \in BOOLEAN /\ (B[i] <=> BitAt(src, i))
  <2>1. DOMAIN B = 0..n-1 /\ \A i \in 0..n-1 : B[i] = (i % W \in src[i \div W])
    BY DEF Unpacked
  <2> HIDE DEF B
  <2>2. Size(B) = n
    BY <1>2, <2>1, SizeIs
  <2>3. ASSUME NEW i \in 0..n-1 PROVE B[i] \in BOOLEAN /\ (B[i] <=> BitAt(src, i))
    <3> DEFINE p == i % W \in src[i \div W]
    <3>1. B[i] = p
      BY <2>1
    <3>2. BitAt(src, i) <=> p
      BY DEF BitAt
    <3>3. p \in BOOLEAN
      OBVIOUS
    <3> HIDE DEF p
    <3> QED BY <3>1, <3>2, <3>3, Zenon
  <2> QED BY <2>2, <2>3
<1> HIDE DEF x, B, len, Here
<1>6. \A i \in 0..len + n - 1 : BitAt(x.bytes, i) <=> IF i < len THEN Here[i] = TRUE ELSE B[i - len] = TRUE
  <2> TAKE i \in 0..len + n - 1
  <2>1. CASE i < len
    <3>1. i \in 0..len-1
      BY <1>1, <1>2, <2>1
    <3>2. BitAt(x.bytes, i) <=> BitAt(mask.bytes, i)
      BY <1>4, <2>1
    <3> QED BY <1>1, <2>1, <3>1, <3>2
  <2>2. CASE ~(i < len)
    <3>1. i - len \in 0..n-1
      BY <1>1, <1>2, <2>2
    <3>2. BitAt(x.bytes, i) <=> BitAt(src, i - len)
      BY <1>4, <2>2
    <3> QED BY <1>5, <2>2, <3>1, <3>2
  <2> QED BY <2>1, <2>2
<1>7. /\ \A i \in 0..len-1 : Here[i] \in BOOLEAN
      /\ \A i \in 0..n-1 : B[i] \in BOOLEAN
  BY <1>1, <1>5
<1>8. len \in Nat /\ Size(Here) = len /\ Size(B) = n /\ Row(x) /\ x.len = len + n
  BY <1>1, <1>4, <1>5
<1>9. Reads(x, Append2(Here, B))
  BY ONLY <1>2, <1>6, <1>7, <1>8, ReadsAppended
<1> QED BY <1>9 DEF x, B

(* extend_from_bitmask_range, extend_from_bitmask and extend               *)
LEMMA WindowsAreAppended == ASSUME Row(mask) PROVE ExtendAppendsWindow
<1> SUFFICES ASSUME NEW k \in 0..W, NEW v \in BOOLEAN, NEW off \in 0..mask.len, NEW n \in 0..mask.len - off
             PROVE  LET wider == Append2(Constantly(k, v), Window(Here, off, n))
                    IN /\ Reads(ExtendFromRange(NewSetAll(k, v), mask, off, n), wider)
                       /\ n = mask.len => /\ Reads(ExtendFromBitmask(NewSetAll(k, v), mask), wider)
                                          /\ Reads(Extend(NewSetAll(k, v), Here), wider)
  BY DEF ExtendAppendsWindow
<1> DEFINE m == NewSetAll(k, v)
           A == Constantly(k, v)
           B == Window(Here, off, n)
           wider == Append2(A, B)
<1>1. /\ mask.len \in Nat /\ DOMAIN Here = 0..mask.len-1
      /\ \A i \in 0..mask.len-1 : Here[i] \in BOOLEAN /\ (Here[i] <=> BitAt(mask.bytes, i))
  BY HereAt
<1>2. k \in Nat /\ off \in Nat /\ n \in Nat /\ off + n <= mask.len /\ (n = mask.len => off = 0) /\ Raw(mask)
  BY <1>1 DEF Row
<1>3. Row(m) /\ m.len = k /\ \A i \in 0..k-1 : BitAt(m.bytes, i) <=> v = TRUE
  BY <1>2, NewSetAllAt
<1>4. Size(A) = k /\ \A i \in 0..k-1 : A[i] = v /\ A[i] \in BOOLEAN
  <2>1. DOMAIN A = 0..k-1 /\ \A i \in 0..k-1 : A[i] = v
    BY DEF Constantly
  <2> HIDE DEF A
  <2> QED BY <1>2, <2>1, SizeIs
<1>5. Size(B) = n /\ \A i \in 0..n-1 : B[i] \in BOOLEAN /\ (B[i] <=> BitAt(mask.bytes, off + i))
  <2>1. Size(B) = n
    BY <1>2, SizeOfWindow
  <2>2. \A i \in 0..n-1 : B[i] = Here[off + i]
    BY DEF Window
  <2>3. \A i \in 0..n-1 : off + i \in 0..mask.len-1
    BY <1>1, <1>2
  <2> HIDE DEF B
  <2> QED BY <1>1, <2>1, <2>2, <2>3
<1> HIDE DEF A, B
<1>6. ASSUME NEW x, Row(x), x.len = k + n,
             \A i \in 0..k + n - 1 :
               BitAt(x.bytes, i) <=> IF i < k THEN BitAt(m.bytes, i) ELSE BitAt(mask.bytes, off + (i - k))
      PROVE  Reads(x, wider)
  <2> HIDE DEF m, Here
  <2>1. ASSUME NEW i \in 0..k + n - 1
        PROVE  BitAt(x.bytes, i) <=> IF i < k THEN A[i] = TRUE ELSE B[i - k] = TRUE
    <3>1. CASE i < k
      <4>1. i \in 0..k-1 /\ (BitAt(x.bytes, i) <=> BitAt(m.bytes, i))
        BY <1>2, <1>6, <3>1
      <4> QED BY <1>3, <1>4, <3>1, <4>1
    <3>2. CASE ~(i < k)
      <4>1. i - k \in 0..n-1
        BY <1>2, <3>2
      <4>2. BitAt(x.bytes, i) <=> BitAt(mask.bytes, off + (i - k))
        BY <1>6, <3>2
      <4> QED BY <1>5, <3>2, <4>1, <4>2
    <3> QED BY <3>1, <3>2
  <2> QED BY <1>2, <1>4, <1>5, <1>6, <2>1, ReadsAppended
<1> HIDE DEF m, wider
<1>7. Reads(ExtendFromRange(m, mask, off, n), wider)
  <2> DEFINE x == ExtendFromRange(m, mask, off, n)
  <2>1. /\ Row(x) /\ x.len = m.len + n
        /\ \A i \in 0..m.len + n - 1 :
             BitAt(x.bytes, i) <=> IF i < m.len THEN BitAt(m.bytes, i) ELSE BitAt(mask.bytes, off + (i - m.len))
    <3>1. Row(m) /\ Raw(mask) /\ off \in Nat /\ n \in Nat /\ off + n <= mask.len
      BY <1>2, <1>3
    <3>2. /\ Row(ExtendFromRange(m, mask, off, n)) /\ ExtendFromRange(m, mask, off, n).len = m.len + n
          /\ \A i \in 0..m.len + n - 1 :
               BitAt(ExtendFromRange(m, mask, off, n).bytes, i)
                 <=> IF i < m.len THEN BitAt(m.bytes, i) ELSE BitAt(mask.bytes, off + (i - m.len))
      BY ONLY <3>1, ExtendFromRangeAt
    <3> QED BY <3>2
  <2> HIDE DEF x
  <2> QED BY <1>3, <1>6, <2>1 DEF x
<1>8. ASSUME n = mask.len PROVE Reads(ExtendFromBitmask(m, mask), wider)
  <2> DEFINE x == ExtendFromBitmask(m, mask)
  <2>1. /\ Row(x) /\ x.len = m.len + mask.len
        /\ \A i \in 0..m.len + mask.len - 1 :
             BitAt(x.bytes, i) <=> IF i < m.len THEN BitAt(m.bytes, i) ELSE BitAt(mask.bytes, i - m.len)
    BY <1>3, ExtendFromBitmaskAt
  <2> HIDE DEF x
  <2>2. \A i \in 0..k + n - 1 : off + (i - k) = i - k
    BY <1>2, <1>8
  <2>3. \A i \in 0..k + n - 1 :
          BitAt(x.bytes, i) <=> IF i < k THEN BitAt(m.bytes, i) ELSE BitAt(mask.bytes, off + (i - k))
    BY <1>3, <1>8, <2>1, <2>2
  <2> QED BY <1>3, <1>6, <1>8, <2>1, <2>3 DEF x
<1>9. ASSUME n = mask.len PROVE Reads(Extend(m, Here), wider)
  <2> DEFINE x == Extend(m, Here)
  <2>1. /\ Row(x) /\ x.len = m.len + n
        /\ \A i \in 0..m.len + n - 1 :
             BitAt(x.bytes, i) <=> IF i < m.len THEN BitAt(m.bytes, i) ELSE Here[i - m.len]
    <3> DEFINE bits == Here
    <3>1. DOMAIN bits = 0..n-1 /\ \A i \in 0..n-1 : bits[i] \in BOOLEAN
      BY <1>1, <1>9
    <3> HIDE DEF bits
    <3> QED BY <1>2, <1>3, <3>1, ExtendAt DEF bits
  <2> HIDE DEF x, Here
  <2>2. ASSUME NEW i \in 0..k + n - 1
        PROVE  BitAt(x.bytes, i) <=> IF i < k THEN BitAt(m.bytes, i) ELSE BitAt(mask.bytes, off + (i - k))
    <3>1. CASE i < k
      BY <1>3, <2>1, <3>1
    <3>2. CASE ~(i < k)
      <4>1. i - k \in 0..mask.len-1 /\ off + (i - k) = i - k
        BY <1>1, <1>2, <1>9, <3>2
      <4>2. BitAt(x.bytes, i) <=> Here[i - k]
        BY <1>3, <2>1, <3>2
      <4> QED BY <1>1, <3>2, <4>1, <4>2
    <3> QED BY <3>1, <3>2
  <2>3. x.len = k + n
    BY <1>3, <2>1
  <2> QED BY <1>6, <2>1, <2>2, <2>3 DEF x
<1> QED BY <1>7, <1>8, <1>9 DEF m, wider, A, B

(* slice_clone and split_off                                               *)
LEMMA WindowsAreExact == ASSUME Row(mask) PROVE WindowsAreCopied
<1>1. /\ mask.len \in Nat
      /\ \A i \in 0..mask.len-1 : Here[i] \in BOOLEAN /\ (Here[i] <=> BitAt(mask.bytes, i))
  BY HereAt
<1> SUFFICES ASSUME NEW off \in 0..mask.len
             PROVE  /\ \A n \in 0..mask.len - off : Reads(SliceClone(mask, off, n), Window(Here, off, n))
                    /\ Reads(SplitOff(mask, off)[1], Window(Here, 0, off))
                    /\ Reads(SplitOff(mask, off)[2], Window(Here, off, mask.len - off))
  BY DEF WindowsAreCopied
<1>2. off \in Nat /\ off <= mask.len /\ mask.len - off \in Nat
  BY <1>1
<1>3. ASSUME NEW from \in Nat, NEW n \in Nat, from + n <= mask.len, NEW x, Row(x), x.len = n,
             \A i \in 0..n-1 : BitAt(x.bytes, i) <=> BitAt(mask.bytes, from + i)
      PROVE  Reads(x, Window(Here, from, n))
  <2> DEFINE bits == Here
  <2> HIDE DEF bits
  <2>1. ASSUME NEW i \in 0..n-1 PROVE bits[from + i] \in BOOLEAN /\ (bits[from + i] <=> BitAt(x.bytes, i))
    <3>1. from + i \in 0..mask.len-1
      BY <1>1, <1>3
    <3> QED BY <1>1, <1>3, <3>1 DEF bits
  <2>2. Reads(x, Window(bits, from, n))
    BY <1>3, <2>1, ReadsWindow
  <2> QED BY <2>2 DEF bits
<1> HIDE DEF Here
<1>4. ASSUME NEW n \in 0..mask.len - off PROVE Reads(SliceClone(mask, off, n), Window(Here, off, n))
  <2> DEFINE x == SliceClone(mask, off, n)
  <2>1. n \in Nat /\ off + n <= mask.len
    BY <1>1, <1>2
  <2>2. Row(x) /\ x.len = n /\ \A i \in 0..n-1 : BitAt(x.bytes, i) <=> BitAt(mask.bytes, off + i)
    BY <1>2, <2>1, SliceCloneAt
  <2> HIDE DEF x
  <2>3. Reads(x, Window(Here, off, n))
    BY <1>2, <1>3, <2>1, <2>2
  <2> QED BY <2>3 DEF x
<1>5. Reads(SplitOff(mask, off)[1], Window(Here, 0, off)) /\ Reads(SplitOff(mask, off)[2], Window(Here, off, mask.len - off))
  <2> DEFINE x == SplitOff(mask, off)[1]
             y == SplitOff(mask, off)[2]
             n == mask.len - off
  <2>1. /\ Row(x) /\ Row(y) /\ x.len = off /\ y.len = n
        /\ \A i \in 0..off-1 : BitAt(x.bytes, i) <=> BitAt(mask.bytes, i)
        /\ \A i \in 0..n-1 : BitAt(y.bytes, i) <=> BitAt(mask.bytes, off + i)
    BY <1>2, SplitOffAt
  <2>2. n \in Nat /\ off + n <= mask.len /\ 0 \in Nat /\ 0 + off <= mask.len
    BY <1>1, <1>2
  <2>3. \A i \in 0..off-1 : 0 + i = i
    BY <1>2
  <2> HIDE DEF x, y, n
  <2>4. \A i \in 0..off-1 : BitAt(x.bytes, i) <=> BitAt(mask.bytes, 0 + i)
    BY <2>1, <2>3
  <2>5. Reads(x, Window(Here, 0, off))
    BY <1>2, <1>3, <2>1, <2>2, <2>4
  <2>6. Reads(y, Window(Here, off, n))
    BY <1>2, <1>3, <2>1, <2>2
  <2> QED BY <2>5, <2>6 DEF x, y, n
<1> QED BY <1>4, <1>5

(* A mask made of the bits of the mask is the mask, and what counts its    *)
(* bits, at any length, sees those below the length.                       *)
LEMMA CountsAreExact == ASSUME Row(mask) PROVE CountsSeeTheBits
<1>1. /\ mask.len \in Nat
      /\ \A i \in 0..mask.len-1 : Here[i] \in BOOLEAN /\ (Here[i] <=> BitAt(mask.bytes, i))
  BY BitsAt DEF Here
<1>2. FromBools(Here) = mask
  BY FromBoolsIs DEF Here
<1>3. ASSUME NEW n \in 0..mask.len
      PROVE  LET m == New(mask.bytes, n)
                 ones == {i \in 0..n-1 : Here[i]}
             IN /\ CountOnes(m) = Cardinality(ones)
                /\ Every(m, TRUE) <=> ones = 0..n-1
                /\ Every(m, FALSE) <=> ones = {}
  <2> DEFINE ones == {i \in 0..n-1 : Here[i]}
  <2>1. n \in Nat /\ n <= mask.len
    BY <1>1
  <2>2. ones = {i \in 0..n-1 : BitAt(mask.bytes, i)}
    <3>1. \A i \in 0..n-1 : i \in 0..mask.len-1
      BY <1>1, <2>1
    <3> QED BY <1>1, <3>1
  <2>3. \A k \in 0..BytesFor(n)-1 : mask.bytes[k] \in Byte
    <3>1. \A k \in 0..BytesFor(mask.len)-1 : mask.bytes[k] \in Byte
      BY RawParts DEF Row
    <3>2. BytesFor(n) <= BytesFor(mask.len) /\ BytesFor(n) \in Nat /\ BytesFor(mask.len) \in Nat
      BY <1>1, <2>1, BytesForGrows, BytesForHolds
    <3> HIDE DEF BytesFor
    <3>3. \A k \in 0..BytesFor(n)-1 : k \in 0..BytesFor(mask.len)-1
      BY <3>2
    <3> QED BY <3>1, <3>3
  <2> HIDE DEF ones
  <2>4. /\ CountOnes(New(mask.bytes, n)) = Cardinality(ones)
        /\ Every(New(mask.bytes, n), TRUE) <=> ones = 0..n-1
        /\ Every(New(mask.bytes, n), FALSE) <=> ones = {}
    <3> DEFINE bytes == mask.bytes
    <3> HIDE DEF bytes
    <3>1. (\A k \in 0..BytesFor(n)-1 : bytes[k] \in Byte) /\ ones = {i \in 0..n-1 : BitAt(bytes, i)}
      BY <2>2, <2>3 DEF bytes
    <3> QED BY <2>1, <3>1, CountsAt DEF bytes
  <2> QED BY <2>4 DEF ones
<1> QED BY <1>2, <1>3 DEF CountsSeeTheBits

-----------------------------------------------------------------------------
(* The specification                                                       *)

(* Every call that changes a mask in place does to its bits what it says,  *)
(* whatever calls made the mask, if its padding was clear at the start.    *)
THEOREM EditsExact == Spec /\ PaddingIsClear => []EditsAreExact
<1>1. Init /\ PaddingIsClear => Inv
  BY InitRow DEF Inv
<1>2. Inv /\ [Next]_mask => Inv'
  BY StepRow DEF Inv
<1>3. Inv => EditsAreExact
  BY SetsAreExact, ResizesAreExact, DeletesAreExact DEF Inv, EditsAreExact
<1> QED BY <1>1, <1>2, <1>3, PTL DEF Spec

(* Every call that copies bits from a mask moves the bits it names, at any *)
(* alignment of source and destination, and every count sees the bits of   *)
(* the mask and none past them.                                            *)
THEOREM CopiesExact == Spec /\ PaddingIsClear => []CopiesAreExact
<1>1. Init /\ PaddingIsClear => Inv
  BY InitRow DEF Inv
<1>2. Inv /\ [Next]_mask => Inv'
  BY StepRow DEF Inv
<1>3. Inv => CopiesAreExact
  BY SlicesAreAppended, WindowsAreAppended, WindowsAreExact, CountsAreExact DEF Inv, CopiesAreExact
<1> QED BY <1>1, <1>2, <1>3, PTL DEF Spec

-----------------------------------------------------------------------------
(* Words of a mask                                                         *)

(* A word has at least a byte of bits, and they are those of its bytes.    *)
LEMMA WordBitsIs == WordBits \in Nat /\ WordBits >= W /\ WordBits > 1 /\ WordBits = WordBytes * W
<1> DEFINE p == WordBytes * W
<1>1. 1 \in Nat /\ WordBytes \in Nat /\ 1 <= WordBytes /\ W \in Nat /\ W > 1
  OBVIOUS
<1>2. p \in Nat /\ 1 * W <= p
  BY <1>1, MultiplesOrdered
<1>3. WordBits = p
  BY <1>1 DEF WordBits
<1>4. 1 * W = W
  BY <1>1
<1> HIDE DEF p
<1>5. WordBits \in Nat /\ WordBits >= W /\ WordBits > 1
  BY ONLY <1>1, <1>2, <1>3, <1>4
<1> QED BY <1>3, <1>5 DEF p

(* A place is in a word and in a byte of it.                               *)
LEMMA WordSplits ==
  ASSUME NEW i \in Nat
  PROVE  /\ i \div WordBits \in Nat /\ i % WordBits \in 0..WordBits-1 /\ (i \div WordBits) * WordBits \in Nat
         /\ i = (i \div WordBits) * WordBits + (i % WordBits)
<1> DEFINE d == WordBits
<1>1. d \in Nat /\ d > 0
  BY WordBitsIs
<1> HIDE DEF d
<1>2. i \div d \in Nat /\ i % d \in 0..d-1 /\ i = d * (i \div d) + (i % d)
  BY <1>1
<1>3. d * (i \div d) = (i \div d) * d /\ (i \div d) * d \in Nat
  BY <1>1, <1>2
<1> QED BY <1>2, <1>3 DEF d

(* Place x of word j is in byte x \div W of the bytes of the word.         *)
LEMMA WordPlace ==
  ASSUME NEW j \in Nat, NEW x \in Nat
  PROVE  /\ j * WordBits \in Nat /\ j * WordBytes \in Nat /\ j * WordBits = (j * WordBytes) * W
         /\ (j * WordBits + x) \div W = j * WordBytes + x \div W /\ (j * WordBits + x) % W = x % W
         /\ (j * WordBits) \div W = j * WordBytes /\ (j * WordBits) % W = 0
         /\ j * WordBits + WordBits = (j + 1) * WordBits
<1> DEFINE a == j * WordBytes
<1>1. a \in Nat
  OBVIOUS
<1>2. j * WordBits = a * W
  BY DEF WordBits
<1>3. j * WordBits + WordBits = (j + 1) * WordBits /\ j * WordBits \in Nat
  <2>1. WordBits \in Nat
    BY WordBitsIs
  <2> QED BY <2>1
<1> HIDE DEF a
<1>4. (a * W + x) \div W = a + x \div W /\ (a * W + x) % W = x % W
  BY <1>1, PlaceMoves
<1>5. (a * W + 0) \div W = a /\ (a * W + 0) % W = 0 /\ a * W + 0 = a * W
  <2>1. 0 \in 0..W-1
    OBVIOUS
  <2>2. (a * W + 0) \div W = a /\ (a * W + 0) % W = 0
    BY <1>1, <2>1, PlaceIs
  <2>3. a * W \in Nat
    BY <1>1
  <2> QED BY <2>2, <2>3
<1> QED BY <1>1, <1>2, <1>3, <1>4, <1>5 DEF a

(* A place of a word is in one of its bytes.                               *)
LEMMA ByteOfWord ==
  ASSUME NEW x \in Nat
  PROVE  /\ x \div W \in Nat /\ x % W \in 0..W-1 /\ x = (x \div W) * W + (x % W) /\ (x \div W) * W \in Nat
         /\ x < WordBits <=> x \div W < WordBytes
<1>1. x \div W \in Nat /\ x % W \in 0..W-1 /\ x = (x \div W) * W + (x % W) /\ (x \div W) * W \in Nat
  BY WholeAndRest, Zenon
<1>2. WordBytes * W <= x <=> WordBytes <= x \div W
  <2>1. WordBytes \in Nat
    OBVIOUS
  <2> QED BY <2>1, PlaceOrder
<1>3. WordBits = WordBytes * W /\ WordBits \in Nat
  BY WordBitsIs
<1> QED BY <1>1, <1>2, <1>3

(* Reading a bit of a mask: it is set, and then it is not past the length. *)
LEMMA GetIs ==
  ASSUME NEW m, Row(m), NEW i \in Nat
  PROVE  /\ m.len \in Nat /\ Get(m, i) \in BOOLEAN
         /\ Get(m, i) <=> i < m.len /\ BitAt(m.bytes, i)
         /\ Get(m, i) <=> i \div W < BytesFor(m.len) /\ BitAt(m.bytes, i)
         /\ DOMAIN m.bytes = 0..BytesFor(m.len)-1 /\ BytesFor(m.len) \in Nat
<1>1. m.len \in Nat /\ m.view = {} /\ DOMAIN m.bytes = 0..BytesFor(m.len)-1 /\ BytesFor(m.len) \in Nat
  BY RawParts, BytesForHolds DEF Row
<1>2. Get(m, i) <=> i < m.len /\ BitAt(m.bytes, i)
  BY <1>1 DEF Get, BitAt
<1>3. Get(m, i) \in BOOLEAN
  BY <1>1 DEF Get
<1>4. i < m.len => i \div W < BytesFor(m.len)
  BY RowAt
<1>5. i \div W < BytesFor(m.len) /\ BitAt(m.bytes, i) => i < m.len
  <2>1. i >= m.len /\ i \div W < BytesFor(m.len) => ~BitAt(m.bytes, i)
    BY RowAt, Zenon
  <2>2. i < m.len \/ i >= m.len
    BY <1>1
  <2> QED BY <2>1, <2>2, Zenon
<1> QED BY <1>1, <1>2, <1>3, <1>4, <1>5

(* A word read from any bit of a mask shows the bits from there, and zeros *)
(* past the end of the mask.                                               *)
LEMMA LoadWordHas ==
  ASSUME NEW m, Row(m), NEW start \in Nat, NEW b \in Nat
  PROVE  b \in LoadWord(m, start) <=> b < WordBits /\ Get(m, start + b)
<1> DEFINE lo == start \div W
           s == start % W
           D == {x \in 0..WordBytes : lo + x \in DOMAIN m.bytes}
           U == UNION {Shl(m.bytes[lo + x], x * W) : x \in D}
           p == s + b
<1>1. lo \in Nat /\ s \in 0..W-1 /\ lo * W \in Nat /\ start = lo * W + s
  BY WholeAndRest
<1>2. m.len \in Nat /\ DOMAIN m.bytes = 0..BytesFor(m.len)-1 /\ \A k \in 0..BytesFor(m.len)-1 : m.bytes[k] \in Byte
  BY RawParts DEF Row
<1>3. BytesFor(m.len) \in Nat
  BY <1>2, BytesForHolds
<1>4. \A x \in D : x \in Nat /\ x * W \in Nat /\ m.bytes[lo + x] \in Byte
  BY <1>2, MultiplesOrdered
<1>5. U \subseteq Int
  <2> SUFFICES ASSUME NEW x \in D, NEW y \in Shl(m.bytes[lo + x], x * W) PROVE y \in Int
    OBVIOUS
  <2>1. PICK z \in m.bytes[lo + x] : y = z + x * W
    BY DEF Shl
  <2>2. z \in Int /\ x * W \in Nat
    BY <1>4 DEF Byte
  <2> QED BY <2>1, <2>2
<1>6. p \in Nat /\ start + b = lo * W + p
  <2> HIDE DEF lo, s
  <2> QED BY <1>1
<1>7. p \div W \in Nat /\ p % W \in 0..W-1 /\ p = (p \div W) * W + (p % W) /\ (p \div W) * W \in Nat
  <2> HIDE DEF p
  <2> QED BY <1>6, WholeAndRest, Zenon
<1>8. (start + b) \div W = lo + p \div W /\ (start + b) % W = p % W
  <2> HIDE DEF p, lo, s
  <2>1. (lo * W + p) \div W = lo + p \div W /\ (lo * W + p) % W = p % W
    BY <1>1, <1>6, PlaceMoves, Zenon
  <2> QED BY <1>6, <2>1, Zenon
<1>9. p \in U <=> p \div W \in D /\ p % W \in m.bytes[lo + p \div W]
  <2>1. ASSUME NEW x \in D, p \in Shl(m.bytes[lo + x], x * W) PROVE x = p \div W /\ p % W \in m.bytes[lo + x]
    <3>1. PICK z \in m.bytes[lo + x] : p = z + x * W
      BY <2>1 DEF Shl
    <3>2. z \in 0..W-1 /\ x \in Nat /\ x * W \in Nat
      BY <1>4 DEF Byte
    <3>3. (x * W + z) \div W = x /\ (x * W + z) % W = z /\ p = x * W + z
      <4>1. (x * W + z) \div W = x /\ (x * W + z) % W = z
        BY <3>2, PlaceIs
      <4>2. p = x * W + z
        <5> HIDE DEF p
        <5> QED BY <3>1, <3>2
      <4> QED BY <4>1, <4>2
    <3> HIDE DEF p
    <3> QED BY <3>1, <3>3
  <2>2. ASSUME p \div W \in D, p % W \in m.bytes[lo + p \div W] PROVE p \in Shl(m.bytes[lo + p \div W], (p \div W) * W)
    <3>1. p = (p % W) + (p \div W) * W
      <4> DEFINE u == p % W
                 v == (p \div W) * W
      <4>1. u \in Nat /\ v \in Nat /\ p = v + u
        BY <1>7
      <4> HIDE DEF p, u, v
      <4> QED BY <4>1 DEF u, v
    <3> HIDE DEF p
    <3> QED BY <2>2, <3>1 DEF Shl
  <2> HIDE DEF p, D, lo
  <2> QED BY <2>1, <2>2
<1>10. b < WordBits => p \div W \in 0..WordBytes
  <2>1. b < WordBits => p < (WordBytes + 1) * W
    <3>1. (WordBytes + 1) * W = WordBytes * W + W
      BY MultiplesOrdered
    <3>2. WordBits = WordBytes * W /\ WordBits \in Nat
      BY WordBitsIs
    <3> HIDE DEF s
    <3> QED BY <1>1, <3>1, <3>2
  <2>2. WordBytes + 1 <= p \div W <=> (WordBytes + 1) * W <= p
    <3> HIDE DEF p
    <3> QED BY <1>6, PlaceOrder
  <2>3. (WordBytes + 1) * W \in Nat
    BY MultiplesOrdered
  <2> HIDE DEF p
  <2> QED BY <1>6, <1>7, <2>1, <2>2, <2>3
<1>11. Get(m, start + b) <=> lo + p \div W < BytesFor(m.len) /\ p % W \in m.bytes[lo + p \div W]
  <2>1. Get(m, start + b) <=> (start + b) \div W < BytesFor(m.len) /\ BitAt(m.bytes, start + b)
    <3>1. start + b \in Nat
      OBVIOUS
    <3> QED BY <3>1, GetIs
  <2> HIDE DEF p, lo
  <2> QED BY <1>8, <2>1 DEF BitAt
<1>12. LoadWord(m, start) = LowWord(Shr(U, s))
  BY DEF LoadWord
<1>13. b \in Shr(U, s) <=> p \in U
  <2>1. b + s = p
    <3> HIDE DEF s
    <3> QED BY <1>1
  <2>2. s \in Nat
    BY <1>1
  <2> HIDE DEF U, p, s
  <2> QED BY <1>5, <2>1, <2>2, Moves
<1>14. b < WordBits => (p \div W \in D <=> lo + p \div W < BytesFor(m.len))
  <2> DEFINE k == p \div W
  <2>1. k \in D <=> k \in 0..WordBytes /\ lo + k \in 0..BytesFor(m.len)-1
    <3> HIDE DEF k, lo
    <3> QED BY <1>2
  <2>2. lo \in Nat /\ k \in Nat /\ (b < WordBits => k \in 0..WordBytes)
    BY <1>1, <1>7, <1>10
  <2> HIDE DEF k, lo, D
  <2>3. b < WordBits => (k \in D <=> lo + k < BytesFor(m.len))
    BY <1>3, <2>1, <2>2
  <2> QED BY <2>3 DEF k
<1>15. b \in LowWord(Shr(U, s)) <=> b < WordBits /\ b \in Shr(U, s)
  <2>1. WordBits \in Nat
    BY WordBitsIs
  <2> HIDE DEF U, s
  <2> QED BY <2>1 DEF LowWord, Low
<1> HIDE DEF U, D, lo, s, p
<1> QED BY <1>9, <1>11, <1>12, <1>13, <1>14, <1>15

(* It is a word.                                                           *)
LEMMA LoadWordIsWord == ASSUME NEW m, NEW start PROVE LoadWord(m, start) \subseteq 0..WordBits-1
  BY DEF LoadWord, LowWord, Low

(* Places of a word joined from two.                                       *)
LEMMA JoinedHas ==
  ASSUME NEW x, x \subseteq 0..WordBits-1, NEW y, y \subseteq 0..WordBits-1, NEW s \in 1..WordBits-1, NEW b \in Nat
  PROVE  b \in LowWord(Shr(x, s) \cup Shl(y, WordBits - s))
           <=> b < WordBits /\ IF b + s < WordBits THEN b + s \in x ELSE b + s - WordBits \in y
<1> DEFINE d == WordBits
<1>1. d \in Nat
  BY WordBitsIs
<1> HIDE DEF d
<1>2. x \subseteq 0..d-1 /\ y \subseteq 0..d-1 /\ s \in 1..d-1
  BY DEF d
<1>3. x \subseteq Int /\ y \subseteq Int /\ s \in Nat /\ d - s \in Nat
  BY <1>1, <1>2
<1>4. (b \in Shr(x, s) <=> b + s \in x) /\ (b \in Shl(y, d - s) <=> b - (d - s) \in y)
  BY <1>3, Moves
<1>5. b + s < d => b - (d - s) \notin y
  BY <1>1, <1>2
<1>6. ~(b + s < d) => b + s \notin x /\ b - (d - s) = b + s - d
  BY <1>1, <1>2
<1>7. b \in LowWord(Shr(x, s) \cup Shl(y, d - s)) <=> b < d /\ (b \in Shr(x, s) \/ b \in Shl(y, d - s))
  BY <1>1 DEF LowWord, Low, d
<1> QED BY <1>4, <1>5, <1>6, <1>7 DEF d

(* Word k of a window shows the bits of the window from the word's first.  *)
LEMMA WindowWordHas ==
  ASSUME NEW m, Row(m), NEW off \in Nat, NEW k \in Nat, NEW b \in Nat
  PROVE  b \in WindowWord(m, off, k) <=> b < WordBits /\ Get(m, off + k * WordBits + b)
<1> DEFINE d == WordBits
           q == off \div d
           s == off % d
           w == (q + k) * d
           x == LoadWord(m, w)
           y == LoadWord(m, w + d)
<1>1. d \in Nat /\ d > 1
  BY WordBitsIs
<1>2. q \in Nat /\ s \in 0..d-1 /\ q * d \in Nat /\ off = q * d + s
  BY WordSplits, Zenon
<1>3. k * d \in Nat /\ w \in Nat /\ w = q * d + k * d /\ w + d \in Nat
  <2> HIDE DEF d, q
  <2> QED BY <1>1, <1>2
<1> HIDE DEF q, s, w
<1>4. off + k * d + b = w + s + b
  <2> HIDE DEF d
  <2> QED BY <1>1, <1>2, <1>3
<1>5. x \subseteq 0..d-1 /\ y \subseteq 0..d-1
  BY LoadWordIsWord
<1>6. WindowWord(m, off, k) = LowWord(Shr(x, s) \cup (IF s = 0 THEN {} ELSE Shl(y, d - s)))
  BY DEF WindowWord, q, s, w
<1>7. CASE s = 0
  <2>1. b \in LowWord(Shr(x, s) \cup {}) <=> b < d /\ b \in x
    <3>1. x \subseteq Int /\ 0 \in Nat
      BY <1>1, <1>5
    <3> HIDE DEF x, d
    <3>2. b \in Shr(x, 0) <=> b + 0 \in x
      BY <3>1, Moves
    <3>3. b \in LowWord(Shr(x, 0) \cup {}) <=> b < d /\ b \in Shr(x, 0)
      BY <1>1 DEF LowWord, Low, d
    <3> QED BY <1>7, <3>2, <3>3
  <2>2. b \in x <=> b < d /\ Get(m, w + b)
    BY <1>3, LoadWordHas
  <2>3. off + k * d + b = w + b
    <3> HIDE DEF d
    <3> QED BY <1>3, <1>4, <1>7
  <2> HIDE DEF x, d
  <2> QED BY <1>6, <1>7, <2>1, <2>2, <2>3 DEF d
<1>8. CASE s # 0
  <2>1. s \in 1..d-1
    <3> HIDE DEF d
    <3> QED BY <1>1, <1>2, <1>8
  <2>2. b \in LowWord(Shr(x, s) \cup Shl(y, d - s))
          <=> b < d /\ IF b + s < d THEN b + s \in x ELSE b + s - d \in y
    <3> HIDE DEF x, y
    <3> QED BY <1>5, <2>1, JoinedHas
  <2>3. b + s \in x <=> b + s < d /\ Get(m, w + (b + s))
    <3>1. b + s \in Nat
      BY <2>1
    <3> QED BY <1>3, <3>1, LoadWordHas
  <2>4. ASSUME ~(b + s < d), b < d PROVE b + s - d \in y <=> Get(m, w + d + (b + s - d))
    <3>1. b + s - d \in Nat /\ b + s - d < d
      <4> HIDE DEF d
      <4> QED BY <1>1, <2>1, <2>4
    <3> HIDE DEF w
    <3> QED BY <1>3, <3>1, LoadWordHas
  <2>5. off + k * d + b = w + (b + s) /\ w + d + (b + s - d) = w + (b + s)
    <3> HIDE DEF d
    <3> QED BY <1>1, <1>3, <1>4, <2>1
  <2> HIDE DEF x, y, d
  <2> QED BY <1>6, <1>8, <2>2, <2>3, <2>4, <2>5 DEF d
<1> QED BY <1>7, <1>8

-----------------------------------------------------------------------------
(* Words put into bytes                                                    *)

(* Quotient and remainder are the only ones.                               *)
LEMMA Quotient ==
  ASSUME NEW d \in Nat, d > 0, NEW q \in Nat, NEW r \in Nat, r < d
  PROVE  q * d \in Nat /\ (q * d + r) \div d = q /\ (q * d + r) % d = r
<1> DEFINE j == q * d + r
           a == j \div d
           b == j % d
<1>1. q * d \in Nat /\ j \in Nat
  OBVIOUS
<1> HIDE DEF j
<1>2. a \in Nat /\ b \in 0..d-1 /\ j = d * a + b
  BY <1>1
<1>3. d * a = a * d /\ a * d \in Nat
  BY <1>2
<1> HIDE DEF a, b
<1>4. a = q
  <2>1. ASSUME a < q PROVE FALSE
    <3>1. PICK e \in Nat : q = a + 1 + e
      <4>1. q - a - 1 \in Nat /\ q = a + 1 + (q - a - 1)
        BY <1>2, <2>1
      <4> QED BY <4>1
    <3>2. q * d = a * d + d + e * d /\ e * d \in Nat
      BY <1>2, <3>1
    <3> QED BY <1>1, <1>2, <1>3, <3>2 DEF j
  <2>2. ASSUME q < a PROVE FALSE
    <3>1. PICK e \in Nat : a = q + 1 + e
      <4>1. a - q - 1 \in Nat /\ a = q + 1 + (a - q - 1)
        BY <1>2, <2>2
      <4> QED BY <4>1
    <3>2. a * d = q * d + d + e * d /\ e * d \in Nat
      BY <1>2, <3>1
    <3> QED BY <1>1, <1>2, <1>3, <3>2 DEF j
  <2> QED BY <1>2, <2>1, <2>2
<1>5. b = r
  BY <1>1, <1>2, <1>3, <1>4 DEF j
<1> QED BY <1>1, <1>4, <1>5 DEF a, b, j

(* Place j of a window of words is in byte (j \div W) % WordBytes of word  *)
(* j \div WordBits.                                                        *)
LEMMA WordAndByte ==
  ASSUME NEW j \in Nat
  PROVE  /\ j \div W \in Nat /\ j % W \in 0..W-1 /\ j \div WordBits = (j \div W) \div WordBytes
         /\ (j \div W) % WordBytes \in 0..WordBytes-1 /\ ((j \div W) % WordBytes) * W \in Nat
         /\ j % WordBits = (j % W) + ((j \div W) % WordBytes) * W
<1> DEFINE u == j \div W
           r == j % W
           q == u \div WordBytes
           t == u % WordBytes
           d == WordBits
<1>1. u \in Nat /\ r \in 0..W-1 /\ j = u * W + r /\ u * W \in Nat
  BY WholeAndRest, Zenon
<1>2. q \in Nat /\ t \in 0..WordBytes-1 /\ u = q * WordBytes + t /\ q * WordBytes \in Nat
  <2> HIDE DEF u
  <2>1. q \in Nat /\ t \in 0..WordBytes-1 /\ u = WordBytes * q + t
    BY <1>1
  <2>2. WordBytes * q = q * WordBytes /\ q * WordBytes \in Nat
    BY <2>1
  <2> QED BY <2>1, <2>2
<1> HIDE DEF u, r, q, t
<1>3. t * W \in Nat /\ t * W + r < d /\ d \in Nat
  <2>1. t * W \in Nat /\ (t + 1) * W = t * W + W /\ (t + 1 <= WordBytes => (t + 1) * W <= WordBytes * W)
    BY <1>2, MultiplesOrdered
  <2>2. d = WordBytes * W /\ d \in Nat
    BY WordBitsIs
  <2> HIDE DEF d
  <2> QED BY <1>1, <1>2, <2>1, <2>2
<1>4. j = q * d + (t * W + r) /\ q * d \in Nat
  <2>1. q * d = (q * WordBytes) * W /\ q * d \in Nat
    BY <1>2, <1>3, WordPlace
  <2>2. (q * WordBytes + t) * W = (q * WordBytes) * W + t * W
    BY <1>2, MultiplesOrdered
  <2> HIDE DEF d
  <2> QED BY <1>1, <1>2, <1>3, <2>1, <2>2
<1>5. j \div d = q /\ j % d = t * W + r
  <2> DEFINE y == t * W + r
  <2>1. d \in Nat /\ d > 0
    BY WordBitsIs
  <2>2. y \in Nat /\ y < d
    BY <1>1, <1>3
  <2> HIDE DEF d, y
  <2>3. (q * d + y) \div d = q /\ (q * d + y) % d = y
    BY <1>2, <2>1, <2>2, Quotient
  <2> QED BY <1>4, <2>3 DEF y
<1>6. t * W + r = r + t * W
  BY <1>1, <1>3
<1> QED BY <1>1, <1>2, <1>3, <1>5, <1>6 DEF u, r, q, t

(* Bytes with the first n words stored from byte d.                        *)
Stored(bytes, d, words, n) ==
  [i \in DOMAIN bytes |->
     IF d <= i /\ i < d + n * WordBytes
     THEN AsByte(Shr(words[(i - d) \div WordBytes], ((i - d) % WordBytes) * W)) ELSE bytes[i]]

(* One more word put into the bytes is one more word stored.               *)
LEMMA StoreStep ==
  ASSUME NEW bytes, NEW size \in Nat, DOMAIN bytes = 0..size-1, NEW d \in Nat, NEW words, NEW n \in Nat
  PROVE  PutWord(Stored(bytes, d, words, n), d + n * WordBytes, words[n]) = Stored(bytes, d, words, n + 1)
<1> DEFINE s == Stored(bytes, d, words, n)
           x == n * WordBytes
           p == PutWord(s, d + x, words[n])
           e == Stored(bytes, d, words, n + 1)
           V(i) == AsByte(Shr(words[(i - d) \div WordBytes], ((i - d) % WordBytes) * W))
<1>1. x \in Nat /\ (n + 1) * WordBytes = x + WordBytes /\ WordBytes \in Nat /\ WordBytes > 0
  OBVIOUS
<1>2. DOMAIN s = 0..size-1 /\ \A i \in 0..size-1 : s[i] = IF d <= i /\ i < d + x THEN V(i) ELSE bytes[i]
  BY DEF Stored
<1>3. e = [i \in 0..size-1 |-> IF d <= i /\ i < d + (x + WordBytes) THEN V(i) ELSE bytes[i]]
  BY <1>1 DEF Stored
<1>4. p = [i \in 0..size-1 |-> IF i \in d + x .. d + x + WordBytes - 1
                               THEN AsByte(Shr(words[n], (i - (d + x)) * W)) ELSE s[i]]
  BY <1>2 DEF PutWord
<1>5. ASSUME NEW i \in 0..size-1
      PROVE  (IF i \in d + x .. d + x + WordBytes - 1 THEN AsByte(Shr(words[n], (i - (d + x)) * W)) ELSE s[i])
               = IF d <= i /\ i < d + (x + WordBytes) THEN V(i) ELSE bytes[i]
  <2>1. CASE i \in d + x .. d + x + WordBytes - 1
    <3> DEFINE k == i - d
               r == i - (d + x)
    <3>1. k \in Nat /\ r \in 0..WordBytes-1 /\ k = x + r /\ d <= i /\ i < d + (x + WordBytes)
      <4> HIDE DEF x
      <4> QED BY <1>1, <2>1
    <3>2. k = n * WordBytes + r
      BY <3>1
    <3> HIDE DEF k, r, x
    <3>3. k \div WordBytes = n /\ k % WordBytes = r
      <4>1. r \in Nat /\ r < WordBytes
        BY <3>1
      <4> QED BY <1>1, <3>2, <4>1, Quotient
    <3> QED BY <2>1, <3>1, <3>3 DEF k, r
  <2>2. CASE ~(i \in d + x .. d + x + WordBytes - 1)
    <3> HIDE DEF x, V, s
    <3>1. (d <= i /\ i < d + (x + WordBytes)) <=> (d <= i /\ i < d + x)
      BY <1>1, <2>2
    <3> QED BY <1>2, <2>2, <3>1
  <2> QED BY <2>1, <2>2
<1> HIDE DEF p, e, x, s, V
<1>6. p = e
  BY <1>3, <1>4, <1>5
<1> QED BY <1>6 DEF p, e, x, s

(* Places of a window, as places of the output. *)
Placed(outOff, S) == {outOff + i : i \in S}

(* WriteWindow is the stored words with the bits after them put in.        *)
LEMMA WriteWindowIs ==
  ASSUME NEW out, Row(out), NEW outOff, NEW n \in Nat, NEW words, NEW ones, outOff \div W \in Nat, WholeWords(n) \in Nat
  PROVE  WriteWindow(out, outOff, n, words, ones)
           = PutBits(PutBits(New(Stored(out.bytes, outOff \div W, words, WholeWords(n)), out.len),
                             Placed(outOff, ones), TRUE),
                     Placed(outOff, Rest(n) \ ones), FALSE)
<1> DEFINE d == outOff \div W
           q == WholeWords(n)
           U(k) == Stored(out.bytes, d, words, k)
           Step(b, k) == PutWord(b, d + (k - 1) * WordBytes, words[k - 1])
           R(g) == g = [k \in 0..q |-> IF k = 0 THEN out.bytes ELSE Step(g[k - 1], k)]
           stored == CHOOSE g : R(g)
<1>0. out.len \in Nat /\ DOMAIN out.bytes = 0..BytesFor(out.len)-1 /\ BytesFor(out.len) \in Nat /\ d \in Nat /\ q \in Nat
  BY RawParts, BytesForHolds DEF Row
<1>1. WriteWindow(out, outOff, n, words, ones)
        = PutBits(PutBits(New(stored[q], out.len), Placed(outOff, ones), TRUE), Placed(outOff, Rest(n) \ ones), FALSE)
  BY DEF WriteWindow, Placed
<1>2. out.bytes = U(0)
  <2>1. 0 * WordBytes = 0
    OBVIOUS
  <2>2. \A i \in DOMAIN out.bytes : ~(d <= i /\ i < d + 0)
    BY <1>0
  <2>3. out.bytes = [i \in DOMAIN out.bytes |-> out.bytes[i]]
    <3>1. out.bytes \in Packed(out.len)
      BY RawParts DEF Row
    <3> QED BY <3>1 DEF Packed
  <2> HIDE DEF d
  <2> QED BY <2>1, <2>2, <2>3 DEF Stored
<1>3. \A k \in 1..q : Step(U(k - 1), k) = U(k)
  <2> TAKE k \in 1..q
  <2>1. k - 1 \in Nat /\ (k - 1) + 1 = k
    BY <1>0
  <2> HIDE DEF d
  <2>2. PutWord(Stored(out.bytes, d, words, k - 1), d + (k - 1) * WordBytes, words[k - 1])
          = Stored(out.bytes, d, words, (k - 1) + 1)
    BY <1>0, <2>1, StoreStep
  <2> QED BY <2>1, <2>2
<1> HIDE DEF U, Step, q, d
<1>4. R(stored)
  <2> DEFINE g == [k \in 0..q |-> U(k)]
  <2>1. R(g)
    <3>1. \A k \in 0..q : g[k] = IF k = 0 THEN out.bytes ELSE Step(g[k - 1], k)
      <4> TAKE k \in 0..q
      <4>1. CASE k = 0
        BY <1>2, <4>1
      <4>2. CASE k # 0
        <5>1. k \in 1..q /\ k - 1 \in 0..q
          BY <1>0, <4>2
        <5>2. g[k] = U(k) /\ g[k - 1] = U(k - 1)
          BY <5>1
        <5> HIDE DEF g
        <5> QED BY <1>3, <4>2, <5>1, <5>2
      <4> QED BY <4>1, <4>2
    <3>2. g = [k \in 0..q |-> g[k]]
      OBVIOUS
    <3> HIDE DEF g
    <3> QED BY <3>1, <3>2
  <2> HIDE DEF R, g
  <2> QED BY <2>1
<1> HIDE DEF stored
<1> DEFINE T == {k \in Nat : k <= q => stored[k] = U(k)}
<1>5. 0 \in T
  <2>1. stored[0] = out.bytes
    BY <1>0, <1>4
  <2> QED BY <1>2, <2>1
<1>6. ASSUME NEW k \in Nat, k \in T PROVE k + 1 \in T
  <2> SUFFICES ASSUME k + 1 <= q PROVE stored[k + 1] = U(k + 1)
    OBVIOUS
  <2>1. k + 1 \in 1..q /\ (k + 1) - 1 = k /\ k + 1 # 0 /\ k <= q
    BY <1>0
  <2>2. stored[k + 1] = Step(stored[k], k + 1)
    BY <1>4, <2>1
  <2>3. stored[k] = U(k)
    BY <1>6, <2>1
  <2>4. Step(U((k + 1) - 1), k + 1) = U(k + 1)
    BY <1>3, <2>1
  <2> QED BY <2>1, <2>2, <2>3, <2>4
<1>7. q \in T
  <2> HIDE DEF T
  <2> QED BY <1>0, <1>5, <1>6, Induction
<1>8. stored[q] = U(q)
  BY <1>0, <1>7
<1> QED BY <1>1, <1>8 DEF U, q, d

(* Stored bytes show the words, place by place, and what was there around. *)
LEMMA StoredAt ==
  ASSUME NEW size \in Nat, NEW bytes \in Buffers(size), NEW d \in Nat, NEW words, NEW n \in Nat,
         \A k \in 0..n-1 : words[k] \subseteq 0..WordBits-1, NEW i \in Nat, i \div W < size
  PROVE  /\ d * W \in Nat /\ n * WordBits \in Nat /\ Stored(bytes, d, words, n) \in Buffers(size)
         /\ BitAt(Stored(bytes, d, words, n), i)
              <=> IF d * W <= i /\ i < d * W + n * WordBits
                  THEN (i - d * W) % WordBits \in words[(i - d * W) \div WordBits] ELSE BitAt(bytes, i)
<1> DEFINE s == Stored(bytes, d, words, n)
           c == i \div W
           r == i % W
           V(k) == AsByte(Shr(words[(k - d) \div WordBytes], ((k - d) % WordBytes) * W))
<1>1. d * W \in Nat /\ n * WordBits \in Nat /\ n * WordBytes \in Nat /\ n * WordBits = (n * WordBytes) * W
      /\ (d + n * WordBytes) * W = d * W + n * WordBits
  <2>1. d * W \in Nat /\ n * WordBytes \in Nat
    BY MultiplesOrdered
  <2>2. n * WordBits \in Nat /\ n * WordBits = (n * WordBytes) * W
    BY WordPlace
  <2>3. (d + n * WordBytes) * W = d * W + (n * WordBytes) * W
    BY <2>1, MultiplesOrdered
  <2> QED BY <2>1, <2>2, <2>3
<1>2. DOMAIN bytes = 0..size-1 /\ \A k \in 0..size-1 : bytes[k] \in Byte
  BY DEF Buffers
<1>3. s = [k \in 0..size-1 |-> IF d <= k /\ k < d + n * WordBytes THEN V(k) ELSE bytes[k]]
  BY <1>2 DEF Stored
<1>4. \A k : V(k) \in Byte
  BY DEF AsByte, Low, Byte
<1>5. s \in Buffers(size)
  <2> HIDE DEF V, s
  <2> QED BY <1>2, <1>3, <1>4 DEF Buffers
<1>6. c \in Nat /\ r \in 0..W-1 /\ i = c * W + r /\ c * W \in Nat /\ c \in 0..size-1
  <2>1. c \in Nat /\ r \in 0..W-1 /\ i = c * W + r /\ c * W \in Nat
    BY WholeAndRest, Zenon
  <2>2. c < size
    OBVIOUS
  <2> HIDE DEF c
  <2>3. c \in 0..size-1
    BY <2>1, <2>2
  <2> QED BY <2>1, <2>3
<1>7. (d <= c <=> d * W <= i) /\ (d + n * WordBytes <= c <=> d * W + n * WordBits <= i)
  <2>1. d <= c <=> d * W <= i
    BY PlaceOrder
  <2>2. d + n * WordBytes \in Nat
    BY <1>1
  <2>3. d + n * WordBytes <= c <=> (d + n * WordBytes) * W <= i
    BY <2>2, PlaceOrder
  <2> QED BY <1>1, <2>1, <2>3, Zenon
<1>8. BitAt(s, i) <=> r \in s[c]
  BY DEF BitAt
<1>9. CASE d * W <= i /\ i < d * W + n * WordBits
  <2> DEFINE j == i - d * W
             e == c - d
             q == e \div WordBytes
             t == e % WordBytes
  <2>1. j \in Nat /\ d <= c /\ c < d + n * WordBytes /\ e \in Nat /\ e < n * WordBytes
    <3> DEFINE dw == d * W
               nb == n * WordBytes
               nw == n * WordBits
    <3> HIDE DEF c, r, dw, nb, nw
    <3>1. dw \in Nat /\ nb \in Nat /\ nw \in Nat /\ (d <= c <=> dw <= i) /\ (d + nb <= c <=> dw + nw <= i)
          /\ dw <= i /\ i < dw + nw /\ c \in Nat
      BY <1>1, <1>6, <1>7, <1>9 DEF dw, nb, nw
    <3>2. i - dw \in Nat /\ d <= c /\ c < d + nb /\ c - d \in Nat /\ c - d < nb
      BY <3>1
    <3> QED BY <3>2 DEF dw, nb
  <2>2. j \div W = e /\ j % W = r
    <3>1. j = e * W + r
      <4>1. c * W = d * W + e * W /\ e * W \in Nat
        <5>1. c = d + e
          <6> HIDE DEF c
          <6> QED BY <1>6
        <5> HIDE DEF c, e
        <5>2. (d + e) * W = d * W + e * W /\ e * W \in Nat
          BY <2>1, MultiplesOrdered
        <5> QED BY <5>1, <5>2
      <4> DEFINE cw == c * W
                 dw == d * W
                 ew == e * W
      <4>2. i = cw + r /\ cw = dw + ew /\ cw \in Nat /\ dw \in Nat /\ ew \in Nat /\ r \in Nat
        BY <1>1, <1>6, <4>1
      <4> HIDE DEF cw, dw, ew, r
      <4>3. i - dw = ew + r
        BY <4>2
      <4> QED BY <4>3 DEF dw, ew
    <3> HIDE DEF j, e, r
    <3> QED BY <1>6, <2>1, <3>1, PlaceIs
  <2> HIDE DEF j, e
  <2>3. j \div WordBits = q /\ t \in 0..WordBytes-1 /\ t * W \in Nat /\ j % WordBits = r + t * W /\ q \in Nat
    <3>1. j \div WordBits = (j \div W) \div WordBytes /\ (j \div W) % WordBytes \in 0..WordBytes-1
          /\ ((j \div W) % WordBytes) * W \in Nat /\ j % WordBits = (j % W) + ((j \div W) % WordBytes) * W
      BY <2>1, WordAndByte, Zenon
    <3>2. j \div WordBits \in Nat
      BY <2>1, WordSplits
    <3> QED BY <2>2, <3>1, <3>2, Zenon
  <2>4. q \in 0..n-1
    <3>1. j < n * WordBits
      <4> DEFINE dw == d * W
                 nw == n * WordBits
      <4> HIDE DEF dw, nw
      <4>1. dw \in Nat /\ nw \in Nat /\ i < dw + nw
        BY <1>1, <1>9 DEF dw, nw
      <4>2. i - dw < nw
        BY <4>1
      <4> QED BY <4>2 DEF j, dw, nw
    <3>2. j = q * WordBits + (j % WordBits) /\ j % WordBits \in Nat /\ q * WordBits \in Nat
      <4>1. j = (j \div WordBits) * WordBits + (j % WordBits) /\ j % WordBits \in 0..WordBits-1
            /\ (j \div WordBits) * WordBits \in Nat
        BY <2>1, WordSplits, Zenon
      <4>2. j % WordBits \in Nat
        <5> DEFINE y == j % WordBits
        <5>1. y \in 0..WordBits-1
          BY <4>1
        <5> HIDE DEF y
        <5>2. y \in Nat
          BY <5>1
        <5> QED BY <5>2 DEF y
      <4> QED BY <2>3, <4>1, <4>2, Zenon
    <3>3. q * WordBits < n * WordBits
      <4> DEFINE x == q * WordBits
                 y == n * WordBits
                 z == j % WordBits
      <4> HIDE DEF q
      <4>1. j = x + z /\ z \in Nat /\ x \in Nat /\ y \in Nat /\ j < y
        BY <1>1, <3>1, <3>2
      <4> HIDE DEF x, y, z
      <4>2. x < y
        BY <4>1
      <4> QED BY <4>2 DEF x, y
    <3> HIDE DEF q
    <3>4. ASSUME n <= q PROVE FALSE
      <4>1. PICK g \in Nat : q = n + g
        <5>1. q - n \in Nat /\ q = n + (q - n)
          BY <2>3, <3>4
        <5> QED BY <5>1
      <4>2. WordBits \in Nat
        BY WordBitsIs
      <4> DEFINE w == WordBits
      <4> HIDE DEF w
      <4>3. q * w = n * w + g * w /\ g * w \in Nat /\ n * w \in Nat
        BY <4>1, <4>2 DEF w
      <4>4. ~(q * w < n * w)
        BY <4>3
      <4> QED BY <3>3, <4>4 DEF w
    <3> QED BY <2>3, <3>4
  <2>5. s[c] = AsByte(Shr(words[q], t * W))
    <3>1. d <= c /\ c < d + n * WordBytes /\ c \in 0..size-1
      BY <1>6, <2>1
    <3> HIDE DEF c
    <3> QED BY <1>3, <3>1 DEF e
  <2>6. r \in AsByte(Shr(words[q], t * W)) <=> r + t * W \in words[q]
    <3>1. words[q] \subseteq Int /\ r \in Nat
      <4> HIDE DEF q, r
      <4>1. words[q] \subseteq 0..WordBits-1
        BY <2>4, Zenon
      <4> QED BY <1>6, <4>1
    <3> DEFINE x == words[q]
               y == t * W
    <3>2. x \subseteq Int /\ y \in Nat
      BY <2>3, <3>1
    <3> HIDE DEF x, y, r
    <3>3. r \in Shr(x, y) <=> r + y \in x
      BY <3>1, <3>2, Moves
    <3>4. r \in AsByte(Shr(x, y)) <=> r \in Shr(x, y)
      BY <1>6 DEF AsByte, Low
    <3> QED BY <3>3, <3>4 DEF x, y
  <2> HIDE DEF s, c, r, q, t
  <2>7. BitAt(s, i) <=> j % WordBits \in words[j \div WordBits]
    BY <1>8, <2>3, <2>5, <2>6, Zenon
  <2> QED BY <1>1, <1>5, <1>9, <2>7 DEF s, j
<1>10. CASE ~(d * W <= i /\ i < d * W + n * WordBits)
  <2>1. ~(d <= c /\ c < d + n * WordBytes)
    <3> DEFINE dw == d * W
               nb == n * WordBytes
               nw == n * WordBits
    <3> HIDE DEF c, dw, nb, nw
    <3>1. dw \in Nat /\ nb \in Nat /\ nw \in Nat /\ (d <= c <=> dw <= i) /\ (d + nb <= c <=> dw + nw <= i)
          /\ ~(dw <= i /\ i < dw + nw) /\ c \in Nat
      BY <1>1, <1>6, <1>7, <1>10 DEF dw, nb, nw
    <3>2. ~(d <= c /\ c < d + nb)
      BY <3>1
    <3> QED BY <3>2 DEF nb
  <2>2. s[c] = bytes[c]
    <3> HIDE DEF c, V
    <3> QED BY <1>3, <1>6, <2>1
  <2> HIDE DEF s
  <2> QED BY <1>1, <1>5, <1>8, <1>10, <2>2 DEF BitAt, s
<1> QED BY <1>9, <1>10

(* Bytes that set no bit past the length are a mask in its only form.      *)
LEMMA RowFromBits ==
  ASSUME NEW n \in Nat, NEW bytes \in Packed(n),
         \A i \in Nat : i >= n /\ i \div W < BytesFor(n) => ~BitAt(bytes, i)
  PROVE  Row(New(bytes, n)) /\ New(bytes, n).len = n /\ New(bytes, n).bytes = bytes
<1>1. ASSUME NEW k \in 0..BytesFor(n)-1, NEW b \in bytes[k] PROVE b \in Inside(k, n)
  <2>1. BytesFor(n) \in Nat
    BY BytesForHolds
  <2>2. k \in Nat /\ b \in 0..W-1
    <3>1. bytes[k] \in SUBSET (0..W-1)
      BY <1>1 DEF Packed, Byte
    <3> QED BY <1>1, <2>1, <3>1
  <2> DEFINE i == k * W + b
  <2>3. i \in Nat /\ i \div W = k /\ i % W = b
    BY <2>2, PlaceIs
  <2> HIDE DEF i
  <2>4. BitAt(bytes, i) /\ i \div W < BytesFor(n)
    BY <1>1, <2>1, <2>3 DEF BitAt
  <2>5. i < n
    BY <2>3, <2>4
  <2> QED BY <2>2, <2>5 DEF Inside, i
<1>2. Row(New(bytes, n)) /\ New(bytes, n).len = n
  BY <1>1, RowIs
<1> QED BY <1>2, NewIsRaw

-----------------------------------------------------------------------------
(* A window written word by word                                           *)

(* The words of a window and what is left after them.                      *)
LEMMA WindowSplits ==
  ASSUME NEW n \in Nat
  PROVE  /\ WholeWords(n) \in Nat /\ WholeWords(n) * WordBits \in Nat /\ WholeWords(n) * WordBits <= n
         /\ n < WholeWords(n) * WordBits + WordBits
         /\ \A j \in Nat : /\ j \in Rest(n) <=> WholeWords(n) * WordBits <= j /\ j < n
                           /\ j < WholeWords(n) * WordBits => j \div WordBits \in 0..WholeWords(n)-1
<1> DEFINE d == WordBits
           q == n \div d
           e == q * d
<1>1. q \in Nat /\ n % d \in 0..d-1 /\ e \in Nat /\ n = e + (n % d) /\ WholeWords(n) = q
  BY WordSplits, Zenon DEF WholeWords
<1>2. d \in Nat /\ d > 0
  BY WordBitsIs
<1>3. e <= n /\ n < e + d
  <2> DEFINE r == n % d
  <2>1. r \in 0..d-1 /\ n = e + r
    BY <1>1
  <2> HIDE DEF r, e, d
  <2> QED BY <1>1, <1>2, <2>1
<1>4. ASSUME NEW j \in Nat PROVE j \in Rest(n) <=> e <= j /\ j < n
  <2>1. Rest(n) = e .. n - 1
    BY <1>1 DEF Rest
  <2> HIDE DEF e
  <2> QED BY <1>1, <2>1
<1>5. ASSUME NEW j \in Nat, j < e PROVE j \div d \in 0..q-1
  <2> DEFINE a == j \div d
             b == j % d
  <2>1. a \in Nat /\ b \in 0..d-1 /\ j = a * d + b /\ a * d \in Nat
    BY WordSplits, Zenon
  <2> HIDE DEF a, b, q, d
  <2>2. ASSUME q <= a PROVE FALSE
    <3>1. PICK g \in Nat : a = q + g
      <4>1. a - q \in Nat /\ a = q + (a - q)
        BY <1>1, <2>1, <2>2
      <4> QED BY <4>1
    <3>2. a * d = e + g * d /\ g * d \in Nat
      BY <1>1, <1>2, <3>1
    <3> HIDE DEF e
    <3> QED BY <1>1, <1>2, <1>5, <2>1, <3>2
  <2> QED BY <1>1, <2>1, <2>2 DEF a
<1> HIDE DEF e, q, d
<1> QED BY <1>1, <1>3, <1>4, <1>5 DEF e, d

(* A kernel that makes the words and the bits after them of a row of hits  *)
(* writes the hits to the window of the output and nothing else.           *)
LEMMA WindowIsWritten ==
  ASSUME NEW out, Row(out), NEW outOff \in Nat, outOff % W = 0, NEW n \in Nat, outOff + n <= out.len, NEW hits,
         NEW words, \A k \in 0..WholeWords(n)-1 : words[k] \subseteq 0..WordBits-1,
         \A k \in 0..WholeWords(n)-1, b \in 0..WordBits-1 : b \in words[k] <=> k * WordBits + b \in hits,
         NEW ones, ones \subseteq Rest(n), \A i \in Rest(n) : i \in ones <=> i \in hits
  PROVE  LET x == WriteWindow(out, outOff, n, words, ones)
         IN /\ Row(x) /\ x.len = out.len
            /\ \A i \in 0..out.len-1 :
                 BitAt(x.bytes, i) <=> IF outOff <= i /\ i < outOff + n THEN i - outOff \in hits ELSE BitAt(out.bytes, i)
<1> DEFINE d == outOff \div W
           q == WholeWords(n)
           e == q * WordBits
           len == out.len
           s == Stored(out.bytes, d, words, q)
           m == New(s, len)
           S == Placed(outOff, ones)
           C == Placed(outOff, Rest(n) \ ones)
           y == PutBits(m, S, TRUE)
           x == PutBits(y, C, FALSE)
<1>1. len \in Nat /\ out.bytes \in Buffers(BytesFor(len)) /\ BytesFor(len) \in Nat
  BY RawParts, BytesForHolds DEF Row, Packed, Buffers
<1>2. d \in Nat /\ d * W = outOff
  <2>1. d \in Nat /\ outOff = d * W + 0
    BY WholeAndRest, Zenon
  <2>2. d * W \in Nat
    BY <2>1, MultiplesOrdered
  <2> HIDE DEF d
  <2> QED BY <2>1, <2>2
<1>3. q \in Nat /\ e \in Nat /\ e <= n /\ \A j \in Nat : /\ j \in Rest(n) <=> e <= j /\ j < n
                                                         /\ j < e => j \div WordBits \in 0..q-1
  BY WindowSplits
<1>4. WriteWindow(out, outOff, n, words, ones) = x
  <2>1. outOff \div W \in Nat /\ WholeWords(n) \in Nat
    BY <1>2, <1>3
  <2> HIDE DEF d, q, e, len, s, m, S, C, y, x
  <2>2. WriteWindow(out, outOff, n, words, ones)
          = PutBits(PutBits(New(Stored(out.bytes, outOff \div W, words, WholeWords(n)), out.len),
                            Placed(outOff, ones), TRUE),
                    Placed(outOff, Rest(n) \ ones), FALSE)
    BY <2>1, WriteWindowIs
  <2> QED BY <2>2 DEF d, q, len, s, m, S, C, y, x
<1> HIDE DEF len, d, q, e
<1>5. ASSUME NEW i \in Nat, i \div W < BytesFor(len)
      PROVE  /\ s \in Buffers(BytesFor(len))
             /\ BitAt(s, i) <=> IF outOff <= i /\ i < outOff + e THEN (i - outOff) % WordBits \in words[(i - outOff) \div WordBits]
                                ELSE BitAt(out.bytes, i)
  <2>1. \A k \in 0..q-1 : words[k] \subseteq 0..WordBits-1
    BY DEF q
  <2>2. /\ s \in Buffers(BytesFor(len))
        /\ BitAt(s, i) <=> IF d * W <= i /\ i < d * W + q * WordBits
                           THEN (i - d * W) % WordBits \in words[(i - d * W) \div WordBits] ELSE BitAt(out.bytes, i)
    BY <1>1, <1>2, <1>3, <1>5, <2>1, StoredAt, Zenon
  <2> HIDE DEF s
  <2> QED BY <1>2, <2>2, Zenon DEF e
<1>6. s \in Packed(len)
  <2>1. DOMAIN s = 0..BytesFor(len)-1 /\ s = [i \in DOMAIN s |-> s[i]]
    BY <1>1 DEF Stored, Buffers
  <2>2. \A i \in 0..BytesFor(len)-1 : s[i] \in Byte
    BY <1>1 DEF Stored, AsByte, Byte, Low, Buffers
  <2> HIDE DEF s
  <2> QED BY <2>1, <2>2, Zenon DEF Packed
<1> HIDE DEF s
<1>7. Row(m) /\ m.len = len /\ m.bytes = s
  <2>1. ASSUME NEW i \in Nat, i >= len, i \div W < BytesFor(len) PROVE ~BitAt(s, i)
    <3>1. ~(outOff <= i /\ i < outOff + e)
      BY <1>1, <1>3, <2>1 DEF len
    <3>2. ~BitAt(out.bytes, i)
      BY <2>1, RowAt, Zenon DEF len
    <3> QED BY <1>5, <2>1, <3>1, <3>2, Zenon
  <2> QED BY <1>1, <1>6, <2>1, RowFromBits
<1> HIDE DEF m
<1>8. \A i \in Nat : /\ i \in S <=> outOff <= i /\ i - outOff \in ones
                     /\ i \in C <=> outOff <= i /\ i - outOff \in Rest(n) \ ones
  <2> TAKE i \in Nat
  <2>1. \A j \in Rest(n) : j \in Int /\ j >= 0
    <3>1. Rest(n) = e .. n - 1
      BY DEF Rest, e, q
    <3> QED BY <1>3, <3>1
  <2>2. ASSUME NEW T, T \subseteq Rest(n) PROVE i \in Placed(outOff, T) <=> outOff <= i /\ i - outOff \in T
    <3>1. ASSUME NEW j \in T, i = outOff + j PROVE outOff <= i /\ i - outOff = j
      BY <2>1, <2>2, <3>1
    <3>2. i = outOff + (i - outOff)
      OBVIOUS
    <3> QED BY <3>1, <3>2 DEF Placed
  <2>3. Rest(n) \ ones \subseteq Rest(n)
    OBVIOUS
  <2> QED BY <2>2, <2>3
<1>9. S \in SUBSET (0..len-1) /\ C \in SUBSET (0..len-1)
  <2>1. \A j \in Rest(n) : outOff + j \in 0..len-1
    <3>1. Rest(n) = e .. n - 1
      BY DEF Rest, e, q
    <3> QED BY <1>1, <1>3, <3>1 DEF len
  <2> QED BY <2>1 DEF Placed
<1> HIDE DEF S, C
<1>10. S \in SUBSET Nat /\ C \in SUBSET Nat
  BY <1>1, <1>9
<1>11. Row(y) /\ y.len = len /\ \A i \in 0..len-1 : BitAt(y.bytes, i) <=> (IF i \in S THEN TRUE = TRUE ELSE BitAt(s, i))
  <2>1. Row(y) /\ y.len = len
    BY <1>7, <1>9, PutBitsRow
  <2>2. Raw(m)
    BY <1>7 DEF Row
  <2> HIDE DEF y
  <2>3. \A i \in 0..len-1 : BitAt(y.bytes, i) <=> (IF i \in S THEN TRUE = TRUE ELSE BitAt(m.bytes, i))
    BY <1>7, <1>10, <2>2, PutBitsAt DEF y
  <2> QED BY <1>7, <2>1, <2>3
<1> HIDE DEF y
<1>12. Row(x) /\ x.len = len /\ \A i \in 0..len-1 : BitAt(x.bytes, i) <=> (IF i \in C THEN FALSE = TRUE ELSE BitAt(y.bytes, i))
  <2>1. Row(x) /\ x.len = len
    BY <1>11, <1>9, PutBitsRow
  <2>2. Raw(y)
    BY <1>11 DEF Row
  <2> HIDE DEF x
  <2>3. \A i \in 0..len-1 : BitAt(x.bytes, i) <=> (IF i \in C THEN FALSE = TRUE ELSE BitAt(y.bytes, i))
    BY <1>11, <1>10, <2>2, PutBitsAt DEF x
  <2> QED BY <2>1, <2>3
<1> HIDE DEF x
<1>13. ASSUME NEW i \in 0..len-1
       PROVE  BitAt(x.bytes, i) <=> IF outOff <= i /\ i < outOff + n THEN i - outOff \in hits ELSE BitAt(out.bytes, i)
  <2>0. i \in Nat /\ i \div W < BytesFor(len)
    <3>1. i \div W \in 0..BytesFor(len)-1
      BY <1>1, PlaceWithin
    <3> DEFINE k == i \div W
    <3>2. k \in 0..BytesFor(len)-1
      BY <3>1
    <3> HIDE DEF k
    <3>3. k < BytesFor(len)
      BY <1>1, <3>2
    <3> QED BY <1>1, <3>3 DEF k
  <2>1. BitAt(x.bytes, i) <=> i \notin C /\ (i \in S \/ BitAt(s, i))
    BY <1>11, <1>12
  <2>2. BitAt(s, i) <=> IF outOff <= i /\ i < outOff + e THEN (i - outOff) % WordBits \in words[(i - outOff) \div WordBits]
                        ELSE BitAt(out.bytes, i)
    BY <1>5, <2>0
  <2>3. CASE outOff <= i /\ i < outOff + n
    <3> DEFINE j == i - outOff
    <3>1. j \in Nat /\ j < n /\ (j < e <=> i < outOff + e) /\ outOff <= i
      BY <1>3, <2>0, <2>3
    <3> HIDE DEF j
    <3>2. (i \in S <=> j \in ones) /\ (i \in C <=> j \in Rest(n) \ ones)
      BY <1>8, <2>0, <3>1 DEF j
    <3>3. CASE j < e
      <4> DEFINE k == j \div WordBits
                 b == j % WordBits
      <4>1. k \in 0..q-1 /\ b \in 0..WordBits-1 /\ j = k * WordBits + b
        <5>1. j \div WordBits \in 0..q-1
          BY <1>3, <3>1, <3>3
        <5> QED BY <3>1, <5>1, WordSplits, Zenon
      <4>2. j \notin Rest(n)
        BY <1>3, <3>1, <3>3
      <4>3. BitAt(s, i) <=> b \in words[k]
        BY <2>2, <3>1, <3>3 DEF j
      <4> HIDE DEF k, b
      <4>4. b \in words[k] <=> j \in hits
        BY <4>1 DEF q
      <4> QED BY <2>1, <2>3, <3>2, <4>2, <4>3, <4>4 DEF j
    <3>4. CASE ~(j < e)
      <4>1. j \in Rest(n)
        BY <1>3, <3>1, <3>4
      <4> QED BY <2>1, <2>3, <3>2, <4>1 DEF j
    <3> QED BY <3>3, <3>4
  <2>4. CASE ~(outOff <= i /\ i < outOff + n)
    <3>1. ~(outOff <= i /\ i < outOff + e)
      BY <1>3, <2>0, <2>4
    <3>2. outOff <= i => i - outOff \in Nat /\ i - outOff \notin Rest(n)
      <4> SUFFICES ASSUME outOff <= i PROVE i - outOff \in Nat /\ i - outOff \notin Rest(n)
        OBVIOUS
      <4>1. i - outOff \in Nat /\ ~(i - outOff < n)
        BY <2>0, <2>4
      <4> QED BY <1>3, <4>1
    <3>3. i \notin S /\ i \notin C
      BY <1>8, <2>0, <3>2
    <3> QED BY <2>1, <2>2, <2>4, <3>1, <3>3
  <2> QED BY <2>3, <2>4
<1> QED BY <1>4, <1>12, <1>13 DEF len

(* Words that show the n bits of a mask from bit off.                      *)
Joins(words, m, off, n) ==
  \A k \in 0..WholeWords(n)-1 :
    /\ words[k] \subseteq 0..WordBits-1
    /\ \A b \in 0..WordBits-1 : b \in words[k] <=> Get(m, off + (k * WordBits + b))

(* Bits that are those of a window.                                        *)
BitsOf(bits, n) == DOMAIN bits = 0..n-1 /\ \A i \in 0..n-1 : bits[i] \in BOOLEAN

(* A place of a word of a window is in the window.                         *)
LEMMA PlaceInWindow ==
  ASSUME NEW n \in Nat, NEW k \in 0..WholeWords(n)-1, NEW b \in 0..WordBits-1
  PROVE  /\ k \in Nat /\ b \in Nat /\ k * WordBits \in Nat /\ k * WordBits + b \in 0..n-1
<1> DEFINE d == WordBits
           q == WholeWords(n)
<1>1. q \in Nat /\ q * d \in Nat /\ q * d <= n /\ d \in Nat /\ k \in Nat /\ b \in Nat /\ b < d /\ k < q
  <2>1. q \in Nat /\ q * d \in Nat /\ q * d <= n /\ d \in Nat
    BY WindowSplits, WordBitsIs, Zenon
  <2> HIDE DEF q, d
  <2> QED BY <2>1 DEF q, d
<1> HIDE DEF d, q
<1>2. PICK e \in Nat : q = k + 1 + e
  <2>1. q - k - 1 \in Nat /\ q = k + 1 + (q - k - 1)
    BY <1>1
  <2> QED BY <2>1
<1>3. q * d = k * d + d + e * d /\ e * d \in Nat /\ k * d \in Nat
  BY <1>1, <1>2
<1>4. k * d + b \in 0..n-1
  <2> DEFINE x == k * d
             y == e * d
             z == q * d
  <2>1. z = x + d + y /\ y \in Nat /\ x \in Nat /\ z <= n
    BY <1>1, <1>3
  <2> HIDE DEF x, y, z
  <2>2. x + b \in 0..n-1
    BY <1>1, <2>1
  <2> QED BY <2>2 DEF x
<1> QED BY <1>1, <1>3, <1>4 DEF d

(* Window words are the words of a window.                                 *)
LEMMA WindowWordsJoin ==
  ASSUME NEW m, Row(m), NEW off \in Nat, NEW n \in Nat, NEW words, \A k \in 0..WholeWords(n)-1 : words[k] = WindowWord(m, off, k)
  PROVE  Joins(words, m, off, n)
<1> SUFFICES ASSUME NEW k \in 0..WholeWords(n)-1
             PROVE  /\ words[k] \subseteq 0..WordBits-1
                    /\ \A b \in 0..WordBits-1 : b \in words[k] <=> Get(m, off + (k * WordBits + b))
  BY DEF Joins
<1>1. words[k] \subseteq 0..WordBits-1
  BY DEF WindowWord, LowWord, Low
<1>2. ASSUME NEW b \in 0..WordBits-1 PROVE b \in words[k] <=> Get(m, off + (k * WordBits + b))
  <2>1. k \in Nat /\ b \in Nat /\ k * WordBits \in Nat
    BY PlaceInWindow
  <2>2. b < WordBits
    BY WordBitsIs
  <2>3. b \in WindowWord(m, off, k) <=> Get(m, off + k * WordBits + b)
    BY <2>1, <2>2, WindowWordHas
  <2>4. off + k * WordBits + b = off + (k * WordBits + b)
    BY <2>1
  <2> QED BY <2>3, <2>4
<1> QED BY <1>1, <1>2

(* A mask of one value with a row of bits written to it reads as the row   *)
(* with that value around it.                                              *)
LEMMA AroundReads ==
  ASSUME NEW lead \in Nat, NEW n \in Nat, NEW v \in BOOLEAN, NEW x, Row(x), x.len = lead + n + W,
         NEW bits, BitsOf(bits, n),
         \A i \in 0..x.len-1 : BitAt(x.bytes, i) <=> IF lead <= i /\ i < lead + n THEN bits[i - lead] = TRUE ELSE v = TRUE
  PROVE  Reads(x, Around(bits, lead, v))
<1> DEFINE a == Around(bits, lead, v)
<1>1. Size(bits) = n
  BY SizeIs DEF BitsOf
<1>2. DOMAIN a = 0..x.len-1 /\ a = [i \in DOMAIN a |-> a[i]]
      /\ \A i \in 0..x.len-1 : a[i] = IF i \in lead..lead + n - 1 THEN bits[i - lead] ELSE v
  BY <1>1 DEF Around
<1> HIDE DEF a
<1>3. ASSUME NEW i \in 0..x.len-1 PROVE a[i] \in BOOLEAN /\ (a[i] <=> BitAt(x.bytes, i))
  <2>1. i \in lead..lead + n - 1 <=> lead <= i /\ i < lead + n
    OBVIOUS
  <2>2. i \in lead..lead + n - 1 => i - lead \in 0..n-1
    OBVIOUS
  <2>3. CASE i \in lead..lead + n - 1
    <3>1. a[i] = bits[i - lead] /\ bits[i - lead] \in BOOLEAN /\ (BitAt(x.bytes, i) <=> bits[i - lead] = TRUE)
      BY <1>2, <2>1, <2>2, <2>3 DEF BitsOf
    <3> QED BY <3>1, Zenon
  <2>4. CASE ~(i \in lead..lead + n - 1)
    <3>1. a[i] = v /\ (BitAt(x.bytes, i) <=> v = TRUE)
      BY <1>2, <2>1, <2>4
    <3> QED BY <3>1, Zenon
  <2> QED BY <2>3, <2>4
<1>4. Reads(x, a)
  BY <1>2, <1>3, ReadsAs, Zenon
<1> QED BY <1>4 DEF a

(* A kernel that makes the words and the bits after them of a row of bits  *)
(* writes the row.                                                         *)
LEMMA KernelWrites ==
  ASSUME NEW lead \in Nat, lead % W = 0, NEW n \in Nat, NEW v \in BOOLEAN, NEW bits, BitsOf(bits, n),
         NEW words, \A k \in 0..WholeWords(n)-1 : words[k] \subseteq 0..WordBits-1,
         \A k \in 0..WholeWords(n)-1, b \in 0..WordBits-1 : b \in words[k] <=> bits[k * WordBits + b] = TRUE,
         NEW ones, ones \subseteq Rest(n), \A i \in Rest(n) : i \in ones <=> bits[i] = TRUE
  PROVE  Reads(WriteWindow(NewSetAll(lead + n + W, v), lead, n, words, ones), Around(bits, lead, v))
<1> DEFINE out == NewSetAll(lead + n + W, v)
           x == WriteWindow(out, lead, n, words, ones)
           hits == {i \in 0..n-1 : bits[i] = TRUE}
<1>1. Row(out) /\ out.len = lead + n + W /\ \A i \in 0..out.len-1 : BitAt(out.bytes, i) <=> v = TRUE
  <2>1. lead + n + W \in Nat
    OBVIOUS
  <2> QED BY <2>1, NewSetAllAt
<1>2. lead + n <= out.len
  BY <1>1
<1>3. \A k \in 0..WholeWords(n)-1, b \in 0..WordBits-1 : b \in words[k] <=> k * WordBits + b \in hits
  <2> TAKE k \in 0..WholeWords(n)-1, b \in 0..WordBits-1
  <2>1. k * WordBits + b \in 0..n-1
    BY PlaceInWindow
  <2> QED BY <2>1
<1>4. \A i \in Rest(n) : i \in ones <=> i \in hits
  <2> TAKE i \in Rest(n)
  <2>1. i \in 0..n-1
    BY WindowSplits DEF Rest
  <2> QED BY <2>1
<1> HIDE DEF out
<1>5. Row(x) /\ x.len = out.len
      /\ \A i \in 0..out.len-1 : BitAt(x.bytes, i) <=> IF lead <= i /\ i < lead + n THEN i - lead \in hits ELSE BitAt(out.bytes, i)
  <2> HIDE DEF hits
  <2> QED BY <1>1, <1>2, <1>3, <1>4, WindowIsWritten
<1> HIDE DEF x
<1>6. ASSUME NEW i \in 0..x.len-1
      PROVE  BitAt(x.bytes, i) <=> IF lead <= i /\ i < lead + n THEN bits[i - lead] = TRUE ELSE v = TRUE
  <2>1. lead <= i /\ i < lead + n => i - lead \in 0..n-1
    BY <1>1, <1>5
  <2> QED BY <1>1, <1>5, <2>1
<1>7. Reads(x, Around(bits, lead, v))
  BY <1>1, <1>5, <1>6, AroundReads, Zenon
<1> QED BY <1>7 DEF x, out

(* Bits are what an operation makes of those of two windows.               *)
OfPairs(op, a, ao, b, bo, n, bits) == \A i \in 0..n-1 : bits[i] = TRUE <=> <<Get(a, ao + i), Get(b, bo + i)>> \in op
(* So are words, of the words of two windows.                              *)
WordsOfPairs(op, x, y, n, words) == \A k \in 0..WholeWords(n)-1 : words[k] = BitByBit(op, x[k], y[k], WordBits)
(* So are the bits after the whole words of a window.                      *)
OnesOfPairs(op, a, ao, b, bo, n, ones) ==
  ones \subseteq Rest(n) /\ \A i \in Rest(n) : i \in ones <=> <<Get(a, ao + i), Get(b, bo + i)>> \in op

(* A kernel over the words of two windows.                                 *)
LEMMA PairsWrite ==
  ASSUME NEW lead \in Nat, lead % W = 0, NEW n \in Nat, NEW v \in BOOLEAN, NEW op,
         NEW a, Row(a), NEW ao \in Nat, NEW b, Row(b), NEW bo \in Nat,
         NEW x, Joins(x, a, ao, n), NEW y, Joins(y, b, bo, n),
         NEW words, WordsOfPairs(op, x, y, n, words), NEW ones, OnesOfPairs(op, a, ao, b, bo, n, ones),
         NEW bits, BitsOf(bits, n), OfPairs(op, a, ao, b, bo, n, bits)
  PROVE  Reads(WriteWindow(NewSetAll(lead + n + W, v), lead, n, words, ones), Around(bits, lead, v))
<1>1. \A k \in 0..WholeWords(n)-1 : words[k] \subseteq 0..WordBits-1
  BY DEF BitByBit, WordsOfPairs
<1>2. ASSUME NEW k \in 0..WholeWords(n)-1, NEW c \in 0..WordBits-1
      PROVE  c \in words[k] <=> bits[k * WordBits + c] = TRUE
  <2> DEFINE j == k * WordBits + c
  <2>1. j \in 0..n-1 /\ j \in Nat
    <3>1. j \in 0..n-1
      BY PlaceInWindow
    <3> HIDE DEF j
    <3> QED BY <3>1
  <2>2. (c \in x[k] <=> Get(a, ao + j)) /\ (c \in y[k] <=> Get(b, bo + j))
    BY Zenon DEF Joins
  <2> HIDE DEF j
  <2>3. Get(a, ao + j) \in BOOLEAN /\ Get(b, bo + j) \in BOOLEAN
    <3>1. ao + j \in Nat /\ bo + j \in Nat
      BY <2>1
    <3> QED BY <3>1, GetIs
  <2>4. (c \in x[k]) = Get(a, ao + j) /\ (c \in y[k]) = Get(b, bo + j)
    <3>1. (c \in x[k]) = Get(a, ao + j)
      <4>1. CASE c \in x[k]
        <5>1. Get(a, ao + j) = TRUE /\ (c \in x[k]) = TRUE
          BY <2>2, <2>3, <4>1, Zenon
        <5> QED BY <5>1, Zenon
      <4>2. CASE c \notin x[k]
        <5>1. Get(a, ao + j) = FALSE
          BY <2>2, <2>3, <4>2, Zenon
        <5>2. (c \in x[k]) = FALSE
          BY <4>2
        <5> QED BY <5>1, <5>2, Zenon
      <4> QED BY <4>1, <4>2
    <3>2. (c \in y[k]) = Get(b, bo + j)
      <4>1. CASE c \in y[k]
        <5>1. Get(b, bo + j) = TRUE /\ (c \in y[k]) = TRUE
          BY <2>2, <2>3, <4>1, Zenon
        <5> QED BY <5>1, Zenon
      <4>2. CASE c \notin y[k]
        <5>1. Get(b, bo + j) = FALSE
          BY <2>2, <2>3, <4>2, Zenon
        <5>2. (c \in y[k]) = FALSE
          BY <4>2
        <5> QED BY <5>1, <5>2, Zenon
      <4> QED BY <4>1, <4>2
    <3> QED BY <3>1, <3>2
  <2>5. c \in words[k] <=> <<c \in x[k], c \in y[k]>> \in op
    BY DEF BitByBit, WordsOfPairs
  <2>6. c \in words[k] <=> <<Get(a, ao + j), Get(b, bo + j)>> \in op
    BY <2>4, <2>5, Zenon
  <2> QED BY <2>1, <2>6 DEF j, OfPairs
<1>3. ones \subseteq Rest(n) /\ \A i \in Rest(n) : i \in ones <=> bits[i] = TRUE
  <2>1. \A i \in Rest(n) : i \in 0..n-1
    BY WindowSplits DEF Rest
  <2> QED BY <2>1 DEF OnesOfPairs, OfPairs
<1> QED BY <1>1, <1>2, <1>3, KernelWrites

(* A kernel over the words of one.                                         *)
LEMMA NotWrites ==
  ASSUME NEW lead \in Nat, lead % W = 0, NEW n \in Nat, NEW v \in BOOLEAN, NEW m, NEW off, NEW x, Joins(x, m, off, n),
         NEW words, \A k \in 0..WholeWords(n)-1 : words[k] = Low(WordBits) \ x[k],
         NEW ones, ones \subseteq Rest(n), \A i \in Rest(n) : i \in ones <=> ~Get(m, off + i),
         NEW bits, BitsOf(bits, n), \A i \in 0..n-1 : bits[i] = TRUE <=> ~Get(m, off + i)
  PROVE  Reads(WriteWindow(NewSetAll(lead + n + W, v), lead, n, words, ones), Around(bits, lead, v))
<1>1. \A k \in 0..WholeWords(n)-1 : words[k] \subseteq 0..WordBits-1
  BY DEF Low
<1>2. ASSUME NEW k \in 0..WholeWords(n)-1, NEW c \in 0..WordBits-1
      PROVE  c \in words[k] <=> bits[k * WordBits + c] = TRUE
  <2> DEFINE j == k * WordBits + c
  <2>1. j \in 0..n-1
    BY PlaceInWindow
  <2>2. c \in x[k] <=> Get(m, off + j)
    BY Zenon DEF Joins
  <2> HIDE DEF j
  <2>3. c \in words[k] <=> c \notin x[k]
    BY DEF Low
  <2> QED BY <2>1, <2>2, <2>3 DEF j
<1>3. ones \subseteq Rest(n) /\ \A i \in Rest(n) : i \in ones <=> bits[i] = TRUE
  <2>1. \A i \in Rest(n) : i \in 0..n-1
    BY WindowSplits DEF Rest
  <2> QED BY <2>1
<1> QED BY <1>1, <1>2, <1>3, KernelWrites

-----------------------------------------------------------------------------
(* Logical operations on two masks                                         *)

(* The logical operations, on two bits.                                    *)
LEMMA PairsIn ==
  ASSUME NEW p \in BOOLEAN, NEW q \in BOOLEAN
  PROVE  /\ <<p, q>> \in And <=> p /\ q
         /\ <<p, q>> \in Or <=> p \/ q
         /\ <<p, q>> \in Xor <=> p # q
<1>1. <<p, q>> \in And <=> p = TRUE /\ q = TRUE
  BY DEF And
<1>2. <<p, q>> \in Or <=> (p = TRUE /\ q = TRUE) \/ (p = TRUE /\ q = FALSE) \/ (p = FALSE /\ q = TRUE)
  BY DEF Or, And
<1>3. <<p, q>> \in Xor <=> <<p, q>> \in Or /\ ~(<<p, q>> \in And)
  BY DEF Xor
<1>4. CASE p = TRUE /\ q = TRUE
  BY <1>1, <1>2, <1>3, <1>4
<1>5. CASE p = TRUE /\ q = FALSE
  BY <1>1, <1>2, <1>3, <1>5
<1>6. CASE p = FALSE /\ q = TRUE
  BY <1>1, <1>2, <1>3, <1>6
<1>7. CASE p = FALSE /\ q = FALSE
  BY <1>1, <1>2, <1>3, <1>7
<1> QED BY <1>4, <1>5, <1>6, <1>7

(* The binary kernel, word by word.                                        *)
LEMMA BinopExact ==
  ASSUME NEW lead \in Nat, lead % W = 0, NEW n \in Nat, NEW v \in BOOLEAN, NEW op,
         NEW a, Row(a), NEW ao \in Nat, NEW b, Row(b), NEW bo \in Nat,
         NEW bits, BitsOf(bits, n), OfPairs(op, a, ao, b, bo, n, bits)
  PROVE  Reads(BinopInto(NewSetAll(lead + n + W, v), lead, a, ao, b, bo, n, op), Around(bits, lead, v))
<1> DEFINE q == WholeWords(n)
           x == [k \in 0..q-1 |-> WindowWord(a, ao, k)]
           y == [k \in 0..q-1 |-> WindowWord(b, bo, k)]
           words == [k \in 0..q-1 |-> BitByBit(op, WindowWord(a, ao, k), WindowWord(b, bo, k), WordBits)]
           ones == {i \in Rest(n) : <<Get(a, ao + i), Get(b, bo + i)>> \in op}
<1>1. Joins(x, a, ao, n) /\ Joins(y, b, bo, n)
  <2>1. \A k \in 0..WholeWords(n)-1 : x[k] = WindowWord(a, ao, k) /\ y[k] = WindowWord(b, bo, k)
    OBVIOUS
  <2> HIDE DEF x, y
  <2> QED BY <2>1, WindowWordsJoin
<1>2. WordsOfPairs(op, x, y, n, words)
  BY DEF WordsOfPairs
<1>4. BinopInto(NewSetAll(lead + n + W, v), lead, a, ao, b, bo, n, op)
        = WriteWindow(NewSetAll(lead + n + W, v), lead, n, words, ones)
  BY DEF BinopInto
<1>5. OnesOfPairs(op, a, ao, b, bo, n, ones)
  BY DEF OnesOfPairs
<1> HIDE DEF x, y, words, ones
<1>6. Reads(WriteWindow(NewSetAll(lead + n + W, v), lead, n, words, ones), Around(bits, lead, v))
  BY <1>1, <1>2, <1>5, PairsWrite, Zenon
<1> QED BY <1>4, <1>6

(* The unary kernel, word by word.                                         *)
LEMMA NotExact ==
  ASSUME NEW lead \in Nat, lead % W = 0, NEW n \in Nat, NEW v \in BOOLEAN, NEW m, Row(m), NEW off \in Nat,
         NEW bits, BitsOf(bits, n), \A i \in 0..n-1 : bits[i] = TRUE <=> ~Get(m, off + i)
  PROVE  Reads(NotInto(NewSetAll(lead + n + W, v), lead, m, off, n), Around(bits, lead, v))
<1> DEFINE q == WholeWords(n)
           x == [k \in 0..q-1 |-> WindowWord(m, off, k)]
           words == [k \in 0..q-1 |-> Low(WordBits) \ WindowWord(m, off, k)]
           ones == {i \in Rest(n) : ~Get(m, off + i)}
<1>1. Joins(x, m, off, n)
  <2>1. \A k \in 0..WholeWords(n)-1 : x[k] = WindowWord(m, off, k)
    OBVIOUS
  <2> HIDE DEF x
  <2> QED BY <2>1, WindowWordsJoin
<1>2. \A k \in 0..WholeWords(n)-1 : words[k] = Low(WordBits) \ x[k]
  OBVIOUS
<1>4. NotInto(NewSetAll(lead + n + W, v), lead, m, off, n)
        = WriteWindow(NewSetAll(lead + n + W, v), lead, n, words, ones)
  BY DEF NotInto
<1>5. ones \subseteq Rest(n) /\ \A i \in Rest(n) : i \in ones <=> ~Get(m, off + i)
  OBVIOUS
<1> HIDE DEF x, words, ones
<1>6. Reads(WriteWindow(NewSetAll(lead + n + W, v), lead, n, words, ones), Around(bits, lead, v))
  BY <1>1, <1>2, <1>5, NotWrites
<1> QED BY <1>4, <1>6

(* The bits of the mask are what is read of it.                            *)
LEMMA HereGets ==
  ASSUME Row(mask), NEW i \in Nat, i < mask.len
  PROVE  Here[i] = Get(mask, i) /\ Here[i] \in BOOLEAN
<1>1. Here = [j \in 0..mask.len-1 |-> Get(mask, j)] /\ mask.len \in Nat
  BY BitsAt DEF Here, Bits
<1>2. i \in 0..mask.len-1
  BY <1>1
<1> HIDE DEF Here
<1> QED BY <1>1, <1>2, GetIs

(* Each of the kernels, word by word, writes its window alone.             *)
LEMMA WordsAreExact == ASSUME Row(mask) PROVE WordsWriteOnlyTheirWindow
<1> SUFFICES ASSUME NEW w \in Windows, NEW bo \in 0..1, NEW lead \in {0, W}, NEW v \in BOOLEAN
             PROVE  LET n == w[2]
                        b == Append2(Constantly(bo, ~v), Window(Here, w[1], n))
                        rhs == ExtendFromRange(NewSetAll(bo, ~v), mask, w[1], n)
                        out == NewSetAll(lead + n + W, v)
                    IN /\ Reads(BinopInto(out, lead, mask, 0, rhs, bo, n, And),
                                Around([i \in 0..n-1 |-> Here[i] /\ b[bo + i]], lead, v))
                       /\ Reads(BinopInto(out, lead, rhs, bo, mask, 0, n, Or),
                                Around([i \in 0..n-1 |-> Here[i] \/ b[bo + i]], lead, v))
                       /\ Reads(BinopInto(out, lead, mask, w[1], mask, 0, n, Xor),
                                Around([i \in 0..n-1 |-> Here[w[1] + i] # Here[i]], lead, v))
                       /\ Reads(NotInto(out, lead, mask, w[1], n), Around([i \in 0..n-1 |-> ~Here[w[1] + i]], lead, v))
  BY DEF WordsWriteOnlyTheirWindow
<1> DEFINE off == w[1]
           n == w[2]
           c == ~v
           b == Append2(Constantly(bo, c), Window(Here, off, n))
           rhs == ExtendFromRange(NewSetAll(bo, c), mask, off, n)
           out == NewSetAll(lead + n + W, v)
           ands == [i \in 0..n-1 |-> Here[i] /\ b[bo + i]]
           ors == [i \in 0..n-1 |-> Here[i] \/ b[bo + i]]
           xors == [i \in 0..n-1 |-> Here[off + i] # Here[i]]
           nots == [i \in 0..n-1 |-> ~Here[off + i]]
<1>1. off \in Nat /\ n \in Nat /\ off + n <= mask.len /\ mask.len \in Nat /\ bo \in Nat /\ lead \in Nat /\ lead % W = 0 /\ c \in BOOLEAN
  <2>1. mask.len \in Nat
    BY RawParts DEF Row
  <2>2. 0 \in Nat /\ 0 % W = 0 /\ W \in Nat /\ W % W = 0
    <3>1. (1 * W + 0) % W = 0 /\ (0 * W + 0) % W = 0
      BY PlaceIs
    <3>2. 1 * W + 0 = W /\ 0 * W + 0 = 0
      OBVIOUS
    <3> QED BY <3>1, <3>2
  <2> QED BY <2>1, <2>2 DEF Windows
<1> HIDE DEF off, n, c
<1>0. 0 \in Nat
  OBVIOUS
<1>2. Row(rhs) /\ rhs.len = bo + n /\ \A i \in 0..n-1 : Get(rhs, bo + i) = Get(mask, off + i)
  <2> DEFINE m == NewSetAll(bo, c)
  <2>1. Row(m) /\ m.len = bo
    BY <1>1, NewSetAllAt
  <2>2. Raw(mask)
    BY DEF Row
  <2> HIDE DEF m
  <2> DEFINE e == ExtendFromRange(m, mask, off, n)
  <2>9. Row(e) /\ e.len = m.len + n
        /\ \A i \in 0..m.len + n - 1 : BitAt(e.bytes, i) <=> IF i < m.len THEN BitAt(m.bytes, i) ELSE BitAt(mask.bytes, off + (i - m.len))
    BY <1>1, <2>1, <2>2, ExtendFromRangeAt, Zenon
  <2>3. Row(rhs) /\ rhs.len = bo + n
        /\ \A i \in 0..bo + n - 1 : BitAt(rhs.bytes, i) <=> IF i < bo THEN BitAt(m.bytes, i) ELSE BitAt(mask.bytes, off + (i - bo))
    BY <2>1, <2>9, Zenon DEF m
  <2> HIDE DEF rhs
  <2>4. ASSUME NEW i \in 0..n-1 PROVE Get(rhs, bo + i) = Get(mask, off + i)
    <3>1. bo + i \in 0..bo + n - 1 /\ ~(bo + i < bo) /\ off + ((bo + i) - bo) = off + i /\ bo + i \in Nat /\ off + i \in Nat
          /\ off + i < mask.len /\ bo + i < bo + n
      BY <1>1
    <3>2. BitAt(rhs.bytes, bo + i) <=> BitAt(mask.bytes, off + i)
      BY <2>3, <3>1
    <3>3. Get(rhs, bo + i) \in BOOLEAN /\ (Get(rhs, bo + i) <=> bo + i < rhs.len /\ BitAt(rhs.bytes, bo + i))
      BY <2>3, <3>1, GetIs
    <3>4. Get(mask, off + i) \in BOOLEAN /\ (Get(mask, off + i) <=> off + i < mask.len /\ BitAt(mask.bytes, off + i))
      BY <3>1, GetIs
    <3>5. Get(rhs, bo + i) <=> Get(mask, off + i)
      BY <2>3, <3>1, <3>2, <3>3, <3>4
    <3>6. CASE Get(rhs, bo + i) = TRUE
      <4>1. Get(mask, off + i) = TRUE
        BY <3>4, <3>5, <3>6, Zenon
      <4> QED BY <3>6, <4>1
    <3>7. CASE Get(rhs, bo + i) = FALSE
      <4>1. Get(mask, off + i) = FALSE
        BY <3>4, <3>5, <3>7, Zenon
      <4> QED BY <3>7, <4>1
    <3> QED BY <3>3, <3>6, <3>7, Zenon
  <2> QED BY <2>3, <2>4
<1>3. \A i \in 0..n-1 : /\ i \in Nat /\ Here[i] = Get(mask, i) /\ Here[off + i] = Get(mask, off + i)
                        /\ Get(mask, i) \in BOOLEAN /\ Get(mask, off + i) \in BOOLEAN
  <2> TAKE i \in 0..n-1
  <2>1. i \in Nat /\ off + i \in Nat /\ i < mask.len /\ off + i < mask.len
    BY <1>1
  <2>2. Here[i] = Get(mask, i) /\ Here[i] \in BOOLEAN
    BY <2>1, HereGets, Zenon
  <2>3. Here[off + i] = Get(mask, off + i) /\ Here[off + i] \in BOOLEAN
    BY <2>1, HereGets, Zenon
  <2> QED BY <2>1, <2>2, <2>3, Zenon
<1>4. \A i \in 0..n-1 : b[bo + i] = Get(mask, off + i)
  <2> DEFINE p == Constantly(bo, c)
             u == Window(Here, off, n)
  <2>1. Size(p) = bo /\ Size(u) = n
    <3>1. DOMAIN p = 0..bo-1
      BY DEF Constantly
    <3> HIDE DEF p
    <3> QED BY <1>1, <3>1, SizeIs, SizeOfWindow
  <2>2. \A i \in 0..n-1 : u[i] = Here[off + i]
    BY DEF Window
  <2> HIDE DEF p, u
  <2> TAKE i \in 0..n-1
  <2>3. bo + i \in 0..bo + n - 1 /\ ~(bo + i < bo) /\ (bo + i) - bo = i
    BY <1>1
  <2>4. Append2(p, u)[bo + i] = u[i]
    BY <2>1, <2>3 DEF Append2
  <2>5. u[i] = Get(mask, off + i)
    BY <1>3, <2>2
  <2> QED BY <2>4, <2>5 DEF p, u
<1> HIDE DEF b, rhs
<1>5. Reads(BinopInto(out, lead, mask, 0, rhs, bo, n, And), Around(ands, lead, v))
  <2>1. DOMAIN ands = 0..n-1 /\ \A i \in 0..n-1 : ands[i] = (Here[i] /\ b[bo + i])
    OBVIOUS
  <2> HIDE DEF ands
  <2>2. \A i \in 0..n-1 : ands[i] \in BOOLEAN /\ (ands[i] = TRUE <=> <<Get(mask, 0 + i), Get(rhs, bo + i)>> \in And)
    <3> TAKE i \in 0..n-1
    <3>1. 0 + i = i
      OBVIOUS
    <3>2. ands[i] = (Get(mask, i) /\ Get(mask, off + i))
      BY <1>3, <1>4, <2>1, Zenon
    <3>3. <<Get(mask, i), Get(mask, off + i)>> \in And <=> Get(mask, i) /\ Get(mask, off + i)
      BY <1>3, PairsIn
    <3>4. ands[i] \in BOOLEAN /\ (ands[i] = TRUE <=> Get(mask, i) /\ Get(mask, off + i))
      BY <3>2, Zenon
    <3>5. Get(rhs, bo + i) = Get(mask, off + i)
      BY <1>2
    <3> QED BY <3>1, <3>3, <3>4, <3>5
  <2>3. BitsOf(ands, n)
    BY <2>1, <2>2 DEF BitsOf
  <2> QED BY <1>0, <1>1, <1>2, <2>2, <2>3, BinopExact, Zenon DEF OfPairs
<1>6. Reads(BinopInto(out, lead, rhs, bo, mask, 0, n, Or), Around(ors, lead, v))
  <2>1. DOMAIN ors = 0..n-1 /\ \A i \in 0..n-1 : ors[i] = (Here[i] \/ b[bo + i])
    OBVIOUS
  <2> HIDE DEF ors
  <2>2. \A i \in 0..n-1 : ors[i] \in BOOLEAN /\ (ors[i] = TRUE <=> <<Get(rhs, bo + i), Get(mask, 0 + i)>> \in Or)
    <3> TAKE i \in 0..n-1
    <3>1. 0 + i = i
      OBVIOUS
    <3>2. ors[i] = (Get(mask, i) \/ Get(mask, off + i))
      BY <1>3, <1>4, <2>1, Zenon
    <3>3. <<Get(mask, off + i), Get(mask, i)>> \in Or <=> Get(mask, off + i) \/ Get(mask, i)
      BY <1>3, PairsIn
    <3>4. ors[i] \in BOOLEAN /\ (ors[i] = TRUE <=> Get(mask, off + i) \/ Get(mask, i))
      BY <3>2, Zenon
    <3>5. Get(rhs, bo + i) = Get(mask, off + i)
      BY <1>2
    <3> QED BY <3>1, <3>3, <3>4, <3>5
  <2>3. BitsOf(ors, n)
    BY <2>1, <2>2 DEF BitsOf
  <2> QED BY <1>0, <1>1, <1>2, <2>2, <2>3, BinopExact, Zenon DEF OfPairs
<1>7. Reads(BinopInto(out, lead, mask, off, mask, 0, n, Xor), Around(xors, lead, v))
  <2>1. DOMAIN xors = 0..n-1 /\ \A i \in 0..n-1 : xors[i] = (Here[off + i] # Here[i])
    OBVIOUS
  <2> HIDE DEF xors
  <2>2. \A i \in 0..n-1 : xors[i] \in BOOLEAN /\ (xors[i] = TRUE <=> <<Get(mask, off + i), Get(mask, 0 + i)>> \in Xor)
    <3> TAKE i \in 0..n-1
    <3>1. 0 + i = i
      OBVIOUS
    <3>2. xors[i] = (Get(mask, off + i) # Get(mask, i))
      BY <1>3, <2>1, Zenon
    <3>3. <<Get(mask, off + i), Get(mask, i)>> \in Xor <=> Get(mask, off + i) # Get(mask, i)
      BY <1>3, PairsIn
    <3>4. xors[i] \in BOOLEAN /\ (xors[i] = TRUE <=> Get(mask, off + i) # Get(mask, i))
      BY <3>2, Zenon
    <3> QED BY <3>1, <3>3, <3>4
  <2>3. BitsOf(xors, n)
    BY <2>1, <2>2 DEF BitsOf
  <2> QED BY <1>0, <1>1, <2>2, <2>3, BinopExact, Zenon DEF OfPairs
<1>8. Reads(NotInto(out, lead, mask, off, n), Around(nots, lead, v))
  <2>1. DOMAIN nots = 0..n-1 /\ \A i \in 0..n-1 : nots[i] = ~Here[off + i]
    OBVIOUS
  <2> HIDE DEF nots
  <2>2. \A i \in 0..n-1 : nots[i] \in BOOLEAN /\ (nots[i] = TRUE <=> ~Get(mask, off + i))
    <3> TAKE i \in 0..n-1
    <3>1. nots[i] = ~Get(mask, off + i)
      BY <1>3, <2>1, Zenon
    <3> QED BY <3>1, Zenon
  <2>3. BitsOf(nots, n)
    BY <2>1, <2>2 DEF BitsOf
  <2> QED BY <1>1, <2>2, <2>3, NotExact
<1> QED BY <1>5, <1>6, <1>7, <1>8, Zenon DEF out, ands, ors, xors, nots, b, rhs, off, n, c

-----------------------------------------------------------------------------
(* Vectors of the words of a buffer                                        *)

(* The words of a buffer are within its bytes.                             *)
LEMMA BufferWordsIs ==
  ASSUME NEW m, Row(m)
  PROVE  /\ BufferWords(m) \in Nat
         /\ \A j \in Nat : j < BufferWords(m) => j * WordBytes \in Nat /\ j * WordBytes + WordBytes <= BytesFor(m.len)
<1> DEFINE z == BytesFor(m.len)
           q == z \div WordBytes
<1>1. z \in Nat /\ BufferWords(m) = q
  <2>1. Raw(m) /\ m.len \in Nat
    BY RawParts DEF Row
  <2> QED BY <2>1, SizeOfBytes, BytesForHolds DEF BufferWords
<1> HIDE DEF z
<1>2. q \in Nat /\ WordBytes * q <= z
  BY <1>1
<1> HIDE DEF q
<1>3. ASSUME NEW j \in Nat, j < q PROVE j * WordBytes \in Nat /\ j * WordBytes + WordBytes <= z
  <2>1. PICK e \in Nat : q = j + 1 + e
    <3>1. q - j - 1 \in Nat /\ q = j + 1 + (q - j - 1)
      BY <1>2, <1>3
    <3> QED BY <3>1
  <2>2. WordBytes * q = j * WordBytes + WordBytes + e * WordBytes /\ e * WordBytes \in Nat /\ j * WordBytes \in Nat
    BY <2>1
  <2> QED BY <1>1, <1>2, <2>2
<1> QED BY <1>1, <1>2, <1>3 DEF z

(* A word of the buffer shows the bits of the mask from the word's first.  *)
LEMMA BufferWordHas ==
  ASSUME NEW m, Row(m), NEW j \in Nat, j < BufferWords(m)
  PROVE  /\ BufferWord(m, j) \subseteq 0..WordBits-1
         /\ \A c \in 0..WordBits-1 : c \in BufferWord(m, j) <=> Get(m, j * WordBits + c)
<1> DEFINE i == j * WordBytes
           x == BufferWord(m, j)
<1>1. i \in Nat /\ i + WordBytes <= BytesFor(m.len) /\ BytesFor(m.len) \in Nat
  <2>1. BytesFor(m.len) \in Nat
    BY RawParts, BytesForHolds DEF Row
  <2> QED BY <2>1, BufferWordsIs
<1>2. \A c \in 0..WordBytes-1 : m.bytes[i + c] \in Byte
  <2>1. \A k \in 0..BytesFor(m.len)-1 : m.bytes[k] \in Byte
    BY RawParts DEF Row
  <2> HIDE DEF i
  <2> TAKE c \in 0..WordBytes-1
  <2>2. i + c \in 0..BytesFor(m.len)-1
    BY <1>1
  <2> QED BY <2>1, <2>2
<1> HIDE DEF i
<1>3. x = WordAt(m.bytes, i)
  BY DEF BufferWord, i
<1> HIDE DEF x
<1>4. \A k \in Nat, b \in 0..W-1 : k * W + b \in x <=> k < WordBytes /\ b \in m.bytes[i + k]
  BY <1>1, <1>2, <1>3, WordHas
<1>5. x \subseteq 0..WordBits-1
  <2> SUFFICES ASSUME NEW c \in x PROVE c \in 0..WordBits-1
    OBVIOUS
  <2>1. c \in Nat
    BY <1>1, <1>2, <1>3, WordIsNat
  <2> DEFINE k == c \div W
             b == c % W
  <2>2. k \in Nat /\ b \in 0..W-1 /\ c = k * W + b /\ (c < WordBits <=> k < WordBytes)
    BY <2>1, ByteOfWord, Zenon
  <2> HIDE DEF k, b
  <2>3. k < WordBytes
    BY <1>4, <2>2
  <2>4. WordBits \in Nat
    BY WordBitsIs
  <2> QED BY <2>1, <2>2, <2>3, <2>4
<1>6. ASSUME NEW c \in 0..WordBits-1 PROVE c \in x <=> Get(m, j * WordBits + c)
  <2> DEFINE k == c \div W
             b == c % W
             p == j * WordBits + c
  <2>0. c \in Nat /\ c < WordBits
    BY WordBitsIs
  <2>1. k \in Nat /\ b \in 0..W-1 /\ c = k * W + b /\ k < WordBytes
    BY <2>0, ByteOfWord, Zenon
  <2>2. j * WordBits \in Nat /\ p \div W = i + k /\ p % W = b
    BY <2>0, WordPlace DEF i
  <2>3. p \in Nat
    BY <2>0, <2>2
  <2> HIDE DEF p
  <2>4. Get(m, p) <=> p \div W < BytesFor(m.len) /\ p % W \in m.bytes[p \div W]
    BY <2>3, GetIs, Zenon DEF BitAt
  <2> HIDE DEF k, b
  <2>5. i + k < BytesFor(m.len)
    BY <1>1, <2>1
  <2>6. c \in x <=> b \in m.bytes[i + k]
    BY <1>4, <2>1
  <2>7. Get(m, p) <=> b \in m.bytes[i + k]
    BY <2>2, <2>4, <2>5, Zenon
  <2> QED BY <2>6, <2>7 DEF p
<1> QED BY <1>5, <1>6 DEF x

(* So does a word that ends past the buffer.                               *)
LEMMA WordOrRestHas ==
  ASSUME NEW m, Row(m), NEW j \in Nat
  PROVE  /\ WordOrRest(m, j) \subseteq 0..WordBits-1
         /\ \A c \in 0..WordBits-1 : c \in WordOrRest(m, j) <=> Get(m, j * WordBits + c)
<1>1. CASE j < BufferWords(m)
  BY <1>1, BufferWordHas DEF WordOrRest
<1>2. CASE ~(j < BufferWords(m))
  <2>1. WordOrRest(m, j) = LoadWord(m, j * WordBits) /\ j * WordBits \in Nat
    BY <1>2, WordPlace DEF WordOrRest
  <2>2. ASSUME NEW c \in 0..WordBits-1 PROVE c \in WordOrRest(m, j) <=> Get(m, j * WordBits + c)
    <3>1. c \in Nat /\ c < WordBits
      BY WordBitsIs
    <3> QED BY <2>1, <3>1, LoadWordHas
  <2> QED BY <2>1, <2>2, LoadWordIsWord
<1> QED BY <1>1, <1>2

(* A word of a mask, from bit w.                                           *)
ShowsFrom(x, m, w) == x \subseteq 0..WordBits-1 /\ \A c \in 0..WordBits-1 : c \in x <=> Get(m, w + c)

(* A word joined from two words of a mask shows the bits from where the    *)
(* first is cut.                                                           *)
LEMMA JoinedShows ==
  ASSUME NEW m, NEW w \in Nat, NEW s \in 0..WordBits-1, NEW x, ShowsFrom(x, m, w), NEW y, ShowsFrom(y, m, w + WordBits)
  PROVE  ShowsFrom(Joined(x, y, s), m, w + s)
<1> DEFINE d == WordBits
<1>1. d \in Nat /\ d > 1
  BY WordBitsIs
<1>2. CASE s = 0
  <2>1. Joined(x, y, s) = x /\ w + s = w
    BY <1>2 DEF Joined
  <2> QED BY <2>1
<1>3. CASE s # 0
  <2>1. s \in 1..d-1 /\ d - s \in Nat /\ d - s < d
    <3> HIDE DEF d
    <3>1. s \in 0..d-1
      BY DEF d
    <3> QED BY <1>1, <1>3, <3>1
  <2>2. (d - s) % d = d - s
    <3> DEFINE r == d - s
    <3>1. r \in Nat /\ r < d
      BY <2>1
    <3> HIDE DEF r, d
    <3>2. (0 * d + r) % d = r /\ 0 * d + r = r
      <4>1. 0 \in Nat /\ d > 0 /\ 0 * d + r = r
        BY <1>1, <3>1
      <4> QED BY <1>1, <3>1, <4>1, Quotient
    <3> QED BY <3>2 DEF r
  <2>3. Joined(x, y, s) = LowWord(Shr(x, s) \cup Shl(y, d - s))
    BY <1>3, <2>2 DEF Joined
  <2>4. Joined(x, y, s) \subseteq 0..d-1
    BY <2>3 DEF LowWord, Low
  <2>5. ASSUME NEW c \in 0..d-1 PROVE c \in Joined(x, y, s) <=> Get(m, (w + s) + c)
    <3>0. c \in Nat /\ c < d
      BY <1>1
    <3>1. x \subseteq 0..d-1 /\ y \subseteq 0..d-1
      BY DEF ShowsFrom
    <3>2. c \in Joined(x, y, s) <=> IF c + s < d THEN c + s \in x ELSE c + s - d \in y
      <4>1. c \in LowWord(Shr(x, s) \cup Shl(y, d - s)) <=> c < d /\ IF c + s < d THEN c + s \in x ELSE c + s - d \in y
        BY <2>1, <3>0, <3>1, JoinedHas
      <4> QED BY <2>3, <3>0, <4>1, Zenon
    <3>3. \A e \in 0..d-1 : (e \in x <=> Get(m, w + e)) /\ (e \in y <=> Get(m, (w + d) + e))
      BY DEF ShowsFrom
    <3> HIDE DEF d
    <3>4. CASE c + s < d
      <4>1. c + s \in 0..d-1 /\ w + (c + s) = (w + s) + c
        BY <1>1, <2>1, <3>0, <3>4
      <4>2. c + s \in x <=> Get(m, w + (c + s))
        BY <3>3, <4>1
      <4> QED BY <3>2, <3>4, <4>1, <4>2
    <3>5. CASE ~(c + s < d)
      <4>1. c + s - d \in 0..d-1 /\ (w + d) + (c + s - d) = (w + s) + c
        BY <1>1, <2>1, <3>0, <3>5
      <4>2. c + s - d \in y <=> Get(m, (w + d) + (c + s - d))
        BY <3>3, <4>1
      <4> QED BY <3>2, <3>5, <4>1, <4>2
    <3> QED BY <3>4, <3>5
  <2> QED BY <2>4, <2>5 DEF ShowsFrom
<1> QED BY <1>2, <1>3

(* As many vectors of a window are joined as leave a vector after them.    *)
LeavesOne(m, off, vectors) ==
  vectors \in Nat /\ (vectors # 0 => off \div WordBits + vectors * VectorWords + VectorWords <= BufferWords(m))

(* So the vector kernels choose them.                                      *)
LEMMA VectorsLeaveOne ==
  ASSUME NEW m, Row(m), NEW off \in Nat, NEW n \in Nat
  PROVE  LeavesOne(m, off, Vectors(m, off, n)) /\ (off % WordBits = 0 => Vectors(m, off, n) = 0)
<1> DEFINE w == off \div WordBits
           z == BufferWords(m)
           ahead == z - (w + VectorWords)
           room == IF ahead < 0 THEN 0 ELSE ahead
           q == WholeWords(n)
           g == Least(q, room)
           v == Vectors(m, off, n)
<1>1. w \in Nat /\ z \in Nat /\ q \in Nat /\ VectorWords \in Nat /\ VectorWords > 0
  <2>1. w \in Nat
    BY WordSplits, Zenon
  <2>2. q \in Nat
    BY WindowSplits, Zenon
  <2>3. z \in Nat
    BY BufferWordsIs, Zenon
  <2>4. VectorWords \in Nat /\ VectorWords > 0
    BY VectorAssumption
  <2> QED BY <2>1, <2>2, <2>3, <2>4
<1>2. v = IF off % WordBits = 0 THEN 0 ELSE g \div VectorWords
  BY DEF Vectors
<1> HIDE DEF w, z, q, v
<1>3. room \in Nat /\ g \in Nat /\ g <= room
  BY <1>1 DEF Least
<1> HIDE DEF g
<1>4. g \div VectorWords \in Nat /\ VectorWords * (g \div VectorWords) <= g
  BY <1>1, <1>3
<1>5. v \in Nat /\ VectorWords * v <= g
  <2>1. CASE off % WordBits = 0
    <3>1. v = 0
      BY <1>2, <2>1
    <3> QED BY <1>1, <1>3, <3>1
  <2>2. CASE off % WordBits # 0
    <3>1. v = g \div VectorWords
      BY <1>2, <2>2
    <3> QED BY <1>4, <3>1
  <2> QED BY <2>1, <2>2
<1>6. v # 0 => w + v * VectorWords + VectorWords <= z
  <2> SUFFICES ASSUME v # 0 PROVE w + v * VectorWords + VectorWords <= z
    OBVIOUS
  <2> DEFINE p == v * VectorWords
  <2>1. p \in Nat /\ p = VectorWords * v /\ p >= VectorWords
    <3>1. PICK e \in Nat : v = e + 1
      <4>1. v - 1 \in Nat /\ v = (v - 1) + 1
        BY <1>5
      <4> QED BY <4>1
    <3>2. p = e * VectorWords + VectorWords /\ e * VectorWords \in Nat
      BY <1>1, <3>1
    <3>3. p = VectorWords * v
      BY <1>1, <1>5
    <3> HIDE DEF p
    <3> QED BY <1>1, <3>2, <3>3
  <2> HIDE DEF p
  <2>2. p <= room /\ p > 0
    BY <1>1, <1>3, <1>5, <2>1
  <2>3. w + p + VectorWords <= z
    BY <1>1, <2>1, <2>2
  <2> QED BY <2>3 DEF p
<1> QED BY <1>2, <1>5, <1>6 DEF LeavesOne, w, z, v

(* A word of the buffer shows the bits of the mask from its place.         *)
LEMMA BufferWordShows ==
  ASSUME NEW m, Row(m), NEW j \in Nat
  PROVE  /\ j < BufferWords(m) => ShowsFrom(BufferWord(m, j), m, j * WordBits)
         /\ ShowsFrom(WordOrRest(m, j), m, j * WordBits)
  BY BufferWordHas, WordOrRestHas, Zenon DEF ShowsFrom

(* Word k of the joined words of a window is joined from two words of the  *)
(* buffer next to one another.                                             *)
LEMMA JoinedWordIs ==
  ASSUME NEW m, Row(m), NEW off \in Nat, NEW n \in Nat, NEW vectors, LeavesOne(m, off, vectors),
         NEW k \in 0..WholeWords(n)-1
  PROVE  LET j == off \div WordBits + k
         IN \E x, y : /\ JoinedWords(m, off, n, vectors)[k] = Joined(x, y, off % WordBits)
                      /\ ShowsFrom(x, m, j * WordBits) /\ ShowsFrom(y, m, (j + 1) * WordBits)
<1> DEFINE w == off \div WordBits
           s == off % WordBits
           j == w + k
           V == VectorWords
           q == k \div V
           r == k % V
           at == w + q * V
           cur == VectorAt(m, at)
           nxt == VectorAt(m, at + V)
           z == BufferWords(m)
           word == JoinedWords(m, off, n, vectors)[k]
<1>1. w \in Nat /\ k \in Nat /\ vectors \in Nat /\ z \in Nat
  <2>1. w \in Nat
    BY WordSplits, Zenon
  <2>2. WholeWords(n) \in Nat
    BY WindowSplits, Zenon
  <2>3. k \in Nat
    BY <2>2
  <2>4. z \in Nat
    BY BufferWordsIs, Zenon
  <2> QED BY <2>1, <2>3, <2>4 DEF LeavesOne
<1>2. V \in Nat /\ V > 0
  BY VectorAssumption
<1>3. word = IF k < vectors * V THEN Joined(cur[r], NextWords(cur, nxt)[r], s)
             ELSE Joined(WordOrRest(m, w + k), WordOrRest(m, w + k + 1), s)
  BY DEF JoinedWords
<1>4. vectors # 0 => w + vectors * V + V <= z
  BY DEF LeavesOne
<1> HIDE DEF w, s, z, V, word
<1>5. q \in Nat /\ r \in 0..V-1 /\ k = q * V + r /\ q * V \in Nat
  <2>1. q \in Nat /\ r \in 0..V-1 /\ k = V * q + r
    BY <1>1, <1>2
  <2>2. V * q = q * V /\ q * V \in Nat
    BY <1>2, <2>1
  <2> QED BY <2>1, <2>2
<1>6. j \in Nat /\ w + k + 1 = j + 1 /\ j + 1 \in Nat
  BY <1>1
<1>7. CASE k < vectors * V
  <2>1. j + 1 < z
    <3> DEFINE p == vectors * V
    <3>1. p \in Nat
      BY <1>1, <1>2
    <3>2. vectors # 0
      <4>1. CASE vectors = 0
        <5>1. p = 0
          BY <1>2, <4>1
        <5> QED BY <1>1, <1>7, <5>1
      <4> QED BY <4>1
    <3>3. w + p + V <= z /\ k < p
      BY <1>4, <1>7, <3>2
    <3> HIDE DEF p
    <3> QED BY <1>1, <1>2, <3>1, <3>3
  <2>2. cur[r] = BufferWord(m, j)
    <3>1. cur[r] = BufferWord(m, at + r)
      BY <1>5 DEF VectorAt, V
    <3>2. at + r = j
      <4> HIDE DEF q, r
      <4> QED BY <1>1, <1>5
    <3> QED BY <3>1, <3>2
  <2>3. NextWords(cur, nxt)[r] = BufferWord(m, j + 1)
    <3>1. NextWords(cur, nxt)[r] = IF r = V - 1 THEN nxt[0] ELSE cur[r + 1]
      BY <1>5 DEF NextWords, V
    <3>2. CASE r = V - 1
      <4>1. 0 \in 0..V-1
        BY <1>2
      <4>2. nxt[0] = BufferWord(m, at + V + 0)
        BY <4>1 DEF VectorAt, V
      <4>3. at + V + 0 = j + 1
        <5> HIDE DEF q, r
        <5> QED BY <1>1, <1>2, <1>5, <3>2
      <4> QED BY <3>1, <3>2, <4>2, <4>3
    <3>3. CASE r # V - 1
      <4> HIDE DEF r
      <4>1. r + 1 \in 0..V-1
        BY <1>2, <1>5, <3>3
      <4>2. cur[r + 1] = BufferWord(m, at + (r + 1))
        BY <4>1 DEF VectorAt, V
      <4>3. at + (r + 1) = j + 1
        <5> HIDE DEF q
        <5> QED BY <1>1, <1>2, <1>5
      <4> QED BY <3>1, <3>3, <4>2, <4>3 DEF r
    <3> QED BY <3>2, <3>3
  <2>4. j < z
    <3> HIDE DEF j
    <3> QED BY <1>1, <1>6, <2>1
  <2> HIDE DEF cur, nxt, r, j
  <2>5. ShowsFrom(cur[r], m, j * WordBits) /\ ShowsFrom(NextWords(cur, nxt)[r], m, (j + 1) * WordBits)
    BY <1>6, <2>1, <2>2, <2>3, <2>4, BufferWordShows DEF z
  <2>6. word = Joined(cur[r], NextWords(cur, nxt)[r], s)
    BY <1>3, <1>7
  <2> QED BY <2>5, <2>6, Zenon DEF j, word, s, w
<1>8. CASE ~(k < vectors * V)
  <2>1. word = Joined(WordOrRest(m, j), WordOrRest(m, j + 1), s)
    BY <1>3, <1>6, <1>8
  <2> HIDE DEF j
  <2>2. ShowsFrom(WordOrRest(m, j), m, j * WordBits) /\ ShowsFrom(WordOrRest(m, j + 1), m, (j + 1) * WordBits)
    BY <1>6, BufferWordShows
  <2> QED BY <2>1, <2>2, Zenon DEF j, word, s, w
<1> QED BY <1>7, <1>8

(* The joined words of a window are its words.                             *)
LEMMA JoinedWordsJoin ==
  ASSUME NEW m, Row(m), NEW off \in Nat, NEW n \in Nat, NEW vectors, LeavesOne(m, off, vectors)
  PROVE  Joins(JoinedWords(m, off, n, vectors), m, off, n) /\ DOMAIN JoinedWords(m, off, n, vectors) = 0..WholeWords(n)-1
<1> DEFINE words == JoinedWords(m, off, n, vectors)
           w == off \div WordBits
           s == off % WordBits
           d == WordBits
<1>0. DOMAIN words = 0..WholeWords(n)-1
  BY DEF JoinedWords
<1> HIDE DEF words
<1>1. ASSUME NEW k \in 0..WholeWords(n)-1
      PROVE  words[k] \subseteq 0..d-1 /\ \A b \in 0..d-1 : b \in words[k] <=> Get(m, off + (k * d + b))
  <2> DEFINE j == w + k
  <2>1. PICK x, y : words[k] = Joined(x, y, s) /\ ShowsFrom(x, m, j * d) /\ ShowsFrom(y, m, (j + 1) * d)
    <3>1. \E x, y : words[k] = Joined(x, y, s) /\ ShowsFrom(x, m, j * d) /\ ShowsFrom(y, m, (j + 1) * d)
      BY JoinedWordIs DEF words
    <3> QED BY <3>1, Zenon
  <2>2. w \in Nat /\ s \in 0..d-1 /\ w * d \in Nat /\ off = w * d + s /\ k \in Nat /\ d \in Nat
    <3>1. WholeWords(n) \in Nat
      BY WindowSplits, Zenon
    <3>2. k \in Nat
      BY <3>1
    <3> QED BY <3>2, WordSplits, WordBitsIs, Zenon
  <2> HIDE DEF w, s
  <2>3. j \in Nat /\ j * d \in Nat /\ (j + 1) * d = j * d + d /\ j * d = w * d + k * d /\ k * d \in Nat
    <3> HIDE DEF d
    <3> QED BY <2>2
  <2> HIDE DEF j
  <2>4. ShowsFrom(words[k], m, j * d + s)
    <3>1. ShowsFrom(y, m, j * d + d)
      BY <2>1, <2>3
    <3> QED BY <2>1, <2>2, <2>3, <3>1, JoinedShows
  <2>5. ASSUME NEW b \in 0..d-1 PROVE b \in words[k] <=> Get(m, off + (k * d + b))
    <3>1. b \in words[k] <=> Get(m, (j * d + s) + b)
      BY <2>4 DEF ShowsFrom
    <3>2. (j * d + s) + b = off + (k * d + b)
      <4>1. b \in Nat
        BY WordBitsIs
      <4> DEFINE u == w * d
                 t == k * d
                 i == j * d
      <4>2. i = u + t /\ off = u + s /\ u \in Nat /\ t \in Nat /\ i \in Nat /\ s \in Nat
        BY <2>2, <2>3
      <4> HIDE DEF u, t, i, d
      <4>3. (i + s) + b = off + (t + b)
        BY <4>1, <4>2
      <4> QED BY <4>3 DEF u, t, i
    <3> QED BY <3>1, <3>2
  <2> QED BY <2>4, <2>5 DEF ShowsFrom
<1> QED BY <1>0, <1>1 DEF Joins, words

(* Fewer vectors leave a vector after them too.                            *)
LEMMA FewerLeaveOne ==
  ASSUME NEW m, Row(m), NEW off \in Nat, NEW p, LeavesOne(m, off, p), NEW q \in Nat, q <= p
  PROVE  LeavesOne(m, off, q)
<1> DEFINE w == off \div WordBits
           z == BufferWords(m)
<1>1. w \in Nat /\ z \in Nat /\ VectorWords \in Nat /\ VectorWords > 0 /\ p \in Nat
  <2>1. w \in Nat
    BY WordSplits, Zenon
  <2>2. z \in Nat
    BY BufferWordsIs, Zenon
  <2> QED BY <2>1, <2>2, VectorAssumption DEF LeavesOne
<1>2. p # 0 => w + p * VectorWords + VectorWords <= z
  BY DEF LeavesOne
<1> HIDE DEF w, z
<1>3. q # 0 => w + q * VectorWords + VectorWords <= z
  <2> SUFFICES ASSUME q # 0 PROVE w + q * VectorWords + VectorWords <= z
    OBVIOUS
  <2>1. PICK e \in Nat : p = q + e
    <3>1. p - q \in Nat /\ p = q + (p - q)
      BY <1>1
    <3> QED BY <3>1
  <2>2. p * VectorWords = q * VectorWords + e * VectorWords /\ e * VectorWords \in Nat /\ q * VectorWords \in Nat
    BY <1>1, <2>1
  <2>3. p # 0
    BY <2>1
  <2> DEFINE a == p * VectorWords
             b == q * VectorWords
             c == e * VectorWords
  <2>4. a = b + c /\ b \in Nat /\ c \in Nat /\ w + a + VectorWords <= z
    BY <1>2, <2>2, <2>3
  <2> HIDE DEF a, b, c
  <2>5. w + b + VectorWords <= z
    BY <1>1, <2>4
  <2> QED BY <2>5 DEF b
<1> QED BY <1>3 DEF LeavesOne, w, z

(* The binary kernel, a vector at a time.                                  *)
LEMMA VectorBinopExact ==
  ASSUME NEW lead \in Nat, lead % W = 0, NEW n \in Nat, NEW v \in BOOLEAN, NEW op,
         NEW a, Row(a), NEW ao \in Nat, NEW b, Row(b), NEW bo \in Nat,
         NEW bits, BitsOf(bits, n), OfPairs(op, a, ao, b, bo, n, bits)
  PROVE  Reads(VectorBinopInto(NewSetAll(lead + n + W, v), lead, a, ao, b, bo, n, op), Around(bits, lead, v))
<1> DEFINE p == Vectors(a, ao, n)
           q == Vectors(b, bo, n)
           vectors == IF ao % WordBits = 0 /\ bo % WordBits = 0 THEN 0 ELSE Least(p, q)
           x == JoinedWords(a, ao, n, vectors)
           y == JoinedWords(b, bo, n, vectors)
           words == [k \in DOMAIN x |-> BitByBit(op, x[k], y[k], WordBits)]
           ones == {i \in Rest(n) : <<Get(a, ao + i), Get(b, bo + i)>> \in op}
<1>1. LeavesOne(a, ao, p) /\ LeavesOne(b, bo, q)
  BY VectorsLeaveOne, Zenon
<1>2. p \in Nat /\ q \in Nat
  BY <1>1 DEF LeavesOne
<1> HIDE DEF p, q
<1>3. vectors \in Nat /\ vectors <= p /\ vectors <= q
  BY <1>2 DEF Least
<1> HIDE DEF vectors
<1>4. LeavesOne(a, ao, vectors) /\ LeavesOne(b, bo, vectors)
  BY <1>1, <1>3, FewerLeaveOne
<1>5. Joins(x, a, ao, n) /\ Joins(y, b, bo, n) /\ DOMAIN x = 0..WholeWords(n)-1
  <2>1. Joins(x, a, ao, n) /\ DOMAIN x = 0..WholeWords(n)-1
    BY <1>4, JoinedWordsJoin
  <2>2. Joins(y, b, bo, n)
    BY <1>4, JoinedWordsJoin
  <2> QED BY <2>1, <2>2
<1>6. VectorBinopInto(NewSetAll(lead + n + W, v), lead, a, ao, b, bo, n, op)
        = WriteWindow(NewSetAll(lead + n + W, v), lead, n, words, ones)
  BY Zenon DEF VectorBinopInto, vectors, p, q
<1> HIDE DEF x, y
<1>7. WordsOfPairs(op, x, y, n, words)
  BY <1>5 DEF WordsOfPairs
<1>8. OnesOfPairs(op, a, ao, b, bo, n, ones)
  BY DEF OnesOfPairs
<1> HIDE DEF words, ones
<1>9. Reads(WriteWindow(NewSetAll(lead + n + W, v), lead, n, words, ones), Around(bits, lead, v))
  BY <1>5, <1>7, <1>8, PairsWrite, Zenon
<1> QED BY <1>6, <1>9

(* The unary kernel, a vector at a time.                                   *)
LEMMA VectorNotExact ==
  ASSUME NEW lead \in Nat, lead % W = 0, NEW n \in Nat, NEW v \in BOOLEAN, NEW m, Row(m), NEW off \in Nat,
         NEW bits, BitsOf(bits, n), \A i \in 0..n-1 : bits[i] = TRUE <=> ~Get(m, off + i)
  PROVE  Reads(VectorNotInto(NewSetAll(lead + n + W, v), lead, m, off, n), Around(bits, lead, v))
<1> DEFINE p == Vectors(m, off, n)
           x == JoinedWords(m, off, n, p)
           words == [k \in DOMAIN x |-> Low(WordBits) \ x[k]]
           ones == {i \in Rest(n) : ~Get(m, off + i)}
<1>1. LeavesOne(m, off, p)
  BY VectorsLeaveOne, Zenon
<1> HIDE DEF p
<1>2. Joins(x, m, off, n) /\ DOMAIN x = 0..WholeWords(n)-1
  BY <1>1, JoinedWordsJoin
<1>3. VectorNotInto(NewSetAll(lead + n + W, v), lead, m, off, n)
        = WriteWindow(NewSetAll(lead + n + W, v), lead, n, words, ones)
  BY Zenon DEF VectorNotInto, p
<1> HIDE DEF x
<1>4. \A k \in 0..WholeWords(n)-1 : words[k] = Low(WordBits) \ x[k]
  BY <1>2
<1>5. ones \subseteq Rest(n) /\ \A i \in Rest(n) : i \in ones <=> ~Get(m, off + i)
  OBVIOUS
<1> HIDE DEF words, ones
<1>6. Reads(WriteWindow(NewSetAll(lead + n + W, v), lead, n, words, ones), Around(bits, lead, v))
  BY <1>2, <1>4, <1>5, NotWrites
<1> QED BY <1>3, <1>6

(* from_bools shows the bits it is given.                                  *)
LEMMA FromBoolsAt ==
  ASSUME NEW n \in Nat, NEW bits, BitsOf(bits, n)
  PROVE  /\ Row(FromBools(bits)) /\ FromBools(bits).len = n
         /\ \A i \in 0..n-1 : Get(FromBools(bits), i) = bits[i]
<1> DEFINE Cell(k) == {b \in 0..W-1 : k * W + b < n /\ bits[k * W + b]}
           bytes == [k \in 0..BytesFor(n)-1 |-> Cell(k)]
           x == MaskTrailing(New(bytes, n))
<1>1. FromBools(bits) = x
  <2>1. Size(bits) = n
    BY SizeIs DEF BitsOf
  <2> QED BY <2>1 DEF FromBools
<1>2. bytes \in Packed(n)
  BY DEF Packed, Byte
<1>3. Row(x) /\ x.len = n
  <2> HIDE DEF bytes
  <2> QED BY <1>2, MaskTrailingRow
<1>4. ASSUME NEW i \in 0..n-1 PROVE Get(x, i) = bits[i]
  <2> DEFINE k == i \div W
             b == i % W
  <2>1. k \in 0..BytesFor(n)-1 /\ b \in 0..W-1 /\ i = k * W + b
    BY PlaceWithin, Zenon
  <2>2. BitAt(bytes, i) <=> b \in Cell(k)
    BY <2>1 DEF BitAt
  <2> HIDE DEF k, b
  <2>3. b \in Cell(k) <=> bits[i] = TRUE
    <3>1. bits[i] \in BOOLEAN /\ i < n
      BY DEF BitsOf
    <3> QED BY <2>1, <3>1
  <2>4. BitAt(x.bytes, i) <=> BitAt(bytes, i)
    <3> HIDE DEF bytes
    <3> QED BY <1>2, MaskTrailingAt
  <2> HIDE DEF x, bytes
  <2>5. Get(x, i) \in BOOLEAN /\ (Get(x, i) <=> BitAt(x.bytes, i))
    <3>1. i \in Nat /\ i < x.len
      BY <1>3
    <3> QED BY <1>3, <3>1, GetIs
  <2>6. bits[i] \in BOOLEAN
    BY DEF BitsOf
  <2>7. Get(x, i) = TRUE <=> bits[i] = TRUE
    BY <2>2, <2>3, <2>4, <2>5, Zenon
  <2> QED BY <2>5, <2>6, <2>7, Zenon
<1> HIDE DEF x
<1> QED BY <1>1, <1>3, <1>4

-----------------------------------------------------------------------------
(* Windows of a long mask                                                  *)

(* The windows of the long mask are within it.                             *)
LEMMA VectorWindowsWithin ==
  ASSUME NEW w \in VectorWindows
  PROVE  w[1] \in Nat /\ w[2] \in Nat /\ w[1] + w[2] <= 7 * WordBits + 2 /\ 2 + w[2] <= 7 * WordBits + 2
<1> DEFINE d == WordBits
<1>1. d \in Nat /\ d >= W /\ d > 1
  BY WordBitsIs
<1>2. w \in {<<0, 5 * d + 1>>, <<1, 4 * d>>, <<d - 1, 6 * d>>, <<d + 2, 6 * d>>, <<2 * d, 5 * d>>, <<3, W + 1>>}
  BY DEF VectorWindows
<1> HIDE DEF d
<1>3. w[1] \in Nat /\ w[2] \in Nat /\ w[1] + w[2] <= 7 * d + 2 /\ 2 + w[2] <= 7 * d + 2
  BY <1>1, <1>2
<1> QED BY <1>3 DEF d

(* Each of the kernels, a vector at a time, writes its window alone.       *)
LEMMA VectorsAreExact == VectorsWriteOnlyTheirWindow
<1> DEFINE long == RepeatedBits
           m == FromBools(long)
           size == 7 * WordBits + 2
<1>1. size \in Nat /\ 7 * WordBits + 1 = size - 1
  <2>1. WordBits \in Nat
    BY WordBitsIs
  <2> QED BY <2>1
<1>2. BitsOf(long, size)
  <2>1. DOMAIN long = 0..size-1 /\ \A i \in 0..size-1 : long[i] = (Here[i % mask.len] # ((i \div mask.len) % 2 = 1))
    BY <1>1 DEF RepeatedBits
  <2> HIDE DEF long, size
  <2>2. \A i \in 0..size-1 : long[i] \in BOOLEAN
    BY <2>1, Zenon
  <2> QED BY <2>1, <2>2 DEF BitsOf
<1> HIDE DEF long, size
<1>3. Row(m) /\ m.len = size /\ \A i \in 0..size-1 : Get(m, i) = long[i]
  BY <1>1, <1>2, FromBoolsAt
<1> HIDE DEF m
<1>4. \A i \in 0..size-1 : Get(m, i) \in BOOLEAN
  BY <1>2, <1>3 DEF BitsOf
<1>5. W \in Nat /\ W % W = 0 /\ 0 \in Nat /\ 2 \in Nat
  <2>1. (1 * W + 0) % W = 0
    BY PlaceIs
  <2>2. 1 * W + 0 = W
    OBVIOUS
  <2> QED BY <2>1, <2>2
<1>6. ASSUME NEW w \in VectorWindows, NEW v \in BOOLEAN
      PROVE  LET n == w[2]
                 out == NewSetAll(W + n + W, v)
             IN /\ Reads(VectorBinopInto(out, W, m, w[1], m, 2, n, Xor),
                         Around([i \in 0..n-1 |-> long[w[1] + i] # long[2 + i]], W, v))
                /\ Reads(VectorBinopInto(out, W, m, 0, m, w[1], n, And),
                         Around([i \in 0..n-1 |-> long[i] /\ long[w[1] + i]], W, v))
                /\ Reads(VectorNotInto(out, W, m, w[1], n), Around([i \in 0..n-1 |-> ~long[w[1] + i]], W, v))
  <2> DEFINE off == w[1]
             n == w[2]
             xors == [i \in 0..n-1 |-> long[off + i] # long[2 + i]]
             ands == [i \in 0..n-1 |-> long[i] /\ long[off + i]]
             nots == [i \in 0..n-1 |-> ~long[off + i]]
  <2>1. off \in Nat /\ n \in Nat /\ off + n <= size /\ 2 + n <= size
    BY VectorWindowsWithin DEF size
  <2> HIDE DEF off, n
  <2>2. \A i \in 0..n-1 : /\ 0 + i = i /\ long[i] = Get(m, i) /\ long[off + i] = Get(m, off + i) /\ long[2 + i] = Get(m, 2 + i)
                          /\ Get(m, i) \in BOOLEAN /\ Get(m, off + i) \in BOOLEAN /\ Get(m, 2 + i) \in BOOLEAN
    <3> TAKE i \in 0..n-1
    <3>1. i \in 0..size-1 /\ off + i \in 0..size-1 /\ 2 + i \in 0..size-1 /\ 0 + i = i
      BY <1>1, <2>1
    <3> QED BY <1>3, <1>4, <3>1, Zenon
  <2>3. Reads(VectorBinopInto(NewSetAll(W + n + W, v), W, m, off, m, 2, n, Xor), Around(xors, W, v))
    <3>1. DOMAIN xors = 0..n-1 /\ \A i \in 0..n-1 : xors[i] = (long[off + i] # long[2 + i])
      OBVIOUS
    <3> HIDE DEF xors
    <3>2. \A i \in 0..n-1 : xors[i] \in BOOLEAN /\ (xors[i] = TRUE <=> <<Get(m, off + i), Get(m, 2 + i)>> \in Xor)
      <4> TAKE i \in 0..n-1
      <4>1. xors[i] = (Get(m, off + i) # Get(m, 2 + i))
        BY <2>2, <3>1, Zenon
      <4>2. <<Get(m, off + i), Get(m, 2 + i)>> \in Xor <=> Get(m, off + i) # Get(m, 2 + i)
        BY <2>2, PairsIn
      <4>3. xors[i] \in BOOLEAN /\ (xors[i] = TRUE <=> Get(m, off + i) # Get(m, 2 + i))
        BY <4>1, Zenon
      <4> QED BY <4>2, <4>3
    <3>3. BitsOf(xors, n)
      BY <3>1, <3>2 DEF BitsOf
    <3> QED BY <1>3, <1>5, <2>1, <3>2, <3>3, VectorBinopExact, Zenon DEF OfPairs
  <2>4. Reads(VectorBinopInto(NewSetAll(W + n + W, v), W, m, 0, m, off, n, And), Around(ands, W, v))
    <3>1. DOMAIN ands = 0..n-1 /\ \A i \in 0..n-1 : ands[i] = (long[i] /\ long[off + i])
      OBVIOUS
    <3> HIDE DEF ands
    <3>2. \A i \in 0..n-1 : ands[i] \in BOOLEAN /\ (ands[i] = TRUE <=> <<Get(m, 0 + i), Get(m, off + i)>> \in And)
      <4> TAKE i \in 0..n-1
      <4>1. ands[i] = (Get(m, i) /\ Get(m, off + i))
        BY <2>2, <3>1, Zenon
      <4>2. <<Get(m, i), Get(m, off + i)>> \in And <=> Get(m, i) /\ Get(m, off + i)
        BY <2>2, PairsIn
      <4>3. ands[i] \in BOOLEAN /\ (ands[i] = TRUE <=> Get(m, i) /\ Get(m, off + i))
        BY <4>1, Zenon
      <4>4. 0 + i = i
        BY <2>2
      <4> QED BY <4>2, <4>3, <4>4
    <3>3. BitsOf(ands, n)
      BY <3>1, <3>2 DEF BitsOf
    <3> QED BY <1>3, <1>5, <2>1, <3>2, <3>3, VectorBinopExact, Zenon DEF OfPairs
  <2>5. Reads(VectorNotInto(NewSetAll(W + n + W, v), W, m, off, n), Around(nots, W, v))
    <3>1. DOMAIN nots = 0..n-1 /\ \A i \in 0..n-1 : nots[i] = ~long[off + i]
      OBVIOUS
    <3> HIDE DEF nots
    <3>2. \A i \in 0..n-1 : nots[i] \in BOOLEAN /\ (nots[i] = TRUE <=> ~Get(m, off + i))
      <4> TAKE i \in 0..n-1
      <4>1. nots[i] = ~Get(m, off + i)
        BY <2>2, <3>1, Zenon
      <4> QED BY <4>1, Zenon
    <3>3. BitsOf(nots, n)
      BY <3>1, <3>2 DEF BitsOf
    <3> QED BY <1>3, <1>5, <2>1, <3>2, <3>3, VectorNotExact
  <2> QED BY <2>3, <2>4, <2>5, Zenon DEF off, n
<1> DEFINE P(l, x, w, v) ==
      LET n == w[2]
          out == NewSetAll(W + n + W, v)
      IN /\ Reads(VectorBinopInto(out, W, x, w[1], x, 2, n, Xor),
                  Around([i \in 0..n-1 |-> l[w[1] + i] # l[2 + i]], W, v))
         /\ Reads(VectorBinopInto(out, W, x, 0, x, w[1], n, And),
                  Around([i \in 0..n-1 |-> l[i] /\ l[w[1] + i]], W, v))
         /\ Reads(VectorNotInto(out, W, x, w[1], n), Around([i \in 0..n-1 |-> ~l[w[1] + i]], W, v))
<1>7. \A w \in VectorWindows, v \in BOOLEAN : P(long, m, w, v)
  BY <1>6
<1> HIDE DEF P
<1>8. \A l \in {RepeatedBits} : \A x \in {FromBools(l)} : \A w \in VectorWindows, v \in BOOLEAN : P(l, x, w, v)
  BY <1>7 DEF long, m
<1> QED BY <1>8, Zenon DEF P, VectorsWriteOnlyTheirWindow

-----------------------------------------------------------------------------
(* Words rounded up, and the kernels over them                             *)

(* A word put into the bytes of a mask shows at its place.                 *)
LEMMA PutWordAt ==
  ASSUME NEW size \in Nat, NEW bytes \in Buffers(size), NEW j \in Nat, NEW word, word \subseteq 0..WordBits-1,
         NEW i \in Nat, i \div W < size
  PROVE  /\ j * WordBits \in Nat /\ PutWord(bytes, j * WordBytes, word) \in Buffers(size)
         /\ BitAt(PutWord(bytes, j * WordBytes, word), i)
              <=> IF j * WordBits <= i /\ i < j * WordBits + WordBits THEN i - j * WordBits \in word ELSE BitAt(bytes, i)
<1> DEFINE d == j * WordBytes
           words == [k \in {0} |-> word]
           s == Stored(bytes, d, words, 1)
           e == j * WordBits
<1>1. d \in Nat /\ e \in Nat /\ d * W = e /\ WordBits \in Nat /\ WordBits > 0
  BY WordPlace, WordBitsIs
<1>2. DOMAIN bytes = 0..size-1 /\ bytes = [k \in 0..size-1 |-> bytes[k]]
  BY DEF Buffers
<1>3. PutWord(bytes, d, word) = s
  <2>1. Stored(bytes, d, words, 0) = bytes
    <3>1. 0 * WordBytes = 0
      OBVIOUS
    <3>2. \A k \in 0..size-1 : ~(d <= k /\ k < d + 0)
      BY <1>1
    <3> HIDE DEF d, words
    <3> QED BY <1>2, <3>1, <3>2 DEF Stored
  <2>2. PutWord(Stored(bytes, d, words, 0), d + 0 * WordBytes, words[0]) = Stored(bytes, d, words, 0 + 1)
    <3>1. 0 \in Nat
      OBVIOUS
    <3> HIDE DEF d, words
    <3> QED BY <1>1, <1>2, <3>1, StoreStep
  <2>3. d + 0 * WordBytes = d /\ 0 + 1 = 1 /\ words[0] = word
    BY <1>1
  <2> HIDE DEF d, words
  <2> QED BY <2>1, <2>2, <2>3 DEF s
<1>4. \A k \in 0..1-1 : words[k] \subseteq 0..WordBits-1
  OBVIOUS
<1>5. words[0] = word
  OBVIOUS
<1> HIDE DEF d, words
<1>6. /\ s \in Buffers(size)
      /\ BitAt(s, i) <=> IF d * W <= i /\ i < d * W + 1 * WordBits
                         THEN (i - d * W) % WordBits \in words[(i - d * W) \div WordBits] ELSE BitAt(bytes, i)
  <2>1. 1 \in Nat
    OBVIOUS
  <2> QED BY <1>1, <1>4, <2>1, StoredAt
<1>7. ASSUME e <= i, i < e + WordBits PROVE (i - e) % WordBits = i - e /\ (i - e) \div WordBits = 0
  <2> DEFINE r == i - e
             z == WordBits
  <2>1. r \in Nat /\ r < z /\ z \in Nat /\ z > 0
    <3> HIDE DEF e
    <3> QED BY <1>1, <1>7
  <2> HIDE DEF r, z
  <2>2. 0 \in Nat /\ 0 * z + r = r
    BY <2>1
  <2>3. (0 * z + r) \div z = 0 /\ (0 * z + r) % z = r
    BY <2>1, <2>2, Quotient
  <2> QED BY <2>2, <2>3 DEF r, z
<1>8. 1 * WordBits = WordBits
  BY <1>1
<1> HIDE DEF s, e
<1>9. BitAt(s, i) <=> IF e <= i /\ i < e + WordBits THEN i - e \in word ELSE BitAt(bytes, i)
  BY <1>1, <1>5, <1>6, <1>7, <1>8
<1> QED BY <1>1, <1>3, <1>6, <1>9 DEF d, e

(* The bits of a word of a null mask, with some cleared and some set.      *)
PutInWord(x, k, cleared, bits) ==
  New(PutWord(x.bytes, k * WordBytes, LowWord((MaskWord(x, k) \ cleared) \cup bits)), x.len)

(* Putting them changes those bits alone.                                  *)
LEMMA PutInWordAt ==
  ASSUME NEW x, Row(x), NEW k \in Nat, NEW cleared, NEW bits,
         \A b \in 0..WordBits-1 : b \in bits => k * WordBits + b < x.len
  PROVE  LET y == PutInWord(x, k, cleared, bits)
         IN /\ Row(y) /\ y.len = x.len /\ k * WordBits \in Nat
            /\ \A i \in 0..x.len-1 :
                 BitAt(y.bytes, i)
                   <=> IF k * WordBits <= i /\ i < k * WordBits + WordBits
                       THEN i - k * WordBits \in bits \/ (i - k * WordBits \notin cleared /\ BitAt(x.bytes, i))
                       ELSE BitAt(x.bytes, i)
<1> DEFINE n == x.len
           e == k * WordBits
           z == BytesFor(n)
           word == LowWord((MaskWord(x, k) \ cleared) \cup bits)
           bytes == PutWord(x.bytes, k * WordBytes, word)
           y == New(bytes, n)
<1>1. n \in Nat /\ z \in Nat /\ x.bytes \in Buffers(z) /\ e \in Nat /\ WordBits \in Nat /\ WordBits > 0
  <2>1. n \in Nat /\ x.bytes \in Packed(n)
    BY RawParts DEF Row
  <2>2. z \in Nat
    BY <2>1, BytesForHolds, Zenon
  <2>3. x.bytes \in Buffers(z)
    BY <2>1, Zenon DEF Buffers, Packed
  <2>4. e \in Nat
    BY WordPlace, Zenon
  <2> QED BY <2>1, <2>2, <2>3, <2>4, WordBitsIs
<1>2. word \subseteq 0..WordBits-1
  BY DEF LowWord, Low
<1>3. ASSUME NEW b \in 0..WordBits-1 PROVE b \in word <=> b \in bits \/ (b \notin cleared /\ Get(x, e + b))
  <2>1. b \in Nat /\ b < WordBits
    BY <1>1
  <2>2. b \in MaskWord(x, k) <=> Get(x, e + b)
    BY <1>1, <2>1, LoadWordHas DEF MaskWord
  <2>3. b \in word <=> b \in (MaskWord(x, k) \ cleared) \cup bits
    BY DEF LowWord, Low
  <2> QED BY <2>2, <2>3
<1> HIDE DEF word, e
<1>4. bytes \in Buffers(z)
      /\ \A i \in Nat : i \div W < z =>
           (BitAt(bytes, i) <=> IF e <= i /\ i < e + WordBits THEN i - e \in word ELSE BitAt(x.bytes, i))
  <2>1. ASSUME NEW i \in Nat, i \div W < z
        PROVE  bytes \in Buffers(z)
               /\ (BitAt(bytes, i) <=> IF e <= i /\ i < e + WordBits THEN i - e \in word ELSE BitAt(x.bytes, i))
    BY <1>1, <1>2, <2>1, PutWordAt DEF e
  <2>2. bytes \in Buffers(z)
    <3>1. bytes = [c \in 0..z-1 |-> IF c \in k * WordBytes .. k * WordBytes + WordBytes - 1
                                    THEN AsByte(Shr(word, (c - k * WordBytes) * W)) ELSE x.bytes[c]]
      BY <1>1 DEF PutWord, Buffers
    <3>2. \A S : AsByte(S) \in Byte
      BY DEF AsByte, Low, Byte
    <3>3. \A c \in 0..z-1 : x.bytes[c] \in Byte
      BY <1>1 DEF Buffers
    <3> HIDE DEF bytes, z
    <3> QED BY <3>1, <3>2, <3>3 DEF Buffers
  <2> QED BY <2>1, <2>2
<1> HIDE DEF bytes
<1>5. ASSUME NEW i \in Nat, e <= i, i < e + WordBits
      PROVE  i - e \in word <=> i - e \in bits \/ (i - e \notin cleared /\ Get(x, i))
  <2>1. i - e \in 0..WordBits-1 /\ e + (i - e) = i
    BY <1>1, <1>5
  <2> QED BY <1>3, <2>1
<1>6. Row(y) /\ y.len = n /\ y.bytes = bytes
  <2>1. bytes \in Packed(n)
    BY <1>4 DEF Packed, Buffers
  <2>2. ASSUME NEW i \in Nat, i >= n, i \div W < BytesFor(n), BitAt(bytes, i) PROVE FALSE
    <3>1. ~BitAt(x.bytes, i) /\ ~Get(x, i)
      <4>1. ~BitAt(x.bytes, i)
        BY <2>2, RowAt
      <4>2. Get(x, i) => BitAt(x.bytes, i)
        BY GetIs
      <4> QED BY <4>1, <4>2
    <3>2. CASE e <= i /\ i < e + WordBits
      <4>1. i - e \in bits
        BY <1>4, <1>5, <2>2, <3>1, <3>2
      <4>2. i - e \in 0..WordBits-1 /\ e + (i - e) = i
        BY <1>1, <3>2
      <4>3. e + (i - e) < n
        BY <4>1, <4>2 DEF e
      <4> QED BY <1>1, <2>2, <4>2, <4>3
    <3>3. CASE ~(e <= i /\ i < e + WordBits)
      BY <1>4, <2>2, <3>1, <3>3
    <3> QED BY <3>2, <3>3
  <2> QED BY <1>1, <2>1, <2>2, RowFromBits
<1> HIDE DEF y
<1>7. ASSUME NEW i \in 0..n-1
      PROVE  BitAt(y.bytes, i) <=> IF e <= i /\ i < e + WordBits
                                   THEN i - e \in bits \/ (i - e \notin cleared /\ BitAt(x.bytes, i)) ELSE BitAt(x.bytes, i)
  <2>1. i \in Nat /\ i < n
    BY <1>1
  <2>2. i \div W < z /\ (Get(x, i) <=> BitAt(x.bytes, i))
    BY <2>1, RowAt, GetIs
  <2> QED BY <1>4, <1>5, <1>6, <2>1, <2>2
<1> QED BY <1>1, <1>6, <1>7 DEF PutInWord, y, bytes, word, e

(* Words rounded up reach the length.                                      *)
LEMMA RoundedUpReaches ==
  ASSUME NEW n \in Nat, NEW j \in Nat, ~(j < RoundedUp(n))
  PROVE  j * WordBits \in Nat /\ j * WordBits >= n
<1> DEFINE d == WordBits
           r == RoundedUp(n)
           p == n + d - 1
           b == p % d
<1>1. d \in Nat /\ d > 0
  BY WordBitsIs
<1>2. r = p \div d
  BY DEF RoundedUp
<1>3. p \in Nat
  <2> HIDE DEF d
  <2> QED BY <1>1
<1> HIDE DEF p
<1>4. r \in Nat /\ b \in 0..d-1 /\ p = r * d + b /\ r * d \in Nat
  BY <1>2, <1>3, WordSplits, Zenon
<1> HIDE DEF b, r
<1>5. r <= j
  BY <1>4 DEF r
<1>6. PICK e \in Nat : j = r + e
  <2>1. j - r \in Nat /\ j = r + (j - r)
    BY <1>4, <1>5
  <2> QED BY <2>1
<1> HIDE DEF d
<1>7. j * d = r * d + e * d /\ e * d \in Nat
  BY <1>1, <1>4, <1>6
<1>8. r * d >= n
  <2> DEFINE y == r * d
  <2>1. n + d - 1 = y + b /\ y \in Nat
    BY <1>4 DEF p
  <2> HIDE DEF y
  <2>2. y >= n
    BY <1>1, <1>4, <2>1
  <2> QED BY <2>2 DEF y
<1>9. j * d \in Nat /\ j * d >= n
  <2> DEFINE y == r * d
             g == e * d
  <2> HIDE DEF y, g
  <2>1. j * d = y + g /\ y \in Nat /\ g \in Nat /\ y >= n
    BY <1>4, <1>7, <1>8 DEF y, g
  <2> QED BY <2>1
<1> QED BY <1>9 DEF d

(* The lanes of a vector are taken from the bits of their rows.            *)
LEMMA SimdMaskHas ==
  ASSUME NEW m, Row(m), NEW off \in Nat, NEW lanes \in Nat, lanes <= WordBits, NEW n \in Nat, off + lanes <= n
  PROVE  /\ SimdMask(m, off, n, lanes) \subseteq 0..lanes-1
         /\ \A c \in 0..lanes-1 : c \in SimdMask(m, off, n, lanes) <=> Get(m, off + c)
<1> DEFINE d == WordBits
           j == off \div d
           s == off % d
           x == MaskWord(m, j)
           y == MaskWord(m, j + 1)
           next == IF s > 0 /\ j + 1 < RoundedUp(m.len) THEN Shl(y, d - s) ELSE {}
           g == Low(Least(lanes, n - off))
           h == SimdMask(m, off, n, lanes)
<1>1. d \in Nat /\ d > 1
  BY WordBitsIs
<1>2. j \in Nat /\ s \in 0..d-1 /\ j * d \in Nat /\ off = j * d + s
  BY WordSplits, Zenon
<1>3. h = (Shr(x, s) \cup next) \cap g
  BY DEF SimdMask
<1> HIDE DEF j, s, h
<1>4. g = 0..lanes-1
  <2>1. Least(lanes, n - off) = lanes
    BY DEF Least
  <2> QED BY <2>1 DEF Low
<1> HIDE DEF g
<1>5. h \subseteq 0..lanes-1
  BY <1>3, <1>4
<1>6. (j + 1) * d \in Nat /\ (j + 1) * d = j * d + d
  <2> HIDE DEF d
  <2> QED BY <1>1, <1>2
<1>7. x \subseteq 0..d-1 /\ y \subseteq 0..d-1 /\ x \subseteq Int /\ y \subseteq Int
  <2>1. x \subseteq 0..d-1 /\ y \subseteq 0..d-1
    BY LoadWordIsWord DEF MaskWord
  <2> HIDE DEF x, y
  <2> QED BY <1>1, <2>1
<1>8. ASSUME NEW c \in 0..lanes-1 PROVE c \in h <=> Get(m, off + c)
  <2>1. c \in Nat /\ c < d /\ c + s \in Nat /\ off + c = j * d + (c + s)
    <3> DEFINE t == j * d
    <3>1. t \in Nat /\ off = t + s /\ lanes <= d
      BY <1>2
    <3> HIDE DEF t, d
    <3>2. c \in Nat /\ c < d /\ c + s \in Nat /\ off + c = t + (c + s)
      BY <1>1, <1>2, <3>1
    <3> QED BY <3>2 DEF t
  <2>2. c \in h <=> c \in Shr(x, s) \/ c \in next
    BY <1>3, <1>4
  <2>3. c \in Shr(x, s) <=> c + s < d /\ Get(m, off + c)
    <3>1. c \in Shr(x, s) <=> c + s \in x
      <4> HIDE DEF x
      <4>1. s \in Nat
        BY <1>1, <1>2
      <4> QED BY <1>7, <2>1, <4>1, Moves
    <3>2. c + s \in x <=> c + s < d /\ Get(m, j * d + (c + s))
      BY <1>2, <2>1, LoadWordHas DEF MaskWord
    <3> QED BY <2>1, <3>1, <3>2
  <2>4. CASE c + s < d
    <3>1. c \notin next
      <4>1. c - (d - s) \notin y
        <5> HIDE DEF y, d
        <5> QED BY <1>1, <1>2, <1>7, <2>1, <2>4
      <4>2. d - s \in Nat
        <5> HIDE DEF d
        <5> QED BY <1>1, <1>2
      <4>3. c \notin Shl(y, d - s)
        <5> HIDE DEF y
        <5> QED BY <1>7, <2>1, <4>1, <4>2, Moves
      <4> HIDE DEF y
      <4> QED BY <4>3
    <3> QED BY <2>2, <2>3, <2>4, <3>1
  <2>5. CASE ~(c + s < d)
    <3> DEFINE u == c + s - d
    <3>1. u \in Nat /\ u < d /\ s > 0 /\ d - s \in Nat /\ c - (d - s) = u /\ off + c = (j + 1) * d + u
      <4> DEFINE t == j * d
                 v == (j + 1) * d
      <4>1. t \in Nat /\ v = t + d /\ off + c = t + (c + s)
        BY <1>2, <1>6, <2>1
      <4> HIDE DEF t, v, d
      <4>2. u \in Nat /\ u < d /\ s > 0 /\ d - s \in Nat /\ c - (d - s) = u /\ off + c = v + u
        BY <1>1, <1>2, <2>1, <2>5, <4>1
      <4> QED BY <4>2 DEF v
    <3> HIDE DEF u
    <3>2. u \in y <=> Get(m, off + c)
      <4>1. u \in y <=> u < d /\ Get(m, (j + 1) * d + u)
        BY <1>6, <3>1, LoadWordHas DEF MaskWord
      <4> QED BY <3>1, <4>1
    <3>3. CASE j + 1 < RoundedUp(m.len)
      <4>1. next = Shl(y, d - s)
        BY <3>1, <3>3
      <4>2. c \in Shl(y, d - s) <=> u \in y
        <5> HIDE DEF y
        <5> QED BY <1>7, <2>1, <3>1, Moves
      <4> HIDE DEF next
      <4> QED BY <2>2, <2>3, <2>5, <3>2, <4>1, <4>2
    <3>4. CASE ~(j + 1 < RoundedUp(m.len))
      <4>1. next = {}
        BY <3>4
      <4>2. m.len \in Nat /\ j + 1 \in Nat
        BY <1>2, RawParts DEF Row
      <4>3. (j + 1) * d >= m.len
        BY <3>4, <4>2, RoundedUpReaches
      <4>4. ~(off + c < m.len)
        <5> DEFINE v == (j + 1) * d
        <5>1. v \in Nat /\ v >= m.len /\ off + c = v + u
          BY <1>6, <3>1, <4>3
        <5> HIDE DEF v
        <5> QED BY <3>1, <4>2, <5>1
      <4>5. ~Get(m, off + c)
        <5>1. off + c \in Nat
          BY <2>1
        <5> QED BY <4>4, <5>1, GetIs
      <4> HIDE DEF next
      <4> QED BY <2>2, <2>3, <4>1, <4>5
    <3> QED BY <3>3, <3>4
  <2> QED BY <2>4, <2>5
<1> QED BY <1>5, <1>8 DEF h

-----------------------------------------------------------------------------
(* Lanes of a vector over rows of integers                                 *)

(* The lanes of a vector are written to the bits of their rows and to no   *)
(* other.                                                                  *)
LEMMA WriteSimdMaskAt ==
  ASSUME NEW m, Row(m), NEW off \in Nat, NEW lanes \in Nat, lanes <= WordBits, off + lanes <= m.len,
         NEW hit, hit \subseteq 0..lanes-1
  PROVE  LET y == WriteSimdMaskBits(m, off, hit, lanes)
         IN /\ Row(y) /\ y.len = m.len
            /\ \A i \in 0..m.len-1 : BitAt(y.bytes, i) <=> IF off <= i /\ i < off + lanes THEN i - off \in hit ELSE BitAt(m.bytes, i)
<1> DEFINE d == WordBits
           j == off \div d
           s == off % d
           e == j * d
           f == (j + 1) * d
           n == m.len
           cut1 == Shl(Low(lanes), s)
           put1 == Shl(hit, s)
           cut2 == Low(lanes - (d - s))
           put2 == Shr(hit, d - s)
           x == PutInWord(m, j, cut1, put1)
           z == PutInWord(x, j + 1, cut2, put2)
           y == WriteSimdMaskBits(m, off, hit, lanes)
<1>1. d \in Nat /\ d > 1 /\ n \in Nat
  BY WordBitsIs, RawParts DEF Row
<1>2. j \in Nat /\ s \in 0..d-1 /\ e \in Nat /\ off = e + s
  BY WordSplits, Zenon
<1>3. y = IF s > 0 /\ s + lanes > d THEN z ELSE x
  BY DEF WriteSimdMaskBits, PutInWord
<1>4. f \in Nat /\ f = e + d /\ j + 1 \in Nat
  <2> HIDE DEF d, j
  <2> QED BY <1>1, <1>2
<1> HIDE DEF y, j, s, d
<1>5. hit \subseteq Int /\ Low(lanes) \subseteq Int /\ lanes <= d /\ d - s \in Nat /\ s \in Nat
  BY <1>1, <1>2 DEF Low, d
<1>6. ASSUME NEW b \in 0..d-1
      PROVE  /\ b \in put1 <=> (e + b) - off \in hit
             /\ b \in cut1 <=> off <= e + b /\ e + b < off + lanes
  <2>1. b \in Nat
    OBVIOUS
  <2>2. (b \in put1 <=> b - s \in hit) /\ (b \in cut1 <=> b - s \in Low(lanes))
    BY <1>5, <2>1, Moves
  <2> HIDE DEF put1, cut1, e
  <2>3. b - s = (e + b) - off
    BY <1>2, <2>1
  <2>4. b - s \in Low(lanes) <=> off <= e + b /\ e + b < off + lanes
    BY <1>2, <2>1 DEF Low
  <2> QED BY <2>2, <2>3, <2>4
<1>7. \A b \in 0..d-1 : b \in put1 => e + b < n
  <2> TAKE b \in 0..d-1
  <2>1. b \in put1 => (e + b) - off \in 0..lanes-1
    BY <1>6
  <2> HIDE DEF put1, e
  <2> QED BY <1>1, <1>2, <2>1
<1> HIDE DEF put1, cut1
<1>8. Row(x) /\ x.len = n
      /\ \A i \in 0..n-1 : BitAt(x.bytes, i) <=> IF e <= i /\ i < e + d
                                                 THEN i - e \in put1 \/ (i - e \notin cut1 /\ BitAt(m.bytes, i))
                                                 ELSE BitAt(m.bytes, i)
  BY <1>2, <1>7, PutInWordAt DEF d
<1> HIDE DEF x
<1>9. ASSUME NEW i \in 0..n-1
      PROVE  BitAt(x.bytes, i) <=> IF e <= i /\ i < e + d
                                   THEN i - off \in hit \/ (~(off <= i /\ i < off + lanes) /\ BitAt(m.bytes, i))
                                   ELSE BitAt(m.bytes, i)
  <2> HIDE DEF e
  <2>1. CASE e <= i /\ i < e + d
    <3>1. i - e \in 0..d-1 /\ e + (i - e) = i
      BY <1>1, <1>2, <2>1
    <3>2. (i - e \in put1 <=> i - off \in hit) /\ (i - e \in cut1 <=> off <= i /\ i < off + lanes)
      BY <1>6, <3>1
    <3> QED BY <1>8, <2>1, <3>2
  <2>2. CASE ~(e <= i /\ i < e + d)
    BY <1>8, <2>2
  <2> QED BY <2>1, <2>2
<1>10. ASSUME NEW i \in 0..n-1, ~(off <= i /\ i < off + lanes) PROVE i - off \notin hit
  <2>1. i - off \notin 0..lanes-1
    BY <1>10
  <2> QED BY <2>1
<1>11. CASE s > 0 /\ s + lanes > d
  <2>1. ASSUME NEW b \in 0..d-1
        PROVE  /\ b \in put2 <=> (f + b) - off \in hit
               /\ b \in cut2 <=> f + b < off + lanes
    <3>1. b \in Nat
      OBVIOUS
    <3>2. b \in put2 <=> b + (d - s) \in hit
      BY <1>5, <3>1, Moves
    <3> HIDE DEF put2, e, f
    <3>3. b + (d - s) = (f + b) - off
      BY <1>1, <1>2, <1>4, <3>1
    <3>4. b \in cut2 <=> f + b < off + lanes
      BY <1>1, <1>2, <1>4, <3>1 DEF Low
    <3> QED BY <3>2, <3>3, <3>4
  <2>2. \A b \in 0..d-1 : b \in put2 => f + b < x.len
    <3> TAKE b \in 0..d-1
    <3>1. b \in put2 => (f + b) - off \in 0..lanes-1
      BY <2>1
    <3> HIDE DEF put2, e, f
    <3> QED BY <1>1, <1>2, <1>4, <1>8, <3>1
  <2> HIDE DEF put2, cut2
  <2>3. Row(z) /\ z.len = x.len
        /\ \A i \in 0..x.len-1 : BitAt(z.bytes, i) <=> IF f <= i /\ i < f + d
                                                       THEN i - f \in put2 \/ (i - f \notin cut2 /\ BitAt(x.bytes, i))
                                                       ELSE BitAt(x.bytes, i)
    BY <1>4, <1>8, <2>2, PutInWordAt DEF d
  <2> HIDE DEF z
  <2>4. ASSUME NEW i \in 0..n-1
        PROVE  BitAt(z.bytes, i) <=> IF off <= i /\ i < off + lanes THEN i - off \in hit ELSE BitAt(m.bytes, i)
    <3> HIDE DEF e, f
    <3>1. CASE f <= i /\ i < f + d
      <4>1. i - f \in 0..d-1 /\ f + (i - f) = i
        BY <1>1, <1>4, <3>1
      <4>2. (i - f \in put2 <=> i - off \in hit) /\ (i - f \in cut2 <=> i < off + lanes)
        BY <2>1, <4>1
      <4>3. BitAt(z.bytes, i) <=> i - off \in hit \/ (~(i < off + lanes) /\ BitAt(x.bytes, i))
        BY <1>8, <2>3, <3>1, <4>2
      <4>4. BitAt(x.bytes, i) <=> BitAt(m.bytes, i)
        <5>1. ~(e <= i /\ i < e + d)
          BY <1>2, <1>4, <3>1
        <5> QED BY <1>9, <5>1
      <4>5. off <= i
        BY <1>1, <1>2, <1>4, <3>1
      <4> QED BY <1>10, <4>3, <4>4, <4>5
    <3>2. CASE ~(f <= i /\ i < f + d)
      <4>1. BitAt(z.bytes, i) <=> BitAt(x.bytes, i)
        BY <1>8, <2>3, <3>2
      <4>2. off <= i /\ i < off + lanes => e <= i /\ i < e + d
        BY <1>1, <1>2, <1>4, <1>5, <3>2
      <4> QED BY <1>9, <1>10, <4>1, <4>2
    <3> QED BY <3>1, <3>2
  <2> QED BY <1>3, <1>8, <1>11, <2>3, <2>4 DEF y
<1>12. CASE ~(s > 0 /\ s + lanes > d)
  <2>1. y = x
    BY <1>3, <1>12
  <2>2. ASSUME NEW i \in 0..n-1
        PROVE  BitAt(x.bytes, i) <=> IF off <= i /\ i < off + lanes THEN i - off \in hit ELSE BitAt(m.bytes, i)
    <3> HIDE DEF e
    <3>1. off <= i /\ i < off + lanes => e <= i /\ i < e + d
      BY <1>1, <1>2, <1>5, <1>12
    <3> QED BY <1>9, <1>10, <3>1
  <2> QED BY <1>8, <2>1, <2>2 DEF y
<1> QED BY <1>11, <1>12

(* A number is split by any other than zero.                               *)
LEMMA SplitBy ==
  ASSUME NEW i \in Nat, NEW d \in Nat, d > 0
  PROVE  /\ i \div d \in Nat /\ i % d \in 0..d-1 /\ (i \div d) * d \in Nat /\ i = (i \div d) * d + (i % d)
         /\ \A q \in Nat : q * d \in Nat /\ (i < q * d <=> i \div d < q)
<1> DEFINE a == i \div d
           b == i % d
<1>1. a \in Nat /\ b \in 0..d-1 /\ i = d * a + b
  OBVIOUS
<1> HIDE DEF a, b
<1>2. d * a = a * d /\ a * d \in Nat
  BY <1>1
<1>3. ASSUME NEW q \in Nat PROVE q * d \in Nat /\ (i < q * d <=> a < q)
  <2>1. q * d \in Nat
    OBVIOUS
  <2>2. ASSUME a < q PROVE i < q * d
    <3>1. PICK e \in Nat : q = a + 1 + e
      <4>1. q - a - 1 \in Nat /\ q = a + 1 + (q - a - 1)
        BY <1>1, <2>2
      <4> QED BY <4>1
    <3>2. q * d = a * d + d + e * d /\ e * d \in Nat
      BY <1>1, <3>1
    <3> QED BY <1>1, <1>2, <3>2
  <2>3. ASSUME q <= a PROVE ~(i < q * d)
    <3>1. PICK e \in Nat : a = q + e
      <4>1. a - q \in Nat /\ a = q + (a - q)
        BY <1>1, <2>3
      <4> QED BY <4>1
    <3>2. a * d = q * d + e * d /\ e * d \in Nat
      BY <1>1, <3>1
    <3> QED BY <1>1, <1>2, <2>1, <3>2
  <2> QED BY <1>1, <2>1, <2>2, <2>3
<1> QED BY <1>1, <1>2, <1>3 DEF a, b

(* A mask of which a count finds no null has every bit set.                *)
LEMMA AllBitsSet ==
  ASSUME NEW m, Row(m), AllBits(m, TRUE), NEW i \in 0..m.len-1
  PROVE  Get(m, i)
<1> DEFINE n == m.len
           d == WordBits
           q == WholeWords(n)
<1>1. n \in Nat /\ d \in Nat /\ d > 0 /\ q \in Nat /\ q * d \in Nat /\ i \in Nat /\ i < n
      /\ DOMAIN m.bytes = 0..BytesFor(n)-1 /\ \A k \in 0..BytesFor(n)-1 : m.bytes[k] \in Byte
  <2>1. n \in Nat /\ DOMAIN m.bytes = 0..BytesFor(n)-1 /\ \A k \in 0..BytesFor(n)-1 : m.bytes[k] \in Byte
    BY RawParts DEF Row
  <2>2. q \in Nat /\ q * d \in Nat
    BY <2>1, WindowSplits, Zenon
  <2>3. d \in Nat /\ d > 0
    BY WordBitsIs
  <2>4. i \in Nat /\ i < n
    BY <2>1
  <2> QED BY <2>1, <2>2, <2>3, <2>4
<1>2. BytesFor(n) \in Nat
  BY <1>1, BytesForHolds
<1>3. CASE i < q * d
  <2> DEFINE k == i \div d
             c == i % d
  <2>1. k \in Nat /\ c \in 0..d-1 /\ i = k * d + c /\ k < q
    BY <1>1, <1>3, SplitBy, Zenon
  <2> HIDE DEF k, c
  <2>2. BufferWord(m, k) = Low(d)
    <3>1. k \in 0..q-1
      BY <1>1, <2>1
    <3> QED BY <3>1 DEF AllBits
  <2>3. k < BufferWords(m)
    <3> DEFINE z == BytesFor(n)
    <3>1. BufferWords(m) = z \div WordBytes
      <4>1. Raw(m)
        BY DEF Row
      <4> QED BY <4>1, SizeOfBytes DEF BufferWords
    <3>2. z < (k + 1) * WordBytes <=> z \div WordBytes < k + 1
      <4>1. WordBytes \in Nat /\ WordBytes > 0 /\ k + 1 \in Nat
        BY <2>1
      <4> HIDE DEF z
      <4> QED BY <1>2, <4>1, SplitBy DEF z
    <3>3. ASSUME z < (k + 1) * WordBytes PROVE FALSE
      <4> DEFINE g == (k + 1) * WordBytes
      <4>1. g \in Nat /\ (k + 1) * d = g * W
        <5>1. k + 1 \in Nat
          BY <2>1
        <5> QED BY <5>1, WordPlace
      <4>2. z * W \in Nat /\ n <= z * W
        BY <1>1, BytesForHolds
      <4>3. z <= g => z * W <= g * W
        <5> HIDE DEF z, g
        <5> QED BY <1>2, <4>1, MultiplesOrdered DEF z
      <4>4. z <= g /\ g * W \in Nat
        <5>1. z <= g
          <6> HIDE DEF z, g
          <6> QED BY <1>2, <3>3, <4>1 DEF z, g
        <5>2. g * W \in Nat
          <6> HIDE DEF g
          <6> QED BY <4>1, MultiplesOrdered
        <5> QED BY <5>1, <5>2
      <4>5. n < g * W \/ n = g * W
        <5> HIDE DEF z, g
        <5> QED BY <1>1, <4>2, <4>3, <4>4
      <4>6. (k + 1) * d <= n
        <5>1. n < (k + 1) * d <=> n \div d < k + 1
          <6>1. k + 1 \in Nat
            BY <2>1
          <6> QED BY <1>1, <6>1, SplitBy
        <5>2. q = n \div d /\ n \div d \in Nat
          BY <1>1 DEF WholeWords
        <5>3. (k + 1) * d \in Nat
          BY <1>1, <2>1
        <5> HIDE DEF q, d
        <5> QED BY <1>1, <2>1, <5>1, <5>2, <5>3
      <4>7. z + 1 <= g => (z + 1) * W <= g * W /\ (z + 1) * W = z * W + W
        <5> HIDE DEF z, g
        <5>1. z + 1 \in Nat
          BY <1>2 DEF z
        <5> QED BY <1>2, <4>1, <5>1, MultiplesOrdered DEF z
      <4>8. z + 1 <= g
        <5> HIDE DEF z, g
        <5> QED BY <1>2, <3>3, <4>1 DEF z, g
      <4> DEFINE zw == z * W
                 gw == g * W
      <4>9. zw \in Nat /\ gw \in Nat /\ n <= zw /\ zw + W <= gw /\ gw <= n
        BY <4>1, <4>2, <4>4, <4>6, <4>7, <4>8
      <4> HIDE DEF zw, gw
      <4> QED BY <1>1, <4>9
    <3>4. BufferWords(m) \in Nat
      BY BufferWordsIs, Zenon
    <3> HIDE DEF z
    <3>5. ~(BufferWords(m) < k + 1)
      BY <3>1, <3>2, <3>3, Zenon
    <3> QED BY <2>1, <3>4, <3>5
  <2>4. c \in BufferWord(m, k) <=> Get(m, k * d + c)
    BY <2>1, <2>3, BufferWordHas
  <2>5. c \in Low(d)
    BY <2>1 DEF Low
  <2> QED BY <2>1, <2>2, <2>4, <2>5
<1>4. CASE ~(i < q * d)
  <2>1. i \in Rest(n)
    BY <1>1, <1>4, WindowSplits
  <2>2. LastBytes(m, 0, n) = Rest(n)
    BY DEF AllBits
  <2> DEFINE B == q * WordBytes .. BytesFor(n) - 1
             cut(b) == IF b < n \div W THEN Low(W) ELSE Low(n % W)
  <2>3. LastBytes(m, 0, n) = UNION {Shl(m.bytes[0 \div W + b] \cap cut(b), b * W) : b \in B}
    BY DEF LastBytes
  <2>4. PICK b \in B : i \in Shl(m.bytes[0 \div W + b] \cap cut(b), b * W)
    <3> HIDE DEF B, cut
    <3> QED BY <2>1, <2>2, <2>3
  <2>5. PICK y \in m.bytes[0 \div W + b] : i = y + b * W
    BY <2>4 DEF Shl
  <2>6. b \in Nat /\ b \in 0..BytesFor(n)-1 /\ 0 \div W + b = b
    <3>1. q * WordBytes \in Nat
      BY <1>1
    <3>2. b \in Nat /\ b \in 0..BytesFor(n)-1
      BY <1>2, <3>1
    <3>3. 0 \div W = 0
      <4>1. 0 \in Nat /\ 0 \in 0..W-1 /\ 0 * W + 0 = 0
        OBVIOUS
      <4> QED BY <4>1, PlaceIs
    <3> QED BY <3>2, <3>3
  <2>7. y \in 0..W-1 /\ y \in m.bytes[b]
    BY <1>1, <2>5, <2>6 DEF Byte
  <2>8. i \div W = b /\ i % W = y
    <3>1. b * W + y = i /\ b * W \in Nat
      BY <2>5, <2>6, <2>7
    <3> QED BY <2>6, <2>7, <3>1, PlaceIs
  <2>9. BitAt(m.bytes, i)
    BY <2>7, <2>8 DEF BitAt
  <2> QED BY <1>1, <2>9, GetIs
<1> QED BY <1>3, <1>4

(* The lanes of vector k of the rows of a mask that hold a value.          *)
Taken(m, n, lanes, dense, k) == IF dense THEN Low(lanes) ELSE SimdMask(m, k * lanes, n, lanes)

(* The dense path is taken when no row is null.                            *)
NoNulls(dense, m, n) == dense => \A i \in 0..n-1 : Get(m, i)

(* They are those whose bit is set.                                        *)
LEMMA TakenHas ==
  ASSUME NEW m, Row(m), NEW n, n = m.len, NEW lanes \in Nat, lanes > 0, lanes <= WordBits, NEW dense \in BOOLEAN,
         NoNulls(dense, m, n), NEW k \in 0..n \div lanes - 1
  PROVE  /\ k \in Nat /\ k * lanes \in Nat /\ k * lanes + lanes <= n /\ n \in Nat
         /\ Taken(m, n, lanes, dense, k) \subseteq 0..lanes-1
         /\ \A c \in 0..lanes-1 : c \in Taken(m, n, lanes, dense, k) <=> Get(m, k * lanes + c)
<1> DEFINE q == n \div lanes
           off == k * lanes
<1>1. n \in Nat
  BY RawParts DEF Row
<1>2. q \in Nat /\ k \in Nat /\ k < q
  <2>1. q \in Nat
    BY <1>1
  <2> HIDE DEF q
  <2>2. k \in 0..q-1
    BY DEF q
  <2> QED BY <2>1, <2>2
<1>3. off \in Nat /\ off + lanes <= n
  <2>1. (k + 1) * lanes \in Nat /\ (n < (k + 1) * lanes <=> q < k + 1)
    <3>1. k + 1 \in Nat
      BY <1>2
    <3> QED BY <1>1, <3>1, SplitBy
  <2>2. (k + 1) * lanes = off + lanes /\ off \in Nat
    BY <1>2
  <2> HIDE DEF q, off
  <2> QED BY <1>1, <1>2, <2>1, <2>2
<1> HIDE DEF off
<1>4. CASE dense
  <2>1. Taken(m, n, lanes, dense, k) = 0..lanes-1
    BY <1>4 DEF Taken, Low
  <2>2. ASSUME NEW c \in 0..lanes-1 PROVE Get(m, off + c)
    <3>1. off + c \in 0..n-1
      BY <1>1, <1>3
    <3> QED BY <1>4, <3>1 DEF NoNulls
  <2> QED BY <1>1, <1>2, <1>3, <2>1, <2>2 DEF off
<1>5. CASE ~dense
  <2>1. Taken(m, n, lanes, dense, k) = SimdMask(m, off, n, lanes)
    BY <1>5 DEF Taken, off
  <2>2. /\ SimdMask(m, off, n, lanes) \subseteq 0..lanes-1
        /\ \A c \in 0..lanes-1 : c \in SimdMask(m, off, n, lanes) <=> Get(m, off + c)
    BY <1>1, <1>3, SimdMaskHas
  <2> QED BY <1>1, <1>2, <1>3, <2>1, <2>2 DEF off
<1> QED BY <1>4, <1>5

(* A mask whose first k vectors of lanes are those of another.             *)
Copied(x, m, out, n, upTo) ==
  /\ Row(x) /\ x.len = n
  /\ \A i \in 0..n-1 : BitAt(x.bytes, i) <=> IF i < upTo THEN Get(m, i) ELSE BitAt(out.bytes, i)

(* One more vector of lanes is copied.                                     *)
LEMMA CopiesOne ==
  ASSUME NEW m, Row(m), NEW out, Row(out), NEW n, n = m.len, n = out.len,
         NEW lanes \in Nat, lanes > 0, lanes <= WordBits, NEW dense \in BOOLEAN,
         NoNulls(dense, m, n), NEW k \in 0..n \div lanes - 1,
         NEW x, Copied(x, m, out, n, k * lanes)
  PROVE  Copied(WriteSimdMaskBits(x, k * lanes, Taken(m, n, lanes, dense, k), lanes), m, out, n, (k + 1) * lanes)
<1> DEFINE off == k * lanes
           hit == Taken(m, n, lanes, dense, k)
           y == WriteSimdMaskBits(x, off, hit, lanes)
<1>1. k \in Nat /\ off \in Nat /\ off + lanes <= n /\ n \in Nat /\ hit \subseteq 0..lanes-1
      /\ \A c \in 0..lanes-1 : c \in hit <=> Get(m, off + c)
  BY TakenHas DEF NoNulls
<1>2. (k + 1) * lanes = off + lanes
  BY <1>1
<1> HIDE DEF off, hit
<1>3. Row(x) /\ x.len = n
      /\ \A i \in 0..n-1 : BitAt(x.bytes, i) <=> IF i < off THEN Get(m, i) ELSE BitAt(out.bytes, i)
  BY DEF Copied, off
<1>4. Row(y) /\ y.len = n
      /\ \A i \in 0..n-1 : BitAt(y.bytes, i) <=> IF off <= i /\ i < off + lanes THEN i - off \in hit ELSE BitAt(x.bytes, i)
  <2>1. off + lanes <= x.len
    BY <1>1, <1>3
  <2>2. Row(y) /\ y.len = x.len
        /\ \A i \in 0..x.len-1 : BitAt(y.bytes, i) <=> IF off <= i /\ i < off + lanes THEN i - off \in hit ELSE BitAt(x.bytes, i)
    BY <1>1, <1>3, <2>1, WriteSimdMaskAt, Zenon
  <2> QED BY <1>3, <2>2, Zenon
<1> HIDE DEF y
<1>5. ASSUME NEW i \in 0..n-1 PROVE BitAt(y.bytes, i) <=> IF i < off + lanes THEN Get(m, i) ELSE BitAt(out.bytes, i)
  <2>1. CASE off <= i /\ i < off + lanes
    <3>1. i - off \in 0..lanes-1 /\ off + (i - off) = i
      BY <1>1, <2>1
    <3>2. i - off \in hit <=> Get(m, i)
      BY <1>1, <3>1
    <3> QED BY <1>4, <2>1, <3>2
  <2>2. CASE ~(off <= i /\ i < off + lanes)
    <3>1. i < off + lanes <=> i < off
      BY <1>1, <2>2
    <3> QED BY <1>3, <1>4, <2>2, <3>1
  <2> QED BY <2>1, <2>2
<1>6. Copied(y, m, out, n, off + lanes)
  BY <1>4, <1>5 DEF Copied
<1> QED BY <1>2, <1>6 DEF y, hit, off

(* Rows under a mask, a vector of lanes at a time: a row keeps its value   *)
(* when its bit is set, and the result's mask is the mask.                 *)
LEMMA VectorMaskedRowsAt ==
  ASSUME NEW m, Row(m), NEW out, Row(out), NEW n, n = m.len, n = out.len, NEW rows, DOMAIN rows = 0..n-1,
         NEW lanes \in Nat, lanes > 0, lanes <= WordBits, NEW dense \in BOOLEAN,
         NoNulls(dense, m, n)
  PROVE  LET r == VectorMaskedRows(rows, m, out, lanes, dense)
         IN /\ r.data = [i \in 0..n-1 |-> IF Get(m, i) THEN rows[i] ELSE {}]
            /\ Row(r.mask) /\ r.mask.len = n /\ \A i \in 0..n-1 : BitAt(r.mask.bytes, i) <=> Get(m, i)
<1> DEFINE q == n \div lanes
           vec == q * lanes
           taken(v) == IF dense THEN Low(lanes) ELSE SimdMask(m, v * lanes, n, lanes)
           Step(x, v) == WriteSimdMaskBits(x, (v - 1) * lanes, taken(v - 1), lanes)
           R(g) == g = [v \in 0..q |-> IF v = 0 THEN out ELSE Step(g[v - 1], v)]
           after == CHOOSE g : R(g)
           rest == {i \in vec..n-1 : dense \/ Get(m, i)}
           kept(i) == IF i < vec THEN i % lanes \in taken(i \div lanes) ELSE i \in rest
           f == [v \in 1..q |-> [x \in Rows |-> IF Copied(x, m, out, n, (v - 1) * lanes) THEN Step(x, v) ELSE x]]
           r == VectorMaskedRows(rows, m, out, lanes, dense)
<1>1. n \in Nat /\ q \in Nat /\ vec \in Nat /\ vec <= n
  <2>1. n \in Nat
    BY RawParts DEF Row
  <2>2. q \in Nat /\ vec \in Nat /\ n % lanes \in 0..lanes-1 /\ n = vec + (n % lanes)
    BY <2>1, SplitBy, Zenon
  <2> DEFINE b == n % lanes
  <2>3. b \in Nat /\ n = vec + b
    BY <2>2
  <2> HIDE DEF b, vec
  <2>4. vec <= n
    BY <2>1, <2>2, <2>3
  <2> QED BY <2>1, <2>2, <2>4
<1>2. Size(rows) = n
  BY <1>1, SizeIs
<1>3. r = [data |-> [i \in 0..n-1 |-> IF kept(i) THEN rows[i] ELSE {}],
           mask |-> PutBits(PutBits(after[q], rest, TRUE), (vec..n-1) \ rest, FALSE)]
  BY <1>2 DEF VectorMaskedRows, Zero
<1>4. \A k \in 0..q-1 : taken(k) = Taken(m, n, lanes, dense, k)
  BY DEF Taken
<1>5. ASSUME NEW k \in 0..q-1, NEW x, Copied(x, m, out, n, k * lanes) PROVE Copied(Step(x, k + 1), m, out, n, (k + 1) * lanes)
  <2>1. Copied(WriteSimdMaskBits(x, k * lanes, Taken(m, n, lanes, dense, k), lanes), m, out, n, (k + 1) * lanes)
    BY <1>5, CopiesOne
  <2>2. (k + 1) - 1 = k
    BY <1>1
  <2>3. Step(x, k + 1) = WriteSimdMaskBits(x, k * lanes, Taken(m, n, lanes, dense, k), lanes)
    BY <1>4, <2>2
  <2> QED BY <2>1, <2>3
<1> HIDE DEF Step, r
<1>6. \A v \in 1..q, x \in Rows : (IF Copied(x, m, out, n, (v - 1) * lanes) THEN Step(x, v) ELSE x) \in Rows
  <2> TAKE v \in 1..q, x \in Rows
  <2>1. v - 1 \in 0..q-1 /\ (v - 1) + 1 = v
    BY <1>1
  <2>2. Copied(x, m, out, n, (v - 1) * lanes) => Row(Step(x, v))
    BY <1>5, <2>1 DEF Copied
  <2> QED BY <2>2, InRows
<1>7. PICK g \in [0..q -> Rows] : g[0] = out /\ \A v \in 1..q : g[v] = f[v][g[v - 1]]
  <2>1. f \in [1..q -> [Rows -> Rows]]
    BY <1>6
  <2> HIDE DEF f
  <2>2. out \in Rows /\ q \in Nat
    BY <1>1, InRows
  <2> HIDE DEF q
  <2> QED BY ONLY <2>1, <2>2, LoopRuns
<1>8. Copied(out, m, out, n, 0 * lanes)
  <2>1. 0 * lanes = 0
    OBVIOUS
  <2>2. \A i \in 0..n-1 : ~(i < 0)
    BY <1>1
  <2> QED BY <2>1, <2>2 DEF Copied
<1> HIDE DEF q
<1> DEFINE T == {k \in Nat : k <= q => Copied(g[k], m, out, n, k * lanes)}
<1>9. \A k \in 0..q : Copied(g[k], m, out, n, k * lanes)
  <2>1. 0 \in T
    BY <1>7, <1>8
  <2>2. ASSUME NEW k \in Nat, k \in T PROVE k + 1 \in T
    <3> SUFFICES ASSUME k + 1 <= q PROVE Copied(g[k + 1], m, out, n, (k + 1) * lanes)
      OBVIOUS
    <3>1. k + 1 \in 1..q /\ (k + 1) - 1 = k /\ k \in 0..q-1 /\ k \in 0..q /\ k <= q
      BY <1>1
    <3>2. Copied(g[k], m, out, n, k * lanes)
      BY <2>2, <3>1
    <3>3. g[k + 1] = Step(g[k], k + 1)
      <4>1. g[k] \in Rows
        BY <1>7, <3>1
      <4>2. f[k + 1][g[k]] = Step(g[k], k + 1)
        BY <3>1, <3>2, <4>1
      <4> HIDE DEF f
      <4> QED BY <1>7, <3>1, <4>2
    <3> QED BY <1>5, <3>1, <3>2, <3>3
  <2>3. \A k \in Nat : k \in T
    <3> HIDE DEF T
    <3> QED BY <2>1, <2>2, Induction
  <2>4. \A k \in 0..q : k \in Nat /\ k <= q
    BY <1>1
  <2> QED BY <2>3, <2>4
<1>10. R(g)
  <2>1. \A v \in 0..q : v # 0 => v \in 1..q /\ v - 1 \in 0..q
    BY <1>1
  <2>2. ASSUME NEW v \in 0..q, v # 0 PROVE g[v] = Step(g[v - 1], v)
    <3>1. v \in 1..q /\ v - 1 \in 0..q /\ g[v - 1] \in Rows /\ Copied(g[v - 1], m, out, n, (v - 1) * lanes)
      BY <1>7, <1>9, <2>1, <2>2
    <3>2. f[v][g[v - 1]] = Step(g[v - 1], v)
      BY <3>1
    <3> HIDE DEF f
    <3> QED BY <1>7, <3>1, <3>2
  <2>3. \A v \in 0..q : g[v] = IF v = 0 THEN out ELSE Step(g[v - 1], v)
    BY <1>7, <2>2
  <2>4. g = [v \in 0..q |-> g[v]]
    BY <1>7
  <2> QED BY <2>3, <2>4
<1>11. R(after)
  <2> HIDE DEF R
  <2> QED BY <1>10
<1> HIDE DEF after
<1>12. Copied(after[q], m, out, n, vec)
  <2>1. \A k \in 0..q : after[k] = g[k]
    <3> DEFINE U == {k \in Nat : k <= q => after[k] = g[k]}
    <3>1. 0 \in U
      BY <1>1, <1>10, <1>11
    <3>2. ASSUME NEW k \in Nat, k \in U PROVE k + 1 \in U
      <4> SUFFICES ASSUME k + 1 <= q PROVE after[k + 1] = g[k + 1]
        OBVIOUS
      <4>1. k + 1 \in 0..q /\ k + 1 # 0 /\ (k + 1) - 1 = k /\ k <= q
        BY <1>1
      <4>2. after[k + 1] = Step(after[k], k + 1) /\ g[k + 1] = Step(g[k], k + 1)
        BY <1>10, <1>11, <4>1
      <4> QED BY <3>2, <4>1, <4>2
    <3>3. \A k \in Nat : k \in U
      <4> HIDE DEF U
      <4> QED BY <3>1, <3>2, Induction
    <3>4. \A k \in 0..q : k \in Nat /\ k <= q
      BY <1>1
    <3> QED BY <3>3, <3>4
  <2>2. q \in 0..q
    BY <1>1
  <2> QED BY <1>9, <2>1, <2>2
<1> DEFINE last == after[q]
           withOnes == PutBits(last, rest, TRUE)
           mask1 == PutBits(withOnes, (vec..n-1) \ rest, FALSE)
<1>13. r.data = [i \in 0..n-1 |-> IF kept(i) THEN rows[i] ELSE {}] /\ r.mask = mask1
  <2> HIDE DEF kept, mask1
  <2> QED BY <1>3 DEF mask1
<1>14. Row(last) /\ last.len = n
       /\ \A i \in 0..n-1 : BitAt(last.bytes, i) <=> IF i < vec THEN Get(m, i) ELSE BitAt(out.bytes, i)
  BY <1>12 DEF Copied
<1> HIDE DEF last, vec
<1>15. ASSUME NEW i \in vec..n-1 PROVE i \in rest <=> Get(m, i)
  <2>1. i \in 0..n-1
    BY <1>1
  <2> QED BY <2>1 DEF NoNulls
<1>16. rest \in SUBSET (0..n-1) /\ (vec..n-1) \ rest \in SUBSET (0..n-1)
  BY <1>1
<1>17. ASSUME NEW i \in 0..n-1 PROVE kept(i) <=> Get(m, i)
  <2>1. CASE i < vec
    <3> DEFINE v == i \div lanes
               c == i % lanes
    <3>1. i \in Nat
      BY <1>1
    <3>2. v \in Nat /\ c \in 0..lanes-1 /\ i = v * lanes + c /\ (i < q * lanes <=> v < q)
      BY <1>1, <3>1, SplitBy, Zenon
    <3> HIDE DEF v, c
    <3>3. v \in 0..q-1
      BY <1>1, <2>1, <3>2 DEF vec
    <3>4. c \in Taken(m, n, lanes, dense, v) <=> Get(m, v * lanes + c)
      <4>1. v \in 0..n \div lanes - 1
        BY <3>3 DEF q
      <4> QED BY <3>2, <4>1, TakenHas
    <3>5. kept(i) <=> c \in taken(v)
      BY <2>1 DEF v, c
    <3> QED BY <1>4, <3>2, <3>3, <3>4, <3>5
  <2>2. CASE ~(i < vec)
    <3>1. i \in vec..n-1
      BY <1>1, <2>2
    <3> HIDE DEF rest
    <3> QED BY <1>15, <2>2, <3>1
  <2> QED BY <2>1, <2>2
<1> HIDE DEF rest, kept
<1>18. Row(withOnes) /\ withOnes.len = n
       /\ \A i \in 0..n-1 : BitAt(withOnes.bytes, i) <=> IF i \in rest THEN TRUE = TRUE ELSE BitAt(last.bytes, i)
  <2>1. rest \in SUBSET Nat /\ Raw(last)
    BY <1>1, <1>14, <1>16 DEF Row
  <2>2. Row(withOnes) /\ withOnes.len = n
    BY <1>14, <1>16, PutBitsRow
  <2> QED BY <1>14, <2>1, <2>2, PutBitsAt
<1> HIDE DEF withOnes
<1>19. Row(mask1) /\ mask1.len = n
       /\ \A i \in 0..n-1 : BitAt(mask1.bytes, i) <=> IF i \in (vec..n-1) \ rest THEN FALSE = TRUE ELSE BitAt(withOnes.bytes, i)
  <2> DEFINE S == (vec..n-1) \ rest
  <2>1. S \in SUBSET Nat /\ Raw(withOnes)
    BY <1>1, <1>16, <1>18 DEF Row
  <2>2. S \in SUBSET (0..withOnes.len-1)
    BY <1>16, <1>18
  <2> HIDE DEF S
  <2>3. Row(PutBits(withOnes, S, FALSE)) /\ PutBits(withOnes, S, FALSE).len = n
    BY <1>18, <2>2, PutBitsRow
  <2>4. \A i \in 0..n-1 : BitAt(PutBits(withOnes, S, FALSE).bytes, i) <=> IF i \in S THEN FALSE = TRUE ELSE BitAt(withOnes.bytes, i)
    BY <1>18, <2>1, PutBitsAt
  <2> QED BY <2>3, <2>4 DEF S
<1> HIDE DEF mask1
<1>20. ASSUME NEW i \in 0..n-1 PROVE BitAt(mask1.bytes, i) <=> Get(m, i)
  <2>1. CASE i < vec
    <3>1. i \notin rest /\ i \notin (vec..n-1) \ rest
      BY <1>1, <2>1 DEF rest
    <3> QED BY <1>14, <1>18, <1>19, <2>1, <3>1
  <2>2. CASE ~(i < vec)
    <3>1. i \in vec..n-1
      BY <1>1, <2>2
    <3> QED BY <1>15, <1>18, <1>19, <3>1
  <2> QED BY <2>1, <2>2
<1>21. r.data = [i \in 0..n-1 |-> IF Get(m, i) THEN rows[i] ELSE {}]
  BY <1>13, <1>17
<1> QED BY <1>13, <1>19, <1>20, <1>21 DEF r

(* Rows under a mask, one by one.                                          *)
LEMMA MaskedRowsAt ==
  ASSUME NEW m, Row(m), NEW out, Row(out), NEW n, n = m.len, n = out.len, NEW rows, DOMAIN rows = 0..n-1
  PROVE  LET r == MaskedRows(rows, m, out)
         IN /\ r.data = [i \in 0..n-1 |-> IF Get(m, i) THEN rows[i] ELSE {}]
            /\ Row(r.mask) /\ r.mask.len = n /\ \A i \in 0..n-1 : BitAt(r.mask.bytes, i) <=> Get(m, i)
<1> DEFINE valid == {i \in 0..n-1 : Get(m, i)}
           null == (0..n-1) \ valid
           withOnes == PutBits(out, valid, TRUE)
           mask1 == PutBits(withOnes, null, FALSE)
           r == MaskedRows(rows, m, out)
<1>1. n \in Nat
  BY RawParts DEF Row
<1>2. r.data = [i \in 0..n-1 |-> IF i \in valid THEN rows[i] ELSE {}] /\ r.mask = mask1
  BY DEF MaskedRows, Zero
<1> HIDE DEF r
<1>3. \A i \in 0..n-1 : i \in valid <=> Get(m, i)
  OBVIOUS
<1>4. valid \in SUBSET (0..n-1) /\ null \in SUBSET (0..n-1) /\ valid \in SUBSET Nat /\ null \in SUBSET Nat
      /\ \A i \in 0..n-1 : i \in null <=> ~Get(m, i)
  BY <1>1
<1> HIDE DEF valid, null
<1>5. Row(withOnes) /\ withOnes.len = n
      /\ \A i \in 0..n-1 : BitAt(withOnes.bytes, i) <=> IF i \in valid THEN TRUE = TRUE ELSE BitAt(out.bytes, i)
  <2>1. Raw(out)
    BY DEF Row
  <2>2. Row(withOnes) /\ withOnes.len = n
    BY <1>4, PutBitsRow
  <2> QED BY <1>4, <2>1, <2>2, PutBitsAt
<1> HIDE DEF withOnes
<1>6. Row(mask1) /\ mask1.len = n
      /\ \A i \in 0..n-1 : BitAt(mask1.bytes, i) <=> IF i \in null THEN FALSE = TRUE ELSE BitAt(withOnes.bytes, i)
  <2>1. Raw(withOnes)
    BY <1>5 DEF Row
  <2>2. Row(mask1) /\ mask1.len = n
    BY <1>4, <1>5, PutBitsRow
  <2> QED BY <1>4, <1>5, <2>1, <2>2, PutBitsAt
<1> HIDE DEF mask1
<1>7. \A i \in 0..n-1 : BitAt(mask1.bytes, i) <=> Get(m, i)
  BY <1>3, <1>4, <1>5, <1>6
<1>8. r.data = [i \in 0..n-1 |-> IF Get(m, i) THEN rows[i] ELSE {}]
  BY <1>2, <1>3
<1> QED BY <1>2, <1>6, <1>7, <1>8 DEF r

(* Rows and a mask of them that hold what a mask lets through.             *)
HoldsRows(r, m, rows) ==
  /\ Reads(r.mask, Bits(m))
  /\ r.data = [i \in 0..m.len-1 |-> IF Bits(m)[i] THEN rows[i] ELSE {}]

(* So do the results of the kernels over integers.                         *)
LEMMA HoldsTheRows ==
  ASSUME NEW m, Row(m), NEW n, n = m.len, NEW r, NEW rows,
         r.data = [i \in 0..n-1 |-> IF Get(m, i) THEN rows[i] ELSE {}],
         Row(r.mask), r.mask.len = n, \A i \in 0..n-1 : BitAt(r.mask.bytes, i) <=> Get(m, i)
  PROVE  HoldsRows(r, m, rows)
<1> DEFINE x == r.mask
           bits == Bits(m)
<1>1. n \in Nat /\ LenOf(m) = n
  BY BitsAt
<1>2. bits = [i \in 0..n-1 |-> Get(m, i)]
  BY <1>1 DEF Bits
<1>3. \A i \in 0..n-1 : Get(m, i) \in BOOLEAN
  BY <1>1, GetIs
<1> HIDE DEF x, bits
<1>4. DOMAIN bits = 0..x.len-1 /\ bits = [i \in DOMAIN bits |-> bits[i]]
      /\ \A i \in 0..x.len-1 : bits[i] \in BOOLEAN /\ (bits[i] <=> BitAt(x.bytes, i))
  <2>1. x.len = n /\ \A i \in 0..n-1 : BitAt(x.bytes, i) <=> Get(m, i)
    BY DEF x
  <2>2. DOMAIN bits = 0..n-1 /\ \A i \in 0..n-1 : bits[i] = Get(m, i)
    BY <1>2
  <2>3. bits = [i \in DOMAIN bits |-> bits[i]]
    BY <1>2
  <2>4. \A i \in 0..n-1 : bits[i] \in BOOLEAN /\ (bits[i] <=> BitAt(x.bytes, i))
    <3> TAKE i \in 0..n-1
    <3>1. bits[i] = Get(m, i) /\ Get(m, i) \in BOOLEAN /\ (BitAt(x.bytes, i) <=> Get(m, i))
      BY <1>3, <2>1, <2>2
    <3> QED BY <3>1, Zenon
  <2> QED BY <2>1, <2>2, <2>3, <2>4
<1>5. Reads(x, bits)
  <2>1. Row(x)
    BY DEF x
  <2> QED BY <1>4, <2>1, ReadsAs, Zenon
<1>6. r.data = [i \in 0..n-1 |-> IF bits[i] THEN rows[i] ELSE {}]
  <2>1. \A i \in 0..n-1 : bits[i] = Get(m, i)
    BY <1>2
  <2> QED BY <2>1
<1> QED BY <1>5, <1>6 DEF HoldsRows, x, bits

(* Rows that differ only by how they are written hold the same.            *)
LEMMA SameRows ==
  ASSUME NEW m, Row(m), NEW r, NEW a, NEW b, \A i \in 0..m.len-1 : a[i] = b[i], HoldsRows(r, m, a)
  PROVE  HoldsRows(r, m, b)
  BY DEF HoldsRows

(* The kernels over integers, through the mask.                            *)
LEMMA IntegersExact ==
  ASSUME NEW m, Row(m), NEW out, Row(out), NEW n, n = m.len, n = out.len, NEW lanes \in Nat, lanes > 0, lanes <= WordBits,
         NEW op, NEW lhs, DOMAIN lhs = 0..n-1, NEW rhs, DOMAIN rhs = 0..n-1
  PROVE  /\ HoldsRows(IntBitwiseMasked(op, lhs, rhs, m, out, lanes), m, BitwiseRows(op, lhs, rhs))
         /\ HoldsRows(IntNotMasked(lhs, m, out, lanes), m, NotRows(lhs))
         /\ HoldsRows(MaskedRows(BitwiseRows(op, lhs, rhs), m, out), m, BitwiseRows(op, lhs, rhs))
<1> DEFINE both == BitwiseRows(op, lhs, rhs)
           nots == NotRows(lhs)
           dense == AllBits(m, TRUE)
           r1 == VectorMaskedRows(both, m, out, lanes, dense)
           r2 == VectorMaskedRows(nots, m, out, lanes, FALSE)
           r3 == MaskedRows(both, m, out)
<1>1. DOMAIN both = 0..n-1 /\ DOMAIN nots = 0..n-1
  BY DEF BitwiseRows, NotRows
<1>2. dense \in BOOLEAN /\ NoNulls(dense, m, n)
  <2>1. dense \in BOOLEAN
    BY DEF AllBits
  <2>2. ASSUME dense PROVE \A i \in 0..n-1 : Get(m, i)
    BY <2>2, AllBitsSet
  <2> QED BY <2>1, <2>2 DEF NoNulls
<1>3. IntBitwiseMasked(op, lhs, rhs, m, out, lanes) = r1 /\ IntNotMasked(lhs, m, out, lanes) = r2
  BY DEF IntBitwiseMasked, IntNotMasked
<1> HIDE DEF both, nots, dense
<1>4. HoldsRows(r1, m, both)
  <2> DEFINE Holds(r) == /\ r.data = [i \in 0..n-1 |-> IF Get(m, i) THEN both[i] ELSE {}]
                         /\ Row(r.mask) /\ r.mask.len = n /\ \A i \in 0..n-1 : BitAt(r.mask.bytes, i) <=> Get(m, i)
             a == VectorMaskedRows(both, m, out, lanes, TRUE)
             b == VectorMaskedRows(both, m, out, lanes, FALSE)
  <2>1. NoNulls(TRUE, m, n) => Holds(a)
    <3>1. TRUE \in BOOLEAN
      OBVIOUS
    <3> QED BY <1>1, <3>1, VectorMaskedRowsAt, Zenon
  <2>2. Holds(b)
    <3>1. FALSE \in BOOLEAN /\ NoNulls(FALSE, m, n)
      BY DEF NoNulls
    <3> QED BY <1>1, <3>1, VectorMaskedRowsAt, Zenon
  <2>3. CASE dense = TRUE
    <3>1. Holds(r1)
      <4>1. NoNulls(TRUE, m, n) /\ r1 = a
        BY <1>2, <2>3
      <4> HIDE DEF Holds, r1, a
      <4> QED BY <2>1, <4>1
    <3> HIDE DEF r1
    <3> QED BY <3>1, HoldsTheRows, Zenon
  <2>4. CASE dense = FALSE
    <3>1. Holds(r1)
      <4>1. r1 = b
        BY <2>4
      <4> HIDE DEF Holds, r1, b
      <4> QED BY <2>2, <4>1
    <3> HIDE DEF r1
    <3> QED BY <3>1, HoldsTheRows, Zenon
  <2> QED BY <1>2, <2>3, <2>4
<1>5. HoldsRows(r2, m, nots)
  <2>1. FALSE \in BOOLEAN /\ NoNulls(FALSE, m, n)
    BY DEF NoNulls
  <2>2. /\ r2.data = [i \in 0..n-1 |-> IF Get(m, i) THEN nots[i] ELSE {}]
        /\ Row(r2.mask) /\ r2.mask.len = n /\ \A i \in 0..n-1 : BitAt(r2.mask.bytes, i) <=> Get(m, i)
    BY <1>1, <2>1, VectorMaskedRowsAt, Zenon
  <2> HIDE DEF r2
  <2> QED BY <2>2, HoldsTheRows, Zenon
<1>6. HoldsRows(r3, m, both)
  <2>1. /\ r3.data = [i \in 0..n-1 |-> IF Get(m, i) THEN both[i] ELSE {}]
        /\ Row(r3.mask) /\ r3.mask.len = n /\ \A i \in 0..n-1 : BitAt(r3.mask.bytes, i) <=> Get(m, i)
    BY <1>1, MaskedRowsAt, Zenon
  <2> HIDE DEF r3
  <2> QED BY <2>1, HoldsTheRows, Zenon
<1> HIDE DEF r1, r2, r3
<1> QED BY <1>3, <1>4, <1>5, <1>6 DEF both, nots, r3

-----------------------------------------------------------------------------
(* Kernels write their own window                                          *)

(* The bits of a logical operation on two words of W bits.                 *)
LEMMA BitByBitHas ==
  ASSUME NEW x, x \subseteq 0..W-1, NEW y, y \subseteq 0..W-1
  PROVE  BitByBit(Xor, x, y, W) = SymDiff(x, y) /\ BitByBit(And, x, y, W) = x \cap y
<1>0. ASSUME NEW p \in BOOLEAN, NEW q \in BOOLEAN PROVE <<p, q>> \in Xor <=> (p /\ ~q) \/ (q /\ ~p)
  <2>1. <<p, q>> \in Xor <=> p # q
    BY PairsIn
  <2>2. p # q <=> (p /\ ~q) \/ (q /\ ~p)
    BY Zenon
  <2> QED BY <2>1, <2>2
<1>1. ASSUME NEW b \in 0..W-1
      PROVE  /\ <<b \in x, b \in y>> \in Xor <=> (b \in x /\ ~(b \in y)) \/ (b \in y /\ ~(b \in x))
             /\ <<b \in x, b \in y>> \in And <=> b \in x /\ b \in y
  <2>1. (b \in x) \in BOOLEAN /\ (b \in y) \in BOOLEAN
    OBVIOUS
  <2> QED BY <1>0, <2>1, PairsIn
<1>2. ASSUME NEW b PROVE b \in BitByBit(Xor, x, y, W) <=> b \in SymDiff(x, y)
  <2>1. b \in BitByBit(Xor, x, y, W) <=> b \in 0..W-1 /\ <<b \in x, b \in y>> \in Xor
    BY DEF BitByBit
  <2>2. b \in SymDiff(x, y) <=> b \in 0..W-1 /\ ((b \in x /\ ~(b \in y)) \/ (b \in y /\ ~(b \in x)))
    BY DEF SymDiff
  <2> QED BY <1>1, <2>1, <2>2
<1>3. ASSUME NEW b PROVE b \in BitByBit(And, x, y, W) <=> b \in x \cap y
  <2>1. b \in BitByBit(And, x, y, W) <=> b \in 0..W-1 /\ <<b \in x, b \in y>> \in And
    BY DEF BitByBit
  <2> QED BY <1>1, <2>1
<1> QED BY <1>2, <1>3

(* The rows of the kernels over integers keep their nulls.                 *)
LEMMA IntegersAreExact == ASSUME Row(mask), WordBits >= 4 PROVE IntegersKeepTheirNulls
<1> SUFFICES ASSUME NEW lanes \in {2, 4}, NEW v \in BOOLEAN
             PROVE  LET lhs == [i \in 0..mask.len-1 |-> {b \in 0..W-1 : (i + b) % 2 = 0}]
                        rhs == [i \in 0..mask.len-1 |-> {i % W}]
                        out == NewSetAll(mask.len, v)
                        holds(result, rows) == /\ Reads(result.mask, Here)
                                               /\ result.data = [i \in 0..mask.len-1 |-> IF Here[i] THEN rows[i] ELSE {}]
                        xored == [i \in 0..mask.len-1 |-> SymDiff(lhs[i], rhs[i])]
                        negated == [i \in 0..mask.len-1 |-> (0..W-1) \ lhs[i]]
                        common == [i \in 0..mask.len-1 |-> lhs[i] \cap rhs[i]]
                    IN /\ holds(IntBitwiseMasked(Xor, lhs, rhs, mask, out, lanes), xored)
                       /\ holds(IntNotMasked(lhs, mask, out, lanes), negated)
                       /\ holds(MaskedRows(BitwiseRows(And, lhs, rhs), mask, out), common)
  BY DEF IntegersKeepTheirNulls
<1> DEFINE n == mask.len
           lhs == [i \in 0..n-1 |-> {b \in 0..W-1 : (i + b) % 2 = 0}]
           rhs == [i \in 0..n-1 |-> {i % W}]
           out == NewSetAll(n, v)
           xored == [i \in 0..n-1 |-> SymDiff(lhs[i], rhs[i])]
           negated == [i \in 0..n-1 |-> (0..W-1) \ lhs[i]]
           common == [i \in 0..n-1 |-> lhs[i] \cap rhs[i]]
<1>1. n \in Nat
  BY RawParts DEF Row
<1>2. DOMAIN lhs = 0..n-1 /\ DOMAIN rhs = 0..n-1 /\ \A i \in 0..n-1 : lhs[i] \subseteq 0..W-1 /\ rhs[i] \subseteq 0..W-1
  <2>1. \A i \in 0..n-1 : i % W \in 0..W-1
    BY <1>1
  <2> QED BY <2>1
<1>3. Row(out) /\ out.len = n
  BY <1>1, NewSetAllAt
<1>4. lanes \in Nat /\ lanes > 0 /\ lanes <= WordBits
  BY WordBitsIs
<1> HIDE DEF lhs, rhs, out
<1>5. \A i \in 0..n-1 : /\ xored[i] = SymDiff(lhs[i], rhs[i]) /\ negated[i] = (0..W-1) \ lhs[i]
                        /\ common[i] = lhs[i] \cap rhs[i]
  OBVIOUS
<1> HIDE DEF xored, negated, common
<1>6. HoldsRows(IntBitwiseMasked(Xor, lhs, rhs, mask, out, lanes), mask, xored)
  <2>1. HoldsRows(IntBitwiseMasked(Xor, lhs, rhs, mask, out, lanes), mask, BitwiseRows(Xor, lhs, rhs))
    BY <1>2, <1>3, <1>4, IntegersExact, Zenon
  <2>2. ASSUME NEW i \in 0..n-1 PROVE BitwiseRows(Xor, lhs, rhs)[i] = xored[i]
    <3>1. BitwiseRows(Xor, lhs, rhs)[i] = BitByBit(Xor, lhs[i], rhs[i], W)
      BY <1>2 DEF BitwiseRows
    <3>2. lhs[i] \subseteq 0..W-1 /\ rhs[i] \subseteq 0..W-1
      BY <1>2
    <3>3. BitByBit(Xor, lhs[i], rhs[i], W) = SymDiff(lhs[i], rhs[i])
      BY <3>2, BitByBitHas, Zenon
    <3> QED BY <1>5, <3>1, <3>3
  <2> QED BY <2>1, <2>2, SameRows, Zenon
<1>7. HoldsRows(IntNotMasked(lhs, mask, out, lanes), mask, negated)
  <2>1. HoldsRows(IntNotMasked(lhs, mask, out, lanes), mask, NotRows(lhs))
    BY <1>2, <1>3, <1>4, IntegersExact, Zenon
  <2>2. \A i \in 0..n-1 : NotRows(lhs)[i] = negated[i]
    BY <1>2, <1>5 DEF NotRows, Low
  <2> QED BY <2>1, <2>2, SameRows, Zenon
<1>8. HoldsRows(MaskedRows(BitwiseRows(And, lhs, rhs), mask, out), mask, common)
  <2>1. HoldsRows(MaskedRows(BitwiseRows(And, lhs, rhs), mask, out), mask, BitwiseRows(And, lhs, rhs))
    BY <1>2, <1>3, <1>4, IntegersExact, Zenon
  <2>2. ASSUME NEW i \in 0..n-1 PROVE BitwiseRows(And, lhs, rhs)[i] = common[i]
    <3>1. BitwiseRows(And, lhs, rhs)[i] = BitByBit(And, lhs[i], rhs[i], W)
      BY <1>2 DEF BitwiseRows
    <3>2. lhs[i] \subseteq 0..W-1 /\ rhs[i] \subseteq 0..W-1
      BY <1>2
    <3>3. BitByBit(And, lhs[i], rhs[i], W) = lhs[i] \cap rhs[i]
      BY <3>2, BitByBitHas, Zenon
    <3> QED BY <1>5, <3>1, <3>3
  <2> QED BY <2>1, <2>2, SameRows, Zenon
<1> QED BY <1>6, <1>7, <1>8 DEF HoldsRows, Here, lhs, rhs, out, xored, negated, common

(* Whatever calls made a mask, every kernel over windows of it, word by    *)
(* word or a vector at a time, writes the result of every bit of its       *)
(* window and no bit around it, and the lanes of a vector of integers      *)
(* write the bits of their own rows: for every width of a byte, number of  *)
(* bytes in a word and of words in a vector.  A word holds the lanes of a  *)
(* vector.                                                                 *)
THEOREM KernelsWriteExactly == WordBits >= 4 /\ Spec /\ PaddingIsClear => []KernelsWriteOnlyTheirWindow
<1> SUFFICES ASSUME WordBits >= 4 PROVE Spec /\ PaddingIsClear => []KernelsWriteOnlyTheirWindow
  OBVIOUS
<1>1. Init /\ PaddingIsClear => Inv
  BY InitRow DEF Inv
<1>2. Inv /\ [Next]_mask => Inv'
  BY StepRow DEF Inv
<1>3. Inv => KernelsWriteOnlyTheirWindow
  BY WordsAreExact, VectorsAreExact, IntegersAreExact DEF Inv, KernelsWriteOnlyTheirWindow
<1> QED BY <1>1, <1>2, <1>3, PTL DEF Spec
=============================================================================
