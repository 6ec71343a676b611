------------------------ MODULE ArrowExchangeProofs ------------------------
(***************************************************************************)
(* Proofs about ArrowExchange for any number of batches, columns and       *)
(* clones and any columns: that each callback runs once, that a borrower   *)
(* holds it, that nothing but the named leaks is left, and that the rows   *)
(* read are the rows described.                                            *)
(***************************************************************************)
EXTENDS ArrowExchange, TLAPS

USE BatchesAssumption, ColsAssumption, RefsAssumption

Array == [slot : {"unborn", "set", "empty"}, box : {"none", "held", "lost"},
          freed : 0..2, dict : 0..2, child : BOOLEAN]

(* Imported columns, whatever their rows are.                              *)
ColumnOK ==
  /\ column = [n \in Column |-> column[n]]
  /\ \A n \in Column :
       /\ column[n] = [refs |-> column[n].refs, rows |-> column[n].rows,
                       borrows |-> column[n].borrows, made |-> column[n].made]
       /\ column[n].refs \in 0..MaxRefs
       /\ column[n].borrows \in BOOLEAN /\ column[n].made \in BOOLEAN

(* The callback of one array is in its slot, in a box, dropped uncalled, or *)
(* was called: the slot, the box and the counts say the same.              *)
OnePlace(a) ==
  /\ a.slot = "unborn" => a.box = "none" /\ a.freed = 0 /\ a.dict = 0 /\ ~a.child
  /\ a.slot = "set" => a.box = "none" /\ a.freed = 0 /\ a.dict = 0
  /\ a.box \in {"held", "lost"} => a.slot = "empty" /\ a.freed = 0 /\ a.dict = 0
  /\ a.slot = "empty" /\ a.box = "none" =>
       a.freed = 1 /\ a.dict = (IF a.child /\ mode \in Foreign THEN 1 ELSE 0)

PlacesOK == \A n \in Node : OnePlace(array[n])

(* A box is held by the clones of a borrowing column, and by nothing else; *)
(* only this library's importer drops a box.                               *)
BoxesOK ==
  /\ \A n \in Node : array[n].box # "none" => n[2] > 0 /\ library
  /\ \A n \in Column : array[n].box = "held" <=> column[n].refs > 0 /\ column[n].borrows

(* A struct array is exported with all its columns, batch after batch.     *)
BornOK ==
  /\ \A n \in Node : array[<<n[1], 0>>].slot # "unborn" => array[n].slot # "unborn"
  /\ mode \in Streams => \A n \in Node : n[1] > stream.cursor => array[n].slot = "unborn"
  /\ mode \in {"struct", "view_struct"} =>
       \A n \in Node : array[<<n[1], 0>>].slot = "unborn" => array[n].slot = "unborn"

(* What the importing loop is about to take is still in its slot.          *)
ImporterOK ==
  /\ importer.pc # "start" => Running
  /\ importer.pc = "take" =>
       /\ importer.batch >= 1 /\ importer.col >= 1
       /\ \A c \in importer.col..NumCols :
            mode \in BatchStreams \/ c = importer.col =>
              array[<<importer.batch, c>>].slot = "set"
       /\ mode \in BatchStreams => array[<<importer.batch, 0>>].slot = "set"
  /\ importer.pc = "parent" =>
       /\ importer.batch >= 1 /\ mode \in BatchStreams
       /\ array[<<importer.batch, 0>>].slot = "set"

ShapeOK == shape \in [Column -> Shapes]

IInv ==
  /\ TypeOK
  /\ ColumnOK
  /\ PlacesOK
  /\ BoxesOK
  /\ BornOK
  /\ ImporterOK
  /\ ShapeOK
  /\ ImportedAsDescribed

-----------------------------------------------------------------------------
(* Nodes and release callbacks                                             *)

(* A node is a batch and a place in it.                                    *)
LEMMA NodeShape ==
  /\ \A n \in Node : n = <<n[1], n[2]>> /\ n[1] \in 1..NumBatches /\ n[2] \in 0..NumCols
  /\ \A b \in 1..NumBatches, c \in 0..NumCols : <<b, c>> \in Node
  /\ \A n \in Column : n \in Node /\ n[2] > 0
  /\ \A b \in 1..NumBatches, c \in 1..NumCols : <<b, c>> \in Column
  BY DEF Node, Column

(* The memory behind a callback that was not called yet is freed once.     *)
LEMMA FreedOnce ==
  ASSUME NEW n, NEW a \in Array, a.freed = 0, a.dict = 0
  PROVE  /\ Freed(n, a) \in Array
         /\ Freed(n, a).freed = 1
         /\ Freed(n, a).dict = (IF a.child /\ mode \in Foreign THEN 1 ELSE 0)
         /\ Freed(n, a).slot = a.slot /\ Freed(n, a).box = a.box
         /\ Freed(n, a).child = a.child
  <1> DEFINE d == IF a.child /\ mode \in Foreign THEN 1 ELSE 0
  <1>1. Capped(0 + 1) = 1
    BY DEF Capped
  <1>2. Freed(n, a) = [a EXCEPT !.freed = 1, !.dict = d]
    <2>1. Freed(n, a) = [a EXCEPT !.freed = Capped(0 + 1),
                                  !.dict = IF a.child /\ mode \in Foreign
                                           THEN Capped(0 + 1) ELSE 0]
      BY DEF Freed, Array
    <2> QED
      BY <1>1, <2>1
  <1>3. d \in 0..2
    OBVIOUS
  <1> DEFINE e == [a EXCEPT !.freed = 1]
  <1>4. Freed(n, a) = [e EXCEPT !.dict = d]
    BY <1>2
  <1>5. /\ e \in Array /\ e.freed = 1
        /\ e.slot = a.slot /\ e.box = a.box /\ e.child = a.child
    BY DEF Array
  <1> HIDE DEF d, e
  <1>6. /\ [e EXCEPT !.dict = d] \in Array /\ [e EXCEPT !.dict = d].dict = d
        /\ [e EXCEPT !.dict = d].freed = 1 /\ [e EXCEPT !.dict = d].slot = a.slot
        /\ [e EXCEPT !.dict = d].box = a.box /\ [e EXCEPT !.dict = d].child = a.child
    BY <1>3, <1>5 DEF Array
  <1> QED
    BY <1>4, <1>6 DEF d

(* Releasing a slot empties it, and calls the callback if it was there.    *)
LEMMA CalledOnce ==
  ASSUME NEW n, NEW a \in Array, OnePlace(a)
  PROVE  /\ Called(n, a) \in Array
         /\ Called(n, a).slot = "empty" /\ Called(n, a).box = a.box
         /\ a.slot # "unborn" => OnePlace(Called(n, a))
  <1>1. CASE a.slot = "set"
    <2>1. a.freed = 0 /\ a.dict = 0 /\ a.box = "none"
      BY <1>1 DEF OnePlace
    <2> DEFINE f == Freed(n, a)
    <2>2. Called(n, a) = [f EXCEPT !.slot = "empty"]
      BY <1>1 DEF Called
    <2>3. /\ f \in Array /\ f.freed = 1 /\ f.box = a.box /\ f.child = a.child
          /\ f.dict = (IF a.child /\ mode \in Foreign THEN 1 ELSE 0)
      BY <2>1, FreedOnce
    <2> HIDE DEF f
    <2> QED
      BY <2>1, <2>2, <2>3 DEF Array, OnePlace
  <1>2. CASE a.slot # "set"
    <2>1. Called(n, a) = [a EXCEPT !.slot = "empty"]
      BY <1>2 DEF Called
    <2> QED
      BY <1>2, <2>1 DEF Array, OnePlace
  <1> QED
    BY <1>1, <1>2

(* An imported box moves the callback out of the slot.                     *)
LEMMA MovedOnce ==
  ASSUME NEW n, NEW a \in Array, OnePlace(a), a.slot = "set",
         NEW box \in {"released", "held", "lost"}
  PROVE  /\ Moved(n, a, box) \in Array
         /\ Moved(n, a, box).slot = "empty"
         /\ Moved(n, a, box).box = (IF box = "released" THEN "none" ELSE box)
         /\ OnePlace(Moved(n, a, box))
  <1>1. a.freed = 0 /\ a.dict = 0 /\ a.box = "none"
    BY DEF OnePlace
  <1>2. CASE box = "released"
    <2> DEFINE f == Freed(n, a)
    <2>1. Moved(n, a, box) = [f EXCEPT !.slot = "empty"]
      BY <1>2 DEF Moved
    <2>2. /\ f \in Array /\ f.freed = 1 /\ f.box = "none" /\ f.child = a.child
          /\ f.dict = (IF a.child /\ mode \in Foreign THEN 1 ELSE 0)
      BY <1>1, FreedOnce
    <2> HIDE DEF f
    <2> QED
      BY <1>2, <2>1, <2>2 DEF Array, OnePlace
  <1>3. CASE box # "released"
    <2> DEFINE f == [a EXCEPT !.box = box]
    <2>1. Moved(n, a, box) = [f EXCEPT !.slot = "empty"]
      BY <1>3 DEF Moved
    <2>2. /\ f \in Array /\ f.box = box /\ f.freed = 0 /\ f.dict = 0
      BY <1>1, <1>3 DEF Array
    <2> HIDE DEF f
    <2> QED
      BY <1>3, <2>1, <2>2 DEF Array, OnePlace
  <1> QED
    BY <1>2, <1>3

(* The last borrower calls the callback its box holds.                     *)
LEMMA DroppedOnce ==
  ASSUME NEW n, NEW a \in Array, OnePlace(a)
  PROVE  /\ DropForeign(n, a) \in Array
         /\ DropForeign(n, a).slot = a.slot
         /\ DropForeign(n, a).box = (IF a.box = "held" THEN "none" ELSE a.box)
         /\ OnePlace(DropForeign(n, a))
  <1>1. CASE a.box = "held"
    <2>1. a.freed = 0 /\ a.dict = 0 /\ a.slot = "empty"
      BY <1>1 DEF OnePlace
    <2> DEFINE f == Freed(n, a)
    <2>2. DropForeign(n, a) = [f EXCEPT !.box = "none"]
      BY <1>1 DEF DropForeign
    <2>3. /\ f \in Array /\ f.freed = 1 /\ f.slot = "empty" /\ f.child = a.child
          /\ f.dict = (IF a.child /\ mode \in Foreign THEN 1 ELSE 0)
      BY <2>1, FreedOnce
    <2> HIDE DEF f
    <2> QED
      BY <1>1, <2>1, <2>2, <2>3 DEF Array, OnePlace
  <1>2. CASE a.box # "held"
    BY <1>2 DEF DropForeign
  <1> QED
    BY <1>1, <1>2

(* A new export puts the callback into its slot.                           *)
LEMMA ExportedOnce ==
  ASSUME NEW n, NEW a \in Array, OnePlace(a), a.slot = "unborn"
  PROVE  /\ ExportViewToC(n, a) \in Array /\ CreateArrowExport(a) \in Array
         /\ ExportViewToC(n, a).slot = "set" /\ CreateArrowExport(a).slot = "set"
         /\ ExportViewToC(n, a).box = "none" /\ CreateArrowExport(a).box = "none"
         /\ OnePlace(ExportViewToC(n, a)) /\ OnePlace(CreateArrowExport(a))
  <1>1. CreateArrowExport(a) = [a EXCEPT !.slot = "set"]
    BY DEF CreateArrowExport
  <1> DEFINE e == CreateArrowExport(a)
  <1>2. ExportViewToC(n, a) = e \/ ExportViewToC(n, a) = [e EXCEPT !.child = TRUE]
    BY DEF ExportViewToC, ExportCategorical
  <1>3. /\ e \in Array /\ e.slot = "set" /\ e.box = "none"
        /\ e.freed = 0 /\ e.dict = 0
    BY <1>1 DEF Array, OnePlace
  <1> HIDE DEF e
  <1>4. OnePlace(e) /\ OnePlace([e EXCEPT !.child = TRUE])
    BY <1>3 DEF OnePlace, Array
  <1>5. /\ [e EXCEPT !.child = TRUE] \in Array /\ [e EXCEPT !.child = TRUE].slot = "set"
        /\ [e EXCEPT !.child = TRUE].box = "none"
    BY <1>3 DEF Array
  <1> QED
    BY <1>2, <1>3, <1>4, <1>5 DEF e

-----------------------------------------------------------------------------
(* What an importer reads                                                  *)

(* An import holds the box, releases it or drops it.                       *)
LEMMA ImportBox ==
  ASSUME NEW s
  PROVE  /\ ImportArrayZeroCopy(s).box \in {"released", "held", "lost"}
         /\ ImportArrayZeroCopy(s) = [rows |-> ImportArrayZeroCopy(s).rows,
                                      box |-> ImportArrayZeroCopy(s).box]
  <1> DEFINE Import(i) == /\ i.box \in {"released", "held", "lost"}
                          /\ i = [rows |-> i.rows, box |-> i.box]
  <1>1. Import(ImportFixed(s)) /\ Import(ImportDecimal(s))
    BY DEF ImportFixed, ImportDecimal, Adopt
  <1>2. Import(ImportDatetime(s)) /\ Import(ImportBoolean(s))
    BY DEF ImportDatetime, ImportBoolean, Adopt
  <1>3. Import(ImportUtf8(s))
    BY DEF ImportUtf8, Adopt
  <1>4. Import(ImportUtf8View(s)) /\ Import(ImportCategorical(s))
    BY DEF ImportUtf8View, ImportCategorical, Adopt
  <1> QED
    BY <1>1, <1>2, <1>3, <1>4 DEF ImportArrayZeroCopy

(* A window of a sequence, entry by entry.                                 *)
LEMMA WindowEntries ==
  ASSUME NEW q, NEW m \in Nat, NEW n \in Nat, m <= n
  PROVE  SubSeq(q, m + 1, n) = [i \in 1..(n - m) |-> q[m + i]]
  <1>1. SubSeq(q, m + 1, n) = [i \in 1..(1 + n - (m + 1)) |-> q[i + (m + 1) - 1]]
    OBVIOUS
  <1>2. 1 + n - (m + 1) = n - m /\ \A i \in 1..(n - m) : i + (m + 1) - 1 = m + i
    OBVIOUS
  <1> QED
    BY <1>1, <1>2

(* A window of a window is a window.                                       *)
LEMMA WindowOfWindow ==
  ASSUME NEW q, NEW l \in Nat, NEW m \in Nat, NEW n \in Nat, NEW h \in Nat,
         l <= m, m <= n, n <= h
  PROVE  SubSeq(SubSeq(q, l + 1, h), (m - l) + 1, n - l) = SubSeq(q, m + 1, n)
  <1> DEFINE w == SubSeq(q, l + 1, h)
  <1>1. w = [i \in 1..(h - l) |-> q[l + i]]
    BY WindowEntries
  <1>2. SubSeq(q, m + 1, n) = [i \in 1..(n - m) |-> q[m + i]]
    BY WindowEntries
  <1> HIDE DEF w
  <1>3. SubSeq(w, (m - l) + 1, n - l) = [i \in 1..(n - m) |-> w[(m - l) + i]]
    <2>1. m - l \in Nat /\ n - l \in Nat /\ m - l <= n - l
      OBVIOUS
    <2>2. (n - l) - (m - l) = n - m
      OBVIOUS
    <2> QED
      BY <2>1, <2>2, WindowEntries
  <1>4. ASSUME NEW i \in 1..(n - m) PROVE w[(m - l) + i] = q[m + i]
    <2>1. (m - l) + i \in 1..(h - l) /\ l + ((m - l) + i) = m + i
      OBVIOUS
    <2> QED
      BY <1>1, <2>1
  <1>5. [i \in 1..(n - m) |-> w[(m - l) + i]] = [i \in 1..(n - m) |-> q[m + i]]
    BY <1>4
  <1> QED
    BY <1>2, <1>3, <1>5 DEF w

(* The masked rows of a window are the ones described.                     *)
LEMMA MaskedRows ==
  ASSUME NEW s, s.len \in Nat, NEW values, DOMAIN values = 1..s.len,
         \A i \in 1..s.len : s.offset + i \notin s.nulls => values[i] = RowAt(s, s.offset + i)
  PROVE  Masked(values, NullMaskOffset(s)) = Described(s)
  BY DEF Masked, NullMaskOffset, Described

(* Bytes cut out of the window of all rows, by offsets rebased to its      *)
(* first byte, are the bytes between the original offsets.                 *)
LEMMA RebasedBytes ==
  ASSUME NEW offsets \in Seq(Nat), NEW bytes \in Seq(Nat),
         \A i, j \in 1..Len(offsets) : i <= j => offsets[i] <= offsets[j],
         offsets[Len(offsets)] <= Len(bytes),
         NEW o \in Nat, NEW k \in Nat, NEW i \in 1..k, o + k < Len(offsets)
  PROVE  SubSeq(SubSeq(bytes, offsets[o + 1] + 1, offsets[o + (k + 1)]),
                (offsets[o + i] - offsets[o + 1]) + 1, offsets[o + (i + 1)] - offsets[o + 1])
           = SubSeq(bytes, offsets[o + i] + 1, offsets[o + (i + 1)])
  <1> DEFINE l == offsets[o + 1]
             m == offsets[o + i]
             n == offsets[o + (i + 1)]
             h == offsets[o + (k + 1)]
             e == Len(offsets)
  <1>1. /\ o + 1 \in 1..e /\ o + i \in 1..e /\ o + (i + 1) \in 1..e
        /\ o + (k + 1) \in 1..e /\ e \in 1..e
        /\ o + 1 <= o + i /\ o + i <= o + (i + 1) /\ o + (i + 1) <= o + (k + 1)
        /\ o + (k + 1) <= e
    OBVIOUS
  <1>0. \A x \in 1..e : offsets[x] \in Nat
    OBVIOUS
  <1>2. l \in Nat /\ m \in Nat /\ n \in Nat /\ h \in Nat /\ offsets[e] \in Nat
    <2> HIDE DEF e
    <2> QED
      BY <1>0, <1>1
  <1>3. l <= m /\ m <= n /\ n <= h /\ h <= offsets[e] /\ offsets[e] <= Len(bytes)
    BY <1>1
  <1> HIDE DEF l, m, n, h, e
  <1>4. h <= Len(bytes)
    BY <1>2, <1>3
  <1>5. SubSeq(SubSeq(bytes, l + 1, h), (m - l) + 1, n - l) = SubSeq(bytes, m + 1, n)
    BY <1>2, <1>3, <1>4, WindowOfWindow
  <1> QED
    BY <1>5 DEF l, m, n, h

(* The text an importer cuts out of the rebased bytes is the text between  *)
(* the original offsets.                                                   *)
LEMMA Utf8Rows ==
  ASSUME NEW s, IsText(s), s.offsets \in Seq(Nat), s.bytes \in Seq(Nat),
         s.offset \in Nat, s.len \in Nat, s.offset + s.len < Len(s.offsets), s.len # 0
  PROVE  \E text : /\ ImportUtf8(s).rows = Masked(text, NullMaskOffset(s))
                   /\ DOMAIN text = 1..s.len
                   /\ \A i \in 1..s.len : text[i] = TextAt(s, s.offset + i)
  <1> DEFINE window == SubSeq(s.offsets, s.offset + 1, s.offset + s.len + 1)
             values == SubSeq(s.bytes, window[1] + 1, window[s.len + 1])
             rebased == [i \in DOMAIN window |-> window[i] - window[1]]
             text == [i \in 1..s.len |-> SubSeq(values, rebased[i] + 1, rebased[i + 1])]
  <1>1. ImportUtf8(s).rows = Masked(text, NullMaskOffset(s))
    BY DEF ImportUtf8
  <1>2. /\ DOMAIN window = 1..(s.len + 1)
        /\ \A i \in 1..(s.len + 1) : window[i] = s.offsets[s.offset + i]
    <2> DEFINE n == s.offset + s.len + 1
    <2>1. n \in Nat /\ n <= Len(s.offsets) /\ s.offset <= n /\ n - s.offset = s.len + 1
      OBVIOUS
    <2> HIDE DEF n
    <2>2. SubSeq(s.offsets, s.offset + 1, n) = [i \in 1..(n - s.offset) |-> s.offsets[s.offset + i]]
      <3> DEFINE q == s.offsets
                 o == s.offset
      <3>1. o \in Nat /\ n \in Nat /\ o <= n
        BY <2>1
      <3> HIDE DEF q, o
      <3>2. SubSeq(q, o + 1, n) = [i \in 1..(n - o) |-> q[o + i]]
        BY ONLY <3>1, WindowEntries
      <3> QED BY <3>2 DEF q, o
    <2> QED
      BY <2>1, <2>2 DEF n
  <1> HIDE DEF window
  <1>3. ASSUME NEW i \in 1..s.len
        PROVE  text[i] = TextAt(s, s.offset + i)
    <2> DEFINE l == s.offsets[s.offset + 1]
               m == s.offsets[s.offset + i]
               n == s.offsets[s.offset + (i + 1)]
               h == s.offsets[s.offset + (s.len + 1)]
    <2>1. 1 \in 1..(s.len + 1) /\ i \in 1..(s.len + 1) /\ i + 1 \in 1..(s.len + 1)
          /\ s.len + 1 \in 1..(s.len + 1)
      OBVIOUS
    <2>2. /\ window[1] = l /\ window[i] = m /\ window[i + 1] = n /\ window[s.len + 1] = h
          /\ rebased[i] = m - l /\ rebased[i + 1] = n - l
      BY <1>2, <2>1
    <2>3. text[i] = SubSeq(SubSeq(s.bytes, l + 1, h), (m - l) + 1, n - l)
      BY <2>2
    <2>4. (s.offset + i) + 1 = s.offset + (i + 1)
      OBVIOUS
    <2>5. TextAt(s, s.offset + i) = SubSeq(s.bytes, m + 1, n)
      BY <2>4 DEF TextAt
    <2>6. /\ \A j, k \in 1..Len(s.offsets) : j <= k => s.offsets[j] <= s.offsets[k]
          /\ s.offsets[Len(s.offsets)] <= Len(s.bytes)
      <3>1. DOMAIN s.offsets = 1..Len(s.offsets)
        OBVIOUS
      <3> QED
        BY <3>1 DEF IsText
    <2>7. SubSeq(SubSeq(s.bytes, l + 1, h), (m - l) + 1, n - l) = SubSeq(s.bytes, m + 1, n)
      BY <2>6, RebasedBytes, ZenonT(60)
    <2> QED
      BY <2>3, <2>5, <2>7
  <1> HIDE DEF text
  <1>4. DOMAIN text = 1..s.len
    BY DEF text
  <1> QED
    BY <1>1, <1>3, <1>4

(* Whole or windowed, borrowed or copied, and for every kind of column but *)
(* a text view array with an offset, the rows read are those described.    *)
LEMMA ImportRows ==
  ASSUME NEW s \in Shapes, Supported(s), s.kind = "utf8_view" => s.offset = 0
  PROVE  ImportArrayZeroCopy(s).rows = Described(s)
  <1>1. IsShape(s)
    BY ShapesAssumption
  <1>2. s.offset \in Nat /\ s.len \in Nat
    BY <1>1 DEF IsShape
  <1>3. /\ Window(s) = [i \in 1..s.len |-> s.rows[s.offset + i]]
        /\ DOMAIN Window(s) = 1..s.len
    <2> DEFINE n == s.offset + s.len
    <2>1. n \in Nat /\ s.offset <= n /\ n - s.offset = s.len
      BY ONLY <1>2
    <2>2. Window(s) = SubSeq(s.rows, s.offset + 1, n)
      BY DEF Window
    <2> HIDE DEF n
    <2>3. Window(s) = [i \in 1..(n - s.offset) |-> s.rows[s.offset + i]]
      <3> DEFINE q == s.rows
                 o == s.offset
      <3>1. o \in Nat /\ n \in Nat /\ o <= n
        BY <1>2, <2>1
      <3> HIDE DEF q, o
      <3>2. SubSeq(q, o + 1, n) = [i \in 1..(n - o) |-> q[o + i]]
        BY ONLY <3>1, WindowEntries
      <3> QED BY <2>2, <3>2 DEF q, o
    <2> QED
      BY <2>1, <2>3
  <1>4. s.kind \notin {"utf8", "dict"} => Masked(Window(s), NullMaskOffset(s)) = Described(s)
    <2>1. ASSUME s.kind \notin {"utf8", "dict"}, NEW i \in 1..s.len
          PROVE  Window(s)[i] = RowAt(s, s.offset + i)
      BY <2>1, <1>3 DEF RowAt
    <2> QED
      BY ONLY <1>2, <1>3, <2>1, MaskedRows
  <1>5. CASE s.kind \in {"fixed", "decimal"}
    BY <1>4, <1>5 DEF ImportArrayZeroCopy, ImportDecimal, ImportFixed
  <1>6. CASE s.kind = "datetime"
    BY <1>4, <1>6 DEF ImportArrayZeroCopy, ImportDatetime
  <1>7. CASE s.kind = "boolean"
    BY <1>4, <1>7 DEF ImportArrayZeroCopy, ImportBoolean
  <1>8. CASE s.kind = "utf8_view"
    <2>1. s.offset = 0
      BY <1>8
    <2>2. SubSeq(s.rows, 1, s.len) = Window(s)
      BY ONLY <1>2, <2>1 DEF Window
    <2>3. NullMaskStart(s) = NullMaskOffset(s)
      BY <1>2, <2>1 DEF NullMaskStart, NullMaskOffset
    <2> QED
      BY <1>4, <1>8, <2>2, <2>3 DEF ImportArrayZeroCopy, ImportUtf8View
  <1>9. CASE s.kind = "utf8"
    <2>1. ImportArrayZeroCopy(s).rows = ImportUtf8(s).rows
      BY <1>9 DEF ImportArrayZeroCopy
    <2>2. CASE s.len = 0
      <3>1. ImportUtf8(s).rows = <<>>
        BY <2>2 DEF ImportUtf8
      <3>2. Described(s) = <<>>
        BY <2>2 DEF Described
      <3> QED
        BY <2>1, <3>1, <3>2
    <2>3. CASE s.len # 0
      <3>1. /\ IsText(s) /\ s.offsets \in Seq(Nat) /\ s.bytes \in Seq(Nat)
            /\ s.offset + s.len < Len(s.offsets)
        <4>1. NumRows(s) = Len(s.offsets) - 1
          BY <1>9 DEF NumRows
        <4>2. /\ IsText(s) /\ s.offsets \in Seq(Nat) /\ s.bytes \in Seq(Nat)
              /\ s.offset + s.len <= Len(s.offsets) - 1
          <5>1. /\ s.kind \in {"utf8", "dict"} => IsText(s)
                /\ s.offsets \in Seq(Nat) /\ s.bytes \in Seq(Nat)
                /\ s.offset + s.len <= NumRows(s)
            BY <1>1, Zenon DEF IsShape
          <5> QED
            BY <1>9, <4>1, <5>1
        <4>3. Len(s.offsets) \in Nat
          BY <4>2
        <4> QED
          BY <1>2, <4>2, <4>3
      <3>2. PICK text : /\ ImportUtf8(s).rows = Masked(text, NullMaskOffset(s))
                        /\ DOMAIN text = 1..s.len
                        /\ \A i \in 1..s.len : text[i] = TextAt(s, s.offset + i)
        BY <1>2, <2>3, <3>1, Utf8Rows
      <3>3. \A i \in 1..s.len : text[i] = RowAt(s, s.offset + i)
        BY <1>9, <3>2 DEF RowAt
      <3> QED
        BY <1>2, <2>1, <3>2, <3>3, MaskedRows
    <2> QED
      BY <2>2, <2>3
  <1>10. CASE s.kind = "dict"
    <2> DEFINE d == Dictionary(s)
               texts == ImportUtf8(d).rows
               values == [i \in DOMAIN Window(s) |-> texts[Head(Window(s)[i]) + 1]]
    <2>1. ImportArrayZeroCopy(s).rows = Masked(values, NullMaskOffset(s))
      BY <1>10 DEF ImportArrayZeroCopy, ImportCategorical
    <2>2. /\ IsText(s) /\ s.offsets \in Seq(Nat) /\ s.bytes \in Seq(Nat)
          /\ s.rows \in Seq(Seq(Nat)) /\ s.offset + s.len <= Len(s.rows)
          /\ \A i \in DOMAIN s.rows \ s.nulls :
               s.rows[i] # <<>> /\ Head(s.rows[i]) + 1 < Len(s.offsets)
      <3>1. NumRows(s) = Len(s.rows)
        BY <1>10 DEF NumRows
      <3>2. /\ s.kind \in {"utf8", "dict"} => IsText(s)
            /\ s.offsets \in Seq(Nat) /\ s.bytes \in Seq(Nat) /\ s.rows \in Seq(Seq(Nat))
            /\ s.offset + s.len <= NumRows(s)
            /\ s.kind = "dict" => \A i \in DOMAIN s.rows \ s.nulls :
                 s.rows[i] # <<>> /\ Head(s.rows[i]) + 1 < Len(s.offsets)
        BY <1>1, Zenon DEF IsShape
      <3> QED
        BY <1>10, <3>1, <3>2
    <2>3. /\ d.offsets = s.offsets /\ d.bytes = s.bytes /\ d.nulls = {}
          /\ d.offset = 0 /\ d.len = Len(s.offsets) - 1
      BY DEF Dictionary
    <2> HIDE DEF d
    <2>4. ASSUME NEW i \in 1..s.len, s.offset + i \notin s.nulls
          PROVE  values[i] = RowAt(s, s.offset + i)
      <3> DEFINE row == s.offset + i
                 code == Head(s.rows[row]) + 1
      <3>1. row \in DOMAIN s.rows \ s.nulls
        <4>1. DOMAIN s.rows = 1..Len(s.rows) /\ Len(s.rows) \in Nat
          BY <2>2
        <4> QED
          BY <1>2, <2>2, <2>4, <4>1
      <3>2. /\ s.rows[row] \in Seq(Nat) /\ s.rows[row] # <<>>
            /\ Head(s.rows[row]) + 1 < Len(s.offsets)
        BY <2>2, <3>1
      <3>3. code \in 1..d.len
        <4>0. ASSUME NEW q \in Seq(Nat), q # <<>> PROVE Head(q) \in Nat
          BY <4>0
        <4>1. Head(s.rows[row]) \in Nat /\ Len(s.offsets) \in Nat
          BY <2>2, <3>2, <4>0
        <4> QED
          BY <2>3, <3>2, <4>1
      <3>4. values[i] = texts[code]
        BY <1>3
      <3>5. texts[code] = TextAt(s, code)
        <4>1. /\ IsText(d) /\ d.offsets \in Seq(Nat) /\ d.bytes \in Seq(Nat)
              /\ d.offset \in Nat /\ d.len \in Nat /\ d.offset + d.len < Len(d.offsets)
              /\ d.len # 0
          <5>1. IsText(d)
            BY <2>2, <2>3 DEF IsText
          <5>2. Len(s.offsets) \in Nat
            BY <2>2
          <5>3. d.len = Len(s.offsets) - 1 /\ d.offset = 0 /\ d.offsets = s.offsets
            BY <2>3
          <5> HIDE DEF code
          <5>4. ASSUME NEW k \in Nat, NEW x, x = k - 1, NEW c \in 1..x PROVE x \in Nat /\ x # 0
            BY <5>4
          <5>5. d.len \in Nat /\ d.len # 0
            BY ONLY <3>3, <5>2, <5>3, <5>4
          <5>6. d.offset + d.len < Len(d.offsets)
            BY ONLY <5>2, <5>3
          <5> QED
            BY <2>2, <2>3, <5>1, <5>3, <5>5, <5>6
        <4>2. PICK text : /\ texts = Masked(text, NullMaskOffset(d))
                          /\ DOMAIN text = 1..d.len
                          /\ \A k \in 1..d.len : text[k] = TextAt(d, d.offset + k)
          BY <4>1, Utf8Rows
        <4>3. texts[code] = text[code]
          BY <2>3, <3>3, <4>2 DEF Masked, NullMaskOffset
        <4>4. d.offset + code = code
          <5>1. Len(s.offsets) \in Nat
            BY <2>2
          <5> QED
            BY <2>3, <3>3, <5>1
        <4> QED
          BY <2>3, <3>3, <4>2, <4>3, <4>4 DEF TextAt
      <3> QED
        BY <1>10, <3>4, <3>5 DEF RowAt
    <2>5. DOMAIN values = 1..s.len
      BY <1>3
    <2> HIDE DEF values
    <2> QED
      BY <1>2, <2>1, <2>4, <2>5, MaskedRows
  <1> QED
    BY <1>1, <1>5, <1>6, <1>7, <1>8, <1>9, <1>10 DEF IsShape, Kinds, Supported

-----------------------------------------------------------------------------
(* Invariance: the parts of a step                                         *)

(* The parts of the invariant that a step on arrays or columns disturbs.   *)
Core == ColumnOK /\ PlacesOK /\ BoxesOK /\ BornOK /\ ShapeOK /\ ImportedAsDescribed

(* The scalar state keeps its type.                                        *)
Scalars ==
  /\ schema' \in {"none", "live", "released", "dropped"}
  /\ stream' \in [state: {"open", "released"}, cursor: 0..NumBatches, error: BOOLEAN]
  /\ importer' \in [pc: {"start", "pull", "take", "parent", "schema", "stream", "done", "panicked"},
                    batch: 0..NumBatches, col: 0..NumCols]

(* A step keeps the invariant when it keeps its parts.                     *)
LEMMA Assembled ==
  ASSUME IInv, UNCHANGED <<mode, library>>, array' \in [Node -> Array], Scalars, Core', ImporterOK'
  PROVE  IInv'
  <1>1. TypeOK'
    BY DEF IInv, TypeOK, Array, Scalars, Core, ColumnOK
  <1> QED
    BY <1>1 DEF IInv, Core

(* Nothing is exchanged at first.                                          *)
LEMMA InitInv == Init => IInv
  <1> SUFFICES ASSUME Init PROVE IInv
    OBVIOUS
  <1>1. \A n \in Node : array[n] = [slot |-> "unborn", box |-> "none", freed |-> 0,
                                    dict |-> 0, child |-> FALSE]
    BY DEF Init
  <1>2. \A n \in Column : column[n] = NoColumn /\ n \in Node
    BY DEF Init, Column
  <1>3. importer = [pc |-> "start", batch |-> 0, col |-> 0]
    BY DEF Init, At
  <1>4. TypeOK
    <2>1. array \in [Node -> [slot: {"unborn", "set", "empty"}, box: {"none", "held", "lost"},
                              freed: 0..2, dict: 0..2, child: BOOLEAN]]
      BY DEF Init
    <2>2. stream \in [state: {"open", "released"}, cursor: 0..NumBatches, error: BOOLEAN]
      BY DEF Init
    <2>3. /\ 0 \in 0..NumBatches /\ 0 \in 0..NumCols /\ 0 \in 0..MaxRefs
      OBVIOUS
    <2>4. importer \in [pc: {"start", "pull", "take", "parent", "schema", "stream", "done",
                             "panicked"}, batch: 0..NumBatches, col: 0..NumCols]
      BY <1>3, <2>3
    <2>5. \A n \in Column : column[n].refs \in 0..MaxRefs
      BY <1>2, <2>3 DEF NoColumn
    <2> QED
      BY <2>1, <2>2, <2>4, <2>5 DEF Init, TypeOK
  <1>5. ColumnOK
    <2>1. column = [n \in Column |-> column[n]]
      BY DEF Init
    <2>2. 0 \in 0..MaxRefs
      OBVIOUS
    <2>3. /\ NoColumn = [refs |-> NoColumn.refs, rows |-> NoColumn.rows,
                         borrows |-> NoColumn.borrows, made |-> NoColumn.made]
          /\ NoColumn.refs = 0 /\ NoColumn.borrows \in BOOLEAN /\ NoColumn.made \in BOOLEAN
      BY DEF NoColumn
    <2> QED
      BY <1>2, <2>1, <2>2, <2>3 DEF ColumnOK
  <1>6. PlacesOK
    BY <1>1 DEF PlacesOK, OnePlace
  <1>7. BoxesOK
    BY <1>1, <1>2 DEF BoxesOK, NoColumn
  <1>8. BornOK
    <2>1. \A n \in Node : <<n[1], 0>> \in Node
      BY NodeShape
    <2> QED
      BY <1>1, <2>1 DEF BornOK
  <1>9. ImporterOK
    BY <1>3 DEF ImporterOK
  <1>10. ShapeOK
    BY DEF Init, ShapeOK, OwnShapes, WholeShapes
  <1>11. ImportedAsDescribed
    BY <1>2 DEF ImportedAsDescribed, NoColumn
  <1> QED
    BY <1>4, <1>5, <1>6, <1>7, <1>8, <1>9, <1>10, <1>11 DEF IInv

(* Columns and their descriptions stay when neither is touched.            *)
LEMMA ColumnsKept ==
  ASSUME IInv, UNCHANGED <<shape, column>>
  PROVE  ColumnOK' /\ ShapeOK' /\ ImportedAsDescribed'
  <1>1. ColumnOK'
    BY DEF IInv, ColumnOK
  <1>2. ShapeOK'
    BY DEF IInv, ShapeOK
  <1>3. ImportedAsDescribed'
    <2>1. ImportedAsDescribed
      BY DEF IInv
    <2> QED
      BY <2>1 DEF ImportedAsDescribed
  <1> QED
    BY <1>1, <1>2, <1>3

(* A step that leaves arrays and columns alone keeps the core.             *)
LEMMA CoreKept ==
  ASSUME IInv, UNCHANGED <<mode, library, shape, array, column>>,
         mode \in Streams => stream'.cursor = stream.cursor
  PROVE  array' \in [Node -> Array] /\ Core'
  <1>1. array \in [Node -> Array]
    BY DEF IInv, TypeOK, Array
  <1>2. ColumnOK' /\ ShapeOK' /\ ImportedAsDescribed'
    BY ColumnsKept
  <1>3. PlacesOK' /\ BoxesOK'
    BY DEF IInv, PlacesOK, OnePlace, BoxesOK
  <1>4. BornOK'
    BY DEF IInv, BornOK
  <1> QED
    BY <1>1, <1>2, <1>3, <1>4 DEF Core

(* When every array is in one place after the step, PlacesOK holds.        *)
LEMMA PlacesKept ==
  ASSUME mode' = mode, \A n \in Node : OnePlace(array'[n])
  PROVE  PlacesOK'
  BY DEF PlacesOK, OnePlace

(* The parts of the invariant, for one array and one column.               *)
LEMMA Parts ==
  ASSUME IInv
  PROVE  /\ array \in [Node -> Array]
         /\ \A n \in Node : array[n] \in Array /\ OnePlace(array[n])
         /\ \A n \in Node : array[n].box # "none" => n[2] > 0 /\ library
         /\ \A n \in Column : array[n].box = "held" <=> column[n].refs > 0 /\ column[n].borrows
         /\ stream \in [state: {"open", "released"}, cursor: 0..NumBatches, error: BOOLEAN]
         /\ stream.cursor \in 0..NumBatches
         /\ importer.batch \in 0..NumBatches /\ importer.col \in 0..NumCols
  BY DEF IInv, TypeOK, Array, PlacesOK, BoxesOK

(* A step that brings no new array into the world keeps the core when its  *)
(* arrays are in one place, its boxes with their borrowers and its columns *)
(* as described.                                                           *)
LEMMA CoreFromParts ==
  ASSUME IInv, UNCHANGED <<mode, library, shape>>,
         \A n \in Node : OnePlace(array'[n]),
         \A n \in Node : array'[n].slot = "unborn" <=> array[n].slot = "unborn",
         mode \in Streams => stream'.cursor = stream.cursor,
         ColumnOK', ImportedAsDescribed', BoxesOK'
  PROVE  Core'
  <1>1. PlacesOK'
    BY PlacesKept
  <1>2. ShapeOK'
    BY DEF IInv, ShapeOK
  <1>3. BornOK'
    <2>1. \A n \in Node : <<n[1], 0>> \in Node
      BY NodeShape
    <2> QED
      BY <2>1 DEF IInv, BornOK
  <1> QED
    BY <1>1, <1>2, <1>3 DEF Core

(* Releases leave columns and boxes alone.                                 *)
LEMMA ReleaseKeepsCore ==
  ASSUME IInv, UNCHANGED <<mode, library, shape, stream, column>>,
         \A n \in Node : OnePlace(array'[n]) /\ array'[n].box = array[n].box,
         \A n \in Node : array'[n].slot = "unborn" <=> array[n].slot = "unborn"
  PROVE  Core'
  <1>1. ColumnOK' /\ ImportedAsDescribed'
    BY ColumnsKept
  <1>2. BoxesOK'
    BY NodeShape DEF IInv, BoxesOK
  <1> QED
    BY <1>1, <1>2, CoreFromParts

(* Exports leave columns alone, and put new callbacks into their slots.    *)
LEMMA ExportKeepsCore ==
  ASSUME IInv, UNCHANGED <<mode, library, shape, column>>, BornOK',
         \A n \in Node : \/ array'[n] = array[n]
                         \/ /\ array[n].slot = "unborn" /\ array'[n].box = "none"
                            /\ OnePlace(array'[n])
  PROVE  Core'
  <1>1. ColumnOK' /\ ShapeOK' /\ ImportedAsDescribed'
    BY ColumnsKept
  <1>2. \A n \in Node : OnePlace(array[n])
    BY Parts
  <1>3. \A n \in Node : array'[n].box = array[n].box
    BY <1>2 DEF OnePlace
  <1>4. BoxesOK'
    BY <1>3, NodeShape DEF IInv, BoxesOK
  <1>5. PlacesOK'
    BY <1>2, PlacesKept
  <1> QED
    BY <1>1, <1>4, <1>5 DEF Core

-----------------------------------------------------------------------------
(* Exporting                                                               *)

(* A record batch is exported with all its columns.                        *)
LEMMA StructExported ==
  ASSUME IInv, NEW b \in 1..NumBatches, \A n \in Node : n[1] = b => array[n].slot = "unborn"
  PROVE  /\ ExportStruct(b) \in [Node -> Array]
         /\ \A n \in Node : n[1] # b => ExportStruct(b)[n] = array[n]
         /\ \A n \in Node : n[1] = b =>
              /\ ExportStruct(b)[n].slot = "set" /\ ExportStruct(b)[n].box = "none"
              /\ OnePlace(ExportStruct(b)[n])
  <1>1. \A n \in Node : array[n] \in Array /\ OnePlace(array[n])
    BY Parts
  <1>2. ASSUME NEW n \in Node, n[1] = b
        PROVE  /\ ExportStruct(b)[n] \in Array
               /\ ExportStruct(b)[n].slot = "set" /\ ExportStruct(b)[n].box = "none"
               /\ OnePlace(ExportStruct(b)[n])
    <2>1. ExportStruct(b)[n] = CreateArrowExport(array[n])
          \/ ExportStruct(b)[n] = ExportViewToC(n, array[n])
      BY <1>2 DEF ExportStruct
    <2> QED
      BY <1>1, <1>2, <2>1, ExportedOnce
  <1>3. \A n \in Node : n[1] # b => ExportStruct(b)[n] = array[n]
    BY DEF ExportStruct
  <1>4. ExportStruct(b) \in [Node -> Array]
    <2>1. ExportStruct(b) = [n \in Node |-> ExportStruct(b)[n]]
      BY DEF ExportStruct
    <2>2. \A n \in Node : ExportStruct(b)[n] \in Array
      BY <1>1, <1>2, <1>3
    <2> QED
      BY <2>1, <2>2
  <1> QED
    BY <1>2, <1>3, <1>4

(* A plain array is exported alone.                                        *)
LEMMA PlainExported ==
  ASSUME IInv, NEW b \in 1..NumBatches, array[<<b, 1>>].slot = "unborn"
  PROVE  /\ ExportPlain(b) \in [Node -> Array]
         /\ \A n \in Node : n # <<b, 1>> => ExportPlain(b)[n] = array[n]
         /\ ExportPlain(b)[<<b, 1>>].slot = "set" /\ ExportPlain(b)[<<b, 1>>].box = "none"
         /\ OnePlace(ExportPlain(b)[<<b, 1>>])
  <1>1. <<b, 1>> \in Node
    BY DEF Node
  <1>2. array \in [Node -> Array] /\ array[<<b, 1>>] \in Array /\ OnePlace(array[<<b, 1>>])
    BY <1>1, Parts
  <1>3. ExportPlain(b)[<<b, 1>>] = ExportViewToC(<<b, 1>>, array[<<b, 1>>])
    BY <1>1, <1>2 DEF ExportPlain
  <1>4. ExportViewToC(<<b, 1>>, array[<<b, 1>>]) \in Array
    BY <1>2, ExportedOnce
  <1>5. ExportPlain(b) \in [Node -> Array]
    BY <1>2, <1>4 DEF ExportPlain
  <1>6. \A n \in Node : n # <<b, 1>> => ExportPlain(b)[n] = array[n]
    BY <1>2 DEF ExportPlain
  <1> QED
    BY <1>2, <1>3, <1>5, <1>6, ExportedOnce

(* A struct array comes into the world with its columns.                   *)
LEMMA StructStep ==
  ASSUME IInv, NEW b \in 1..NumBatches, \A n \in Node : n[1] = b => array[n].slot = "unborn",
         array' = ExportStruct(b), UNCHANGED <<mode, library, shape, column>>,
         mode \in Streams => stream'.cursor = b /\ stream.cursor = b - 1
  PROVE  array' \in [Node -> Array] /\ Core'
  <1>1. BornOK'
    <2>1. \A n \in Node : <<n[1], 0>> \in Node /\ <<n[1], 0>>[1] = n[1] /\ n[1] \in 1..NumBatches
      BY NodeShape
    <2>2. \A n \in Node : n[1] = b => array'[n].slot = "set"
      BY StructExported
    <2>3. \A n \in Node : n[1] # b => array'[n] = array[n]
      BY StructExported
    <2>4. ASSUME NEW n \in Node
          PROVE  /\ array'[<<n[1], 0>>].slot # "unborn" => array'[n].slot # "unborn"
                 /\ mode \in {"struct", "view_struct"} /\ array'[<<n[1], 0>>].slot = "unborn" =>
                      array'[n].slot = "unborn"
      <3>1. CASE n[1] = b
        BY <2>1, <2>2, <3>1
      <3>2. CASE n[1] # b
        BY <2>1, <2>3, <3>2 DEF IInv, BornOK
      <3> QED
        BY <3>1, <3>2
    <2>5. ASSUME mode \in Streams, NEW n \in Node, n[1] > stream'.cursor
          PROVE  array'[n].slot = "unborn"
      <3>0. ASSUME NEW x \in Int, NEW y \in Int, NEW z, x > y, z = y - 1 PROVE x > z /\ x # y
        BY <3>0
      <3>1. n[1] > stream.cursor /\ n[1] # b
        <4>1. n[1] \in Int /\ b \in Int
          <5>1. n[1] \in 1..NumBatches
            BY NodeShape
          <5> QED
            BY <5>1
        <4>2. stream'.cursor = b /\ stream.cursor = b - 1 /\ n[1] > b
          BY <2>5
        <4> QED
          BY ONLY <3>0, <4>1, <4>2
      <3> QED
        BY <2>3, <2>5, <3>1 DEF IInv, BornOK
    <2> QED
      BY <2>4, <2>5 DEF BornOK
  <1> QED
    BY <1>1, StructExported, ExportKeepsCore

(* So does a plain array, when no record batch is exchanged.               *)
LEMMA PlainStep ==
  ASSUME IInv, NEW b \in 1..NumBatches, array[<<b, 1>>].slot = "unborn",
         array' = ExportPlain(b), UNCHANGED <<mode, library, shape, column>>,
         mode \notin {"struct", "view_struct"},
         mode \in Streams => stream'.cursor = b /\ stream.cursor = b - 1
  PROVE  array' \in [Node -> Array] /\ Core'
  <1>1. <<b, 1>> \in Node
    BY DEF Node
  <1>2. BornOK'
    <2>1. \A n \in Node : <<n[1], 0>> \in Node /\ <<n[1], 0>> # <<b, 1>> /\ n[1] \in 1..NumBatches
      BY NodeShape
    <2>2. \A n \in Node : n # <<b, 1>> => array'[n] = array[n]
      BY PlainExported
    <2>3. array'[<<b, 1>>].slot = "set"
      BY PlainExported
    <2>4. \A n \in Node : array'[<<n[1], 0>>].slot # "unborn" => array'[n].slot # "unborn"
      BY <2>1, <2>2, <2>3 DEF IInv, BornOK
    <2>5. ASSUME mode \in Streams, NEW n \in Node, n[1] > stream'.cursor
          PROVE  array'[n].slot = "unborn"
      <3>0. ASSUME NEW x \in Int, NEW y \in Int, NEW z, x > y, z = y - 1 PROVE x > z /\ x # y
        BY <3>0
      <3>1. n[1] > stream.cursor /\ n[1] # b
        <4>1. n[1] \in Int /\ b \in Int
          <5>1. n[1] \in 1..NumBatches
            BY NodeShape
          <5> QED
            BY <5>1
        <4>2. stream'.cursor = b /\ stream.cursor = b - 1 /\ n[1] > b
          BY <2>5
        <4> QED
          BY ONLY <3>0, <4>1, <4>2
      <3>2. n # <<b, 1>>
        BY <3>1
      <3> QED
        BY <2>2, <2>5, <3>1, <3>2 DEF IInv, BornOK
    <2> QED
      BY <2>4, <2>5 DEF BornOK
  <1> QED
    BY <1>1, <1>2, PlainExported, ExportKeepsCore

(* The modes of an exchange do not overlap.                                *)
LEMMA ModesApart ==
  /\ mode \in Streams => mode \notin Pairs /\ mode \notin {"struct", "view_struct"}
  /\ mode \in Pairs => mode \notin {"struct", "view_struct"}
  /\ mode \in BatchStreams \cup ChunkStreams <=> mode \in Streams
  /\ ~(mode \in BatchStreams /\ mode \in ChunkStreams)
  BY DEF Streams, Pairs, BatchStreams, ChunkStreams

(* Outside the importing loop its state does not matter.                   *)
LEMMA Idle ==
  ASSUME IInv, UNCHANGED <<mode, library, importer>>, ~library \/ mode \notin Streams
  PROVE  ImporterOK'
  <1>1. importer.pc = "start"
    BY DEF IInv, ImporterOK, Running
  <1> QED
    BY <1>1 DEF ImporterOK

(* The scalar state of a step that leaves stream and importer alone.       *)
LEMMA ScalarsKept ==
  ASSUME IInv, UNCHANGED <<stream, importer>>,
         schema' = schema \/ schema' \in {"live", "released", "dropped"}
  PROVE  Scalars
  BY DEF IInv, TypeOK, Scalars

(* Exports of single arrays and record batches.                            *)
LEMMA ExportingStep == ASSUME IInv, Exporting PROVE IInv'
  <1>1. /\ UNCHANGED <<mode, library, shape, stream, importer, column>> /\ schema' = "live"
        /\ mode \notin Streams
    BY ModesApart DEF Exporting, ExportToC, ExportStructToC, ExportTableViewToC, Exports
  <1>2. Scalars
    BY <1>1, ScalarsKept
  <1>3. ImporterOK'
    BY <1>1, Idle
  <1>4. 1 \in 1..NumBatches
    OBVIOUS
  <1>5. array' \in [Node -> Array] /\ Core'
    <2>1. CASE ExportToC
      <3>1. array[<<1, 1>>].slot = "unborn" /\ array' = ExportPlain(1) /\ mode \in Pairs
        BY <2>1 DEF ExportToC, Exports
      <3> QED
        BY <1>1, <1>4, <3>1, PlainStep, ModesApart
    <2>2. CASE ExportStructToC \/ ExportTableViewToC
      <3>1. /\ array[<<1, 0>>].slot = "unborn" /\ array' = ExportStruct(1)
            /\ mode \in {"struct", "view_struct"}
        BY <2>2 DEF ExportStructToC, ExportTableViewToC, Exports
      <3>2. \A n \in Node : n[1] = 1 => array[n].slot = "unborn"
        BY <3>1 DEF IInv, BornOK
      <3> QED
        BY <1>1, <1>4, <3>1, <3>2, StructStep
    <2> QED
      BY <2>1, <2>2 DEF Exporting
  <1> QED
    BY <1>1, <1>2, <1>3, <1>5, Assembled

-----------------------------------------------------------------------------
(* Releasing                                                               *)

(* A struct array that was exported is released with all its columns.      *)
LEMMA StructReleased ==
  ASSUME IInv, NEW b \in 1..NumBatches, array[<<b, 0>>].slot # "unborn"
  PROVE  /\ ReleaseStruct(array, b) \in [Node -> Array]
         /\ \A n \in Node : /\ OnePlace(ReleaseStruct(array, b)[n])
                            /\ ReleaseStruct(array, b)[n].box = array[n].box
                            /\ ReleaseStruct(array, b)[n].slot = "unborn" <=>
                                 array[n].slot = "unborn"
  <1> DEFINE r == ReleaseStruct(array, b)
  <1>1. \A n \in Node : array[n] \in Array /\ OnePlace(array[n])
    BY Parts
  <1>2. ASSUME NEW n \in Node
        PROVE  /\ r[n] \in Array /\ OnePlace(r[n]) /\ r[n].box = array[n].box
               /\ r[n].slot = "unborn" <=> array[n].slot = "unborn"
    <2>1. CASE n[1] = b
      <3>1. r[n] = Called(n, array[n])
        BY <2>1 DEF ReleaseStruct
      <3>2. array[n].slot # "unborn"
        BY <2>1 DEF IInv, BornOK
      <3> HIDE DEF r
      <3> QED
        BY <1>1, <3>1, <3>2, CalledOnce
    <2>2. CASE n[1] # b
      <3>1. r[n] = array[n]
        BY <2>2 DEF ReleaseStruct
      <3> QED
        BY <1>1, <3>1
    <2> QED
      BY <2>1, <2>2
  <1>3. r = [n \in Node |-> r[n]]
    BY DEF ReleaseStruct
  <1> QED
    BY <1>2, <1>3

(* The release of an array by another program, or after a copying import.  *)
LEMMA ReleaseArrayStep ==
  ASSUME IInv, NEW n \in Node, ReleaseArray(n)
  PROVE  IInv'
  <1>1. /\ UNCHANGED <<mode, library, shape, schema, stream, importer, column>>
        /\ array[n].slot = "set"
        /\ ~library \/ mode \in Pairs
        /\ array' = IF n[2] = 0 THEN ReleaseStruct(array, n[1])
                    ELSE [array EXCEPT ![n] = Called(n, @)]
    BY DEF ReleaseArray
  <1>0. array[n].slot = "set" /\ array[n].slot # "unborn"
    BY <1>1
  <1>2. Scalars
    BY <1>1, ScalarsKept
  <1>3. ImporterOK'
    BY <1>1, Idle, ModesApart
  <1>4. /\ array' \in [Node -> Array]
        /\ \A m \in Node : /\ OnePlace(array'[m])
                           /\ array'[m].box = array[m].box
                           /\ array'[m].slot = "unborn" <=> array[m].slot = "unborn"
    <2>1. CASE n[2] = 0
      <3>1. n[1] \in 1..NumBatches /\ n = <<n[1], 0>>
        BY <2>1, NodeShape
      <3>2. array[<<n[1], 0>>].slot # "unborn"
        BY ONLY <1>0, <3>1
      <3>3. array' = ReleaseStruct(array, n[1])
        BY <1>1, <2>1
      <3> QED
        BY <3>1, <3>2, <3>3, StructReleased
    <2>2. CASE n[2] # 0
      <3>1. /\ array \in [Node -> Array] /\ \A m \in Node : array[m] \in Array /\ OnePlace(array[m])
        BY Parts
      <3>2. /\ Called(n, array[n]) \in Array /\ Called(n, array[n]).slot = "empty"
            /\ Called(n, array[n]).box = array[n].box /\ OnePlace(Called(n, array[n]))
        BY ONLY <1>0, <3>1, CalledOnce
      <3>3. array' = [array EXCEPT ![n] = Called(n, array[n])]
        BY <1>1, <2>2
      <3>4. array' \in [Node -> Array]
        BY <3>1, <3>2, <3>3
      <3>5. array'[n] = Called(n, array[n]) /\ \A m \in Node : m # n => array'[m] = array[m]
        BY <3>1, <3>3
      <3>6. array'[n].slot # "unborn"
        BY ONLY <3>2, <3>5
      <3>7. ASSUME NEW m \in Node, m # n
            PROVE  array'[m] = array[m] /\ OnePlace(array[m])
        BY ONLY <3>1, <3>5, <3>7
      <3> QED
        BY ONLY <1>0, <3>2, <3>4, <3>5, <3>6, <3>7
    <2> QED
      BY <2>1, <2>2
  <1>5. Core'
    BY <1>1, <1>4, ReleaseKeepsCore
  <1> QED
    BY <1>1, <1>2, <1>3, <1>4, <1>5, Assembled

(* Its columns taken, the parent of a batch is released.                   *)
LEMMA ImportParentStep ==
  ASSUME IInv, ImportParent
  PROVE  IInv'
  <1>1. /\ UNCHANGED <<mode, library, shape, schema, stream, column>> /\ Running
        /\ importer.pc = "parent" /\ array' = ReleaseStruct(array, importer.batch)
        /\ importer' = [pc |-> "pull", batch |-> 0, col |-> 0]
    BY DEF ImportParent, At
  <1>2. importer.batch \in 1..NumBatches /\ array[<<importer.batch, 0>>].slot # "unborn"
    <2>1. importer.batch >= 1 /\ array[<<importer.batch, 0>>].slot = "set"
      BY <1>1 DEF IInv, ImporterOK
    <2>2. importer.batch \in 0..NumBatches
      BY Parts
    <2> QED
      BY <2>1, <2>2
  <1>3. Scalars
    <2>1. 0 \in 0..NumBatches /\ 0 \in 0..NumCols
      OBVIOUS
    <2> QED
      BY <1>1, <2>1 DEF IInv, TypeOK, Scalars
  <1>4. ImporterOK'
    BY <1>1 DEF ImporterOK, Running
  <1>5. array' \in [Node -> Array] /\ Core'
    BY <1>1, <1>2, StructReleased, ReleaseKeepsCore
  <1> QED
    BY <1>1, <1>3, <1>4, <1>5, Assembled

-----------------------------------------------------------------------------
(* Importing                                                               *)

(* An array's callback moves out of its slot and the rest stays.           *)
LEMMA ArrayMoved ==
  ASSUME IInv, NEW n \in Column, array[n].slot = "set",
         NEW box \in {"released", "held", "lost"},
         array' = [array EXCEPT ![n] = Moved(n, @, box)]
  PROVE  /\ array' \in [Node -> Array]
         /\ \A m \in Node : OnePlace(array'[m])
         /\ \A m \in Node : array'[m].slot = "unborn" <=> array[m].slot = "unborn"
         /\ \A m \in Node : m # n => array'[m] = array[m]
         /\ array'[n].slot = "empty"
         /\ array'[n].box = (IF box = "released" THEN "none" ELSE box)
  <1>1. /\ array \in [Node -> Array] /\ n \in Node
        /\ \A m \in Node : array[m] \in Array /\ OnePlace(array[m])
    BY Parts, NodeShape
  <1>2. /\ Moved(n, array[n], box) \in Array /\ Moved(n, array[n], box).slot = "empty"
        /\ Moved(n, array[n], box).box = (IF box = "released" THEN "none" ELSE box)
        /\ OnePlace(Moved(n, array[n], box))
    BY <1>1, MovedOnce
  <1>3. /\ array'[n] = Moved(n, array[n], box)
        /\ \A m \in Node : m # n => array'[m] = array[m]
    BY <1>1
  <1>4. array' \in [Node -> Array]
    BY <1>1, <1>2
  <1>5. ASSUME NEW m \in Node
        PROVE  OnePlace(array'[m]) /\ (array'[m].slot = "unborn" <=> array[m].slot = "unborn")
    <2>1. CASE m = n
      BY <1>2, <1>3, <2>1
    <2>2. CASE m # n
      BY <1>1, <1>3, <2>2
    <2> QED
      BY <2>1, <2>2
  <1> QED
    BY <1>2, <1>3, <1>4, <1>5

(* A column is made with its rows, and borrows when its box is held.       *)
LEMMA ColumnMade ==
  ASSUME IInv, NEW n \in Column, Supported(shape[n]), UNCHANGED shape, NEW import,
         import.rows = ImportArrayZeroCopy(shape[n]).rows,
         column' = Imported(n, import)
  PROVE  /\ ColumnOK' /\ ImportedAsDescribed'
         /\ \A m \in Column : m # n => column'[m] = column[m]
         /\ column'[n].refs = 1 /\ (column'[n].borrows <=> import.box = "held")
  <1> DEFINE made == [refs |-> 1, rows |-> import.rows, made |-> TRUE,
                      borrows |-> import.box = "held"]
  <1>1. /\ column = [m \in Column |-> column[m]]
        /\ column' = [column EXCEPT ![n] = made]
    BY DEF IInv, ColumnOK, Imported
  <1>2. column'[n] = made /\ \A m \in Column : m # n => column'[m] = column[m]
    BY <1>1
  <1>3. /\ made.refs = 1 /\ made.rows = import.rows /\ made.made = TRUE
        /\ made.borrows \in BOOLEAN /\ (made.borrows <=> import.box = "held")
        /\ made = [refs |-> made.refs, rows |-> made.rows, borrows |-> made.borrows,
                   made |-> made.made]
    OBVIOUS
  <1>4. column' = [m \in Column |-> column'[m]]
    BY <1>1
  <1> HIDE DEF made
  <1>5. ColumnOK'
    <2>1. 1 \in 0..MaxRefs
      OBVIOUS
    <2>2. ASSUME NEW m \in Column
          PROVE  /\ column'[m] = [refs |-> column'[m].refs, rows |-> column'[m].rows,
                                  borrows |-> column'[m].borrows, made |-> column'[m].made]
                 /\ column'[m].refs \in 0..MaxRefs
                 /\ column'[m].borrows \in BOOLEAN /\ column'[m].made \in BOOLEAN
      <3>1. CASE m = n
        BY <1>2, <1>3, <2>1, <3>1
      <3>2. CASE m # n
        BY <1>2, <3>2 DEF IInv, ColumnOK
      <3> QED
        BY <3>1, <3>2
    <2> QED
      BY <1>4, <2>2 DEF ColumnOK
  <1>6. ImportedAsDescribed'
    <2>1. ASSUME NEW m \in Column, column'[m].made,
                 ~(shape[m].kind = "utf8_view" /\ shape[m].offset > 0)
          PROVE  column'[m].rows = Described(shape[m])
      <3>1. CASE m = n
        <4>1. shape[n] \in Shapes
          BY DEF IInv, ShapeOK
        <4>2. shape[n].offset \in Nat
          BY <4>1, ShapesAssumption DEF IsShape
        <4>3. shape[n].kind = "utf8_view" => shape[n].offset = 0
          BY <2>1, <3>1, <4>2
        <4>4. import.rows = Described(shape[n])
          BY <4>1, <4>3, ImportRows
        <4> QED
          BY <1>2, <1>3, <3>1, <4>4
      <3>2. CASE m # n
        BY <1>2, <2>1, <3>2 DEF IInv, ImportedAsDescribed
      <3> QED
        BY <3>1, <3>2
    <2> QED
      BY <2>1 DEF ImportedAsDescribed
  <1> QED
    BY <1>2, <1>3, <1>5, <1>6

(* Taking a column over: callback, rows and borrower together.             *)
LEMMA ColumnTaken ==
  ASSUME IInv, NEW n \in Column, library, array[n].slot = "set", Supported(shape[n]),
         UNCHANGED <<mode, library, shape>>,
         mode \in Streams => stream'.cursor = stream.cursor,
         array' = [array EXCEPT ![n] = Moved(n, @, ImportArrayZeroCopy(shape[n]).box)],
         column' = Imported(n, ImportArrayZeroCopy(shape[n]))
  PROVE  /\ array' \in [Node -> Array] /\ Core'
         /\ \A m \in Node : m # n => array'[m] = array[m]
  <1> DEFINE import == ImportArrayZeroCopy(shape[n])
  <1>1. import.box \in {"released", "held", "lost"}
    BY ImportBox
  <1> HIDE DEF import
  <1>2. /\ array' \in [Node -> Array]
        /\ \A m \in Node : OnePlace(array'[m])
        /\ \A m \in Node : array'[m].slot = "unborn" <=> array[m].slot = "unborn"
        /\ \A m \in Node : m # n => array'[m] = array[m]
        /\ array'[n].box = (IF import.box = "released" THEN "none" ELSE import.box)
    BY <1>1, ArrayMoved DEF import
  <1>3. /\ ColumnOK' /\ ImportedAsDescribed'
        /\ \A m \in Column : m # n => column'[m] = column[m]
        /\ column'[n].refs = 1 /\ (column'[n].borrows <=> import.box = "held")
    BY ColumnMade DEF import
  <1>4. BoxesOK'
    <2>1. ASSUME NEW m \in Node, array'[m].box # "none" PROVE m[2] > 0 /\ library
      <3>1. CASE m = n
        BY <3>1, NodeShape
      <3>2. CASE m # n
        BY <1>2, <2>1, <3>2, Parts
      <3> QED
        BY <3>1, <3>2
    <2>2. ASSUME NEW m \in Column
          PROVE  array'[m].box = "held" <=> column'[m].refs > 0 /\ column'[m].borrows
      <3>1. CASE m = n
        BY <1>1, <1>2, <1>3, <3>1
      <3>2. CASE m # n
        BY <1>2, <1>3, <3>2, Parts, NodeShape
      <3> QED
        BY <3>1, <3>2
    <2> QED
      BY <2>1, <2>2 DEF BoxesOK
  <1> QED
    BY <1>2, <1>3, <1>4, CoreFromParts

(* A box that is dropped uncalled touches no column.                       *)
LEMMA BoxLost ==
  ASSUME IInv, NEW n \in Column, library, array[n].slot = "set",
         array' = [array EXCEPT ![n] = Moved(n, @, "lost")]
  PROVE  /\ array' \in [Node -> Array]
         /\ \A m \in Node : OnePlace(array'[m])
         /\ \A m \in Node : array'[m].slot = "unborn" <=> array[m].slot = "unborn"
         /\ \A m \in Node : array'[m].box # "none" => m[2] > 0 /\ library
         /\ \A m \in Column : array'[m].box = "held" <=> column[m].refs > 0 /\ column[m].borrows
  <1>1. /\ array' \in [Node -> Array]
        /\ \A m \in Node : OnePlace(array'[m])
        /\ \A m \in Node : array'[m].slot = "unborn" <=> array[m].slot = "unborn"
        /\ \A m \in Node : m # n => array'[m] = array[m]
        /\ array'[n].box = "lost"
    BY ArrayMoved
  <1>2. ASSUME NEW m \in Node, array'[m].box # "none" PROVE m[2] > 0 /\ library
    <2>1. CASE m = n
      BY <2>1, NodeShape
    <2>2. CASE m # n
      BY <1>1, <1>2, <2>2, Parts
    <2> QED
      BY <2>1, <2>2
  <1>3. ASSUME NEW m \in Column
        PROVE  array'[m].box = "held" <=> column[m].refs > 0 /\ column[m].borrows
    <2>1. CASE m = n
      <3>1. array[n].box = "none"
        BY Parts, NodeShape DEF OnePlace
      <3>2. ~(column[n].refs > 0 /\ column[n].borrows)
        BY <3>1, Parts
      <3> QED
        BY <1>1, <2>1, <3>2
    <2>2. CASE m # n
      BY <1>1, <2>2, Parts, NodeShape
    <2> QED
      BY <2>1, <2>2
  <1> QED
    BY <1>1, <1>2, <1>3

(* A copying import leaves the structures with the caller.                 *)
LEMMA ImportFromCStep == ASSUME IInv, ImportFromC PROVE IInv'
  <1> DEFINE n == <<1, 1>>
             import == [ImportArrayZeroCopy(shape[n]) EXCEPT !.box = "none"]
  <1>1. n \in Column
    BY NodeShape
  <1>2. /\ UNCHANGED <<mode, library, shape, array, schema, stream, importer>>
        /\ mode \in Pairs
        /\ array[n].slot = "set"
        /\ Supported(shape[n])
        /\ column' = Imported(n, import)
    BY DEF ImportFromC
  <1>3. import.box = "none" /\ import.rows = ImportArrayZeroCopy(shape[n]).rows
    <2> DEFINE i == ImportArrayZeroCopy(shape[n])
    <2>1. i = [rows |-> i.rows, box |-> i.box]
      BY ImportBox
    <2> HIDE DEF i
    <2>2. [i EXCEPT !.box = "none"].box = "none" /\ [i EXCEPT !.box = "none"].rows = i.rows
      BY <2>1
    <2> QED
      BY <2>2 DEF i
  <1> HIDE DEF import, n
  <1>4. /\ ColumnOK' /\ ImportedAsDescribed'
        /\ \A m \in Column : m # n => column'[m] = column[m]
        /\ ~column'[n].borrows
    BY <1>1, <1>2, <1>3, ColumnMade
  <1>5. BoxesOK'
    <2>1. array[n].box = "none"
      BY <1>1, <1>2, Parts, NodeShape DEF OnePlace
    <2>2. ASSUME NEW m \in Column
          PROVE  array'[m].box = "held" <=> column'[m].refs > 0 /\ column'[m].borrows
      <3>1. CASE m = n
        BY <1>2, <1>4, <2>1, <3>1
      <3>2. CASE m # n
        BY <1>2, <1>4, <3>2, Parts
      <3> QED
        BY <3>1, <3>2
    <2> QED
      BY <1>2, <2>2 DEF IInv, BoxesOK
  <1>6. array' \in [Node -> Array] /\ \A m \in Node : OnePlace(array'[m])
    BY <1>2, Parts
  <1>7. Core'
    BY <1>2, <1>4, <1>5, <1>6, CoreFromParts
  <1>8. Scalars
    BY <1>2, ScalarsKept
  <1>9. ImporterOK'
    BY <1>2, Idle, ModesApart
  <1> QED
    BY <1>2, <1>6, <1>7, <1>8, <1>9, Assembled

(* An owning import takes both structures.                                 *)
LEMMA ImportFromCOwnedStep == ASSUME IInv, ImportFromCOwned PROVE IInv'
  <1> DEFINE n == <<1, 1>>
  <1>1. n \in Column
    BY NodeShape
  <1>2. /\ UNCHANGED <<mode, library, shape, stream, importer>>
        /\ library /\ mode \in Pairs /\ array[n].slot = "set" /\ schema' = "dropped"
    BY DEF ImportFromCOwned
  <1>3. Supported(shape[n]) =>
          /\ array' = [array EXCEPT ![n] = Moved(n, @, ImportArrayZeroCopy(shape[n]).box)]
          /\ column' = Imported(n, ImportArrayZeroCopy(shape[n]))
    BY DEF ImportFromCOwned
  <1>4. ~Supported(shape[n]) => array' = [array EXCEPT ![n] = Moved(n, @, "lost")] /\ column' = column
    BY DEF ImportFromCOwned
  <1> HIDE DEF n
  <1>5. array' \in [Node -> Array] /\ Core'
    <2>1. CASE Supported(shape[n])
      BY <1>1, <1>2, <1>3, <2>1, ColumnTaken
    <2>2. CASE ~Supported(shape[n])
      <3>1. /\ array' \in [Node -> Array]
            /\ \A m \in Node : OnePlace(array'[m])
            /\ \A m \in Node : array'[m].slot = "unborn" <=> array[m].slot = "unborn"
            /\ \A m \in Node : array'[m].box # "none" => m[2] > 0 /\ library
            /\ \A m \in Column : array'[m].box = "held" <=> column[m].refs > 0 /\ column[m].borrows
        BY <1>1, <1>2, <1>4, <2>2, BoxLost
      <3>2. BoxesOK'
        BY <1>2, <1>4, <2>2, <3>1 DEF BoxesOK
      <3>3. ColumnOK' /\ ImportedAsDescribed'
        BY <1>2, <1>4, <2>2, ColumnsKept
      <3> QED
        BY <1>2, <3>1, <3>2, <3>3, CoreFromParts
    <2> QED
      BY <2>1, <2>2
  <1>6. Scalars
    BY <1>2, ScalarsKept
  <1>7. ImporterOK'
    BY <1>2, Idle, ModesApart
  <1> QED
    BY <1>2, <1>5, <1>6, <1>7, Assembled

(* A column of a batch, or a chunk, is taken over by the importing loop.   *)
LEMMA ImportTakeStep == ASSUME IInv, ImportTake PROVE IInv'
  <1> DEFINE b == importer.batch
             c == importer.col
             n == <<b, c>>
  <1>1. /\ UNCHANGED <<mode, library, shape, schema, stream>>
        /\ library /\ mode \in Streams /\ importer.pc = "take"
        /\ Supported(shape[n])
        /\ array' = [array EXCEPT ![n] = Moved(n, @, ImportArrayZeroCopy(shape[n]).box)]
        /\ column' = Imported(n, ImportArrayZeroCopy(shape[n]))
    BY DEF ImportTake, Running, Steal
  <1>2. \/ importer' = [pc |-> "pull", batch |-> 0, col |-> 0]
        \/ mode \in BatchStreams /\ c < NumCols /\ importer' = [importer EXCEPT !.col = c + 1]
        \/ mode \in BatchStreams /\ importer' = [importer EXCEPT !.pc = "parent"]
    <2>1. mode \notin ChunkStreams => mode \in BatchStreams
      BY <1>1, ModesApart
    <2> QED
      BY <2>1 DEF ImportTake, At
  <1>3. /\ b \in 1..NumBatches /\ c \in 1..NumCols /\ n \in Column
        /\ array[n].slot = "set"
        /\ \A k \in c..NumCols : mode \in BatchStreams => array[<<b, k>>].slot = "set"
        /\ mode \in BatchStreams => array[<<b, 0>>].slot = "set"
    <2>1. b \in 0..NumBatches /\ c \in 0..NumCols
      BY Parts
    <2>2. /\ b >= 1 /\ c >= 1
          /\ \A k \in c..NumCols : mode \in BatchStreams \/ k = c => array[<<b, k>>].slot = "set"
          /\ mode \in BatchStreams => array[<<b, 0>>].slot = "set"
      BY <1>1 DEF IInv, ImporterOK
    <2> HIDE DEF b, c
    <2>3. b \in 1..NumBatches /\ c \in 1..NumCols /\ c \in c..NumCols
      BY <2>1, <2>2
    <2> QED
      BY <2>2, <2>3, NodeShape
  <1> HIDE DEF n
  <1>4. /\ array' \in [Node -> Array] /\ Core'
        /\ \A m \in Node : m # n => array'[m] = array[m]
    BY <1>1, <1>3, ColumnTaken
  <1>5. /\ importer = [pc |-> "take", batch |-> b, col |-> c]
    BY <1>1 DEF IInv, TypeOK
  <1> HIDE DEF b, c
  <1>6. Scalars /\ ImporterOK'
    <2>1. ASSUME NEW k \in 0..NumCols, k # c PROVE array'[<<b, k>>] = array[<<b, k>>]
      BY <1>3, <1>4, <2>1, NodeShape DEF n
    <2>2. stream' \in [state: {"open", "released"}, cursor: 0..NumBatches, error: BOOLEAN]
          /\ schema' \in {"none", "live", "released", "dropped"}
      BY <1>1 DEF IInv, TypeOK
    <2>3. CASE importer' = [pc |-> "pull", batch |-> 0, col |-> 0]
      <3>1. 0 \in 0..NumBatches /\ 0 \in 0..NumCols
        OBVIOUS
      <3>2. Scalars
        BY <2>2, <2>3, <3>1 DEF Scalars
      <3> QED
        BY <1>1, <2>3, <3>2 DEF ImporterOK, Running
    <2>4. CASE mode \in BatchStreams /\ c < NumCols /\ importer' = [importer EXCEPT !.col = c + 1]
      <3>1. importer' = [pc |-> "take", batch |-> b, col |-> c + 1]
        BY <1>5, <2>4
      <3>2. /\ b \in 0..NumBatches /\ c + 1 \in 0..NumCols /\ b >= 1 /\ c + 1 >= 1
            /\ 0 # c /\ 0 \in 0..NumCols
        BY <1>3, <2>4
      <3>3. ASSUME NEW k \in (c + 1)..NumCols PROVE array'[<<b, k>>].slot = "set"
        <4>1. k \in c..NumCols /\ k \in 0..NumCols /\ k # c
          BY <1>3
        <4> QED
          BY <1>3, <2>1, <2>4, <4>1
      <3>4. array'[<<b, 0>>].slot = "set"
        BY <1>3, <2>1, <2>4, <3>2
      <3>5. Scalars
        BY <2>2, <3>1, <3>2 DEF Scalars
      <3> QED
        BY <1>1, <3>1, <3>2, <3>3, <3>4, <3>5 DEF ImporterOK, Running
    <2>5. CASE mode \in BatchStreams /\ importer' = [importer EXCEPT !.pc = "parent"]
      <3>1. importer' = [pc |-> "parent", batch |-> b, col |-> c]
        BY <1>5, <2>5
      <3>2. b \in 0..NumBatches /\ c \in 0..NumCols /\ b >= 1 /\ 0 # c /\ 0 \in 0..NumCols
        BY <1>3
      <3>3. array'[<<b, 0>>].slot = "set"
        BY <1>3, <2>1, <2>5, <3>2
      <3>4. Scalars
        BY <2>2, <3>1, <3>2 DEF Scalars
      <3> QED
        BY <1>1, <2>5, <3>1, <3>2, <3>3, <3>4 DEF ImporterOK, Running
    <2> QED
      BY <1>2, <2>3, <2>4, <2>5 DEF b, c
  <1> QED
    BY <1>1, <1>4, <1>6, Assembled

(* A panic drops the columns read so far.                                  *)
LEMMA UnwindsStep ==
  ASSUME IInv, Running, NEW arrays, arrays \in [Node -> Array], Unwinds(arrays),
         \A m \in Node : OnePlace(arrays[m]),
         \A m \in Node : arrays[m].slot = "unborn" <=> array[m].slot = "unborn",
         \A m \in Node : arrays[m].box # "none" => m[2] > 0 /\ library,
         stream' \in [state: {"open", "released"}, cursor: 0..NumBatches, error: BOOLEAN],
         stream'.cursor = stream.cursor
  PROVE  IInv'
  <1>1. /\ UNCHANGED <<mode, library, shape, schema>>
        /\ importer' = [pc |-> "panicked", batch |-> 0, col |-> 0]
        /\ array' = [n \in Node |-> DropForeign(n, arrays[n])]
        /\ column' = [n \in Column |-> [column[n] EXCEPT !.refs = 0]]
    BY DEF Unwinds, At
  <1>2. ASSUME NEW m \in Node
        PROVE  /\ array'[m] \in Array /\ OnePlace(array'[m])
               /\ array'[m].slot = arrays[m].slot
               /\ array'[m].box = (IF arrays[m].box = "held" THEN "none" ELSE arrays[m].box)
    <2>1. array'[m] = DropForeign(m, arrays[m])
      BY <1>1
    <2> QED
      BY <2>1, DroppedOnce
  <1>3. array' \in [Node -> Array]
    BY <1>1, <1>2
  <1>4. ASSUME NEW m \in Column
        PROVE  /\ column'[m].refs = 0 /\ column'[m].rows = column[m].rows
               /\ column'[m].borrows = column[m].borrows /\ column'[m].made = column[m].made
               /\ column'[m] = [refs |-> column'[m].refs, rows |-> column'[m].rows,
                                borrows |-> column'[m].borrows, made |-> column'[m].made]
    <2>1. column'[m] = [column[m] EXCEPT !.refs = 0]
      BY <1>1
    <2>2. column[m] = [refs |-> column[m].refs, rows |-> column[m].rows,
                       borrows |-> column[m].borrows, made |-> column[m].made]
      BY DEF IInv, ColumnOK
    <2> QED
      BY <2>1, <2>2
  <1>5. ColumnOK'
    <2>1. column' = [n \in Column |-> column'[n]]
      BY <1>1
    <2>2. 0 \in 0..MaxRefs
      OBVIOUS
    <2>3. \A m \in Column : column[m].borrows \in BOOLEAN /\ column[m].made \in BOOLEAN
      BY DEF IInv, ColumnOK
    <2> QED
      BY <1>4, <2>1, <2>2, <2>3 DEF ColumnOK
  <1>6. ImportedAsDescribed'
    <2>1. ImportedAsDescribed
      BY DEF IInv
    <2> QED
      BY <1>1, <1>4, <2>1 DEF ImportedAsDescribed
  <1>7. BoxesOK'
    <2>1. \A m \in Node : array'[m].box # "none" => m[2] > 0 /\ library
      BY <1>2
    <2>2. ASSUME NEW m \in Column PROVE array'[m].box # "held" /\ ~(column'[m].refs > 0)
      <3>1. m \in Node
        BY NodeShape
      <3>2. array'[m].box # "held"
        BY <1>2, <3>1
      <3>3. column'[m].refs = 0
        BY <1>4
      <3> QED
        BY <3>2, <3>3
    <2> QED
      BY <1>1, <2>1, <2>2 DEF BoxesOK
  <1>8. Core'
    BY <1>1, <1>2, <1>5, <1>6, <1>7, CoreFromParts
  <1>9. Scalars
    <2>1. 0 \in 0..NumBatches /\ 0 \in 0..NumCols
      OBVIOUS
    <2> QED
      BY <1>1, <2>1 DEF IInv, TypeOK, Scalars
  <1>10. ImporterOK'
    BY <1>1 DEF ImporterOK, Running
  <1> QED
    BY <1>1, <1>3, <1>8, <1>9, <1>10, Assembled

(* A batch or an array without an importer panics, its own box dropped.    *)
LEMMA ImportUnsupportedStep == ASSUME IInv, ImportUnsupported PROVE IInv'
  <1> DEFINE n == <<importer.batch, importer.col>>
             arrays == [array EXCEPT ![n] = Moved(n, @, "lost")]
  <1>1. Running /\ importer.pc = "take" /\ Unwinds(arrays) /\ UNCHANGED stream /\ library
    BY DEF ImportUnsupported, Running, Steal
  <1>2. n \in Column /\ array[n].slot = "set"
    <2>1. importer.batch \in 0..NumBatches /\ importer.col \in 0..NumCols
      BY Parts
    <2>2. /\ importer.batch >= 1 /\ importer.col >= 1
          /\ \A k \in importer.col..NumCols : k = importer.col => array[<<importer.batch, k>>].slot = "set"
      BY <1>1 DEF IInv, ImporterOK
    <2>3. /\ importer.batch \in 1..NumBatches /\ importer.col \in 1..NumCols
          /\ importer.col \in importer.col..NumCols
      BY <2>1, <2>2
    <2> QED
      BY <2>2, <2>3, NodeShape
  <1> HIDE DEF n
  <1>3. /\ array \in [Node -> Array] /\ n \in Node
        /\ \A m \in Node : array[m] \in Array /\ OnePlace(array[m])
    BY <1>2, Parts, NodeShape
  <1>4. /\ Moved(n, array[n], "lost") \in Array /\ Moved(n, array[n], "lost").slot = "empty"
        /\ OnePlace(Moved(n, array[n], "lost"))
    BY <1>2, <1>3, MovedOnce
  <1>5. arrays \in [Node -> Array]
    BY <1>3, <1>4
  <1>6. ASSUME NEW m \in Node
        PROVE  /\ OnePlace(arrays[m])
               /\ arrays[m].slot = "unborn" <=> array[m].slot = "unborn"
               /\ arrays[m].box # "none" => m[2] > 0 /\ library
    <2>1. CASE m = n
      <3>1. arrays[m] = Moved(n, array[n], "lost")
        BY <1>3, <2>1
      <3>2. m[2] > 0
        BY <1>2, <2>1, NodeShape
      <3> HIDE DEF arrays
      <3> QED
        BY <1>1, <1>2, <1>4, <2>1, <3>1, <3>2
    <2>2. CASE m # n
      <3>1. arrays[m] = array[m]
        BY <1>3, <2>2
      <3> HIDE DEF arrays
      <3> QED
        BY <3>1, Parts
    <2> QED
      BY <2>1, <2>2
  <1>7. stream' \in [state: {"open", "released"}, cursor: 0..NumBatches, error: BOOLEAN]
    BY <1>1, Parts
  <1> HIDE DEF arrays
  <1> QED
    BY <1>1, <1>5, <1>6, <1>7, UnwindsStep

(* An error code of the producer panics.                                   *)
LEMMA ImportFailsStep == ASSUME IInv, ImportFails PROVE IInv'
  <1>1. Running /\ Unwinds(array) /\ stream' = [stream EXCEPT !.error = TRUE]
    BY DEF ImportFails
  <1>2. stream' \in [state: {"open", "released"}, cursor: 0..NumBatches, error: BOOLEAN]
        /\ stream'.cursor = stream.cursor
    BY <1>1, Parts
  <1> QED
    BY <1>1, <1>2, Parts, UnwindsStep

-----------------------------------------------------------------------------
(* Streams                                                                 *)

(* What a call of get_next does.                                           *)
LEMMA GetNextCases ==
  ASSUME GetNext
  PROVE  /\ mode \in Streams
         /\ \/ AtEnd /\ UNCHANGED <<stream, array>>
            \/ ~AtEnd /\ mode \in BatchStreams /\ NextBatch
            \/ ~AtEnd /\ mode \in ChunkStreams /\ NextChunk
  <1>1. EndOfStream => AtEnd /\ UNCHANGED <<stream, array>>
    BY DEF EndOfStream
  <1>2. NextBatch \/ NextChunk => ~AtEnd
    BY DEF NextBatch, NextChunk, Advance
  <1> QED
    BY <1>1, <1>2 DEF GetNext, RbStreamGetNext, RbViewStreamGetNext, ArrStreamGetNext,
       ArrViewStreamGetNext, RbProducerStreamGetNext, ForeignGetNext, BatchStreams, ChunkStreams

(* The next batch or chunk comes into the world with its slots set.        *)
LEMMA NextArrays ==
  ASSUME IInv, GetNext, ~AtEnd, UNCHANGED <<mode, library, shape, column>>
  PROVE  /\ stream.cursor + 1 \in 1..NumBatches
         /\ stream' \in [state: {"open", "released"}, cursor: 0..NumBatches, error: BOOLEAN]
         /\ array' \in [Node -> Array] /\ Core'
         /\ array'[<<stream.cursor + 1, 1>>].slot = "set"
         /\ mode \in BatchStreams =>
              \A c \in 0..NumCols : array'[<<stream.cursor + 1, c>>].slot = "set"
  <1> DEFINE b == stream.cursor + 1
  <1>1. b \in 1..NumBatches /\ stream.cursor = b - 1 /\ b > stream.cursor
    <2>1. stream.cursor \in 0..NumBatches /\ stream.cursor # NumBatches
      BY Parts DEF AtEnd
    <2> QED
      BY <2>1
  <1>2. /\ mode \in Streams
        /\ \/ mode \in BatchStreams /\ array' = ExportStruct(b)
           \/ mode \in ChunkStreams /\ array' = ExportPlain(b)
        /\ stream' = [stream EXCEPT !.cursor = b]
    BY GetNextCases DEF NextBatch, NextChunk, Advance
  <1> HIDE DEF b
  <1>3. /\ stream' \in [state: {"open", "released"}, cursor: 0..NumBatches, error: BOOLEAN]
        /\ stream'.cursor = b
    BY <1>1, <1>2, Parts
  <1>4. \A n \in Node : n[1] = b => array[n].slot = "unborn"
    BY <1>1, <1>2 DEF IInv, BornOK
  <1>5. 1 \in 0..NumCols
    OBVIOUS
  <1>6. \A c \in 0..NumCols : <<b, c>> \in Node /\ <<b, c>>[1] = b
    BY <1>1, NodeShape
  <1>7. CASE mode \in BatchStreams /\ array' = ExportStruct(b)
    <2>1. array' \in [Node -> Array] /\ Core'
      BY <1>1, <1>3, <1>4, <1>7, StructStep
    <2>2. \A n \in Node : n[1] = b => array'[n].slot = "set"
      BY <1>1, <1>4, <1>7, StructExported
    <2>3. \A c \in 0..NumCols : array'[<<b, c>>].slot = "set"
      BY <1>6, <2>2
    <2> QED
      BY <1>1, <1>3, <1>5, <2>1, <2>3 DEF b
  <1>8. CASE mode \in ChunkStreams /\ array' = ExportPlain(b)
    <2>1. array[<<b, 1>>].slot = "unborn"
      BY <1>4, <1>5, <1>6
    <2>2. mode \notin {"struct", "view_struct"} /\ mode \notin BatchStreams
      BY <1>2, <1>8, ModesApart
    <2>3. array' \in [Node -> Array] /\ Core'
      BY <1>1, <1>3, <1>8, <2>1, <2>2, PlainStep
    <2>4. array'[<<b, 1>>].slot = "set"
      BY <1>1, <1>8, <2>1, PlainExported
    <2> QED
      BY <1>1, <1>3, <2>2, <2>3, <2>4 DEF b
  <1> QED
    BY <1>2, <1>7, <1>8

(* The importing loop asks for the next batch or chunk.                    *)
LEMMA ImportPullStep == ASSUME IInv, ImportPull PROVE IInv'
  <1>1. /\ Running /\ GetNext /\ UNCHANGED <<mode, library, shape, schema, column>>
        /\ mode \in Streams
        /\ importer' = IF AtEnd THEN [pc |-> "schema", batch |-> 0, col |-> 0]
                       ELSE [pc |-> "take", batch |-> stream.cursor + 1, col |-> 1]
    BY DEF ImportPull, Running, At
  <1>2. schema' \in {"none", "live", "released", "dropped"}
    BY <1>1 DEF IInv, TypeOK
  <1>3. 0 \in 0..NumBatches /\ 0 \in 0..NumCols /\ 1 \in 0..NumCols
    OBVIOUS
  <1>4. CASE AtEnd
    <2>1. UNCHANGED <<stream, array>>
      BY <1>1, <1>4, GetNextCases
    <2>2. importer' = [pc |-> "schema", batch |-> 0, col |-> 0]
      BY <1>1, <1>4
    <2>3. Scalars
      BY <1>2, <1>3, <2>1, <2>2, Parts DEF Scalars
    <2>4. ImporterOK'
      BY <1>1, <2>2 DEF ImporterOK, Running
    <2> QED
      BY <1>1, <2>1, <2>3, <2>4, CoreKept, Assembled
  <1>5. CASE ~AtEnd
    <2> DEFINE b == stream.cursor + 1
    <2>1. /\ b \in 1..NumBatches
          /\ stream' \in [state: {"open", "released"}, cursor: 0..NumBatches, error: BOOLEAN]
          /\ array' \in [Node -> Array] /\ Core'
          /\ array'[<<b, 1>>].slot = "set"
          /\ mode \in BatchStreams => \A c \in 0..NumCols : array'[<<b, c>>].slot = "set"
      BY <1>1, <1>5, NextArrays
    <2>2. importer' = [pc |-> "take", batch |-> b, col |-> 1]
      BY <1>1, <1>5
    <2> HIDE DEF b
    <2>3. b \in 0..NumBatches /\ b >= 1
      BY <2>1
    <2>4. Scalars
      BY <1>2, <1>3, <2>1, <2>2, <2>3 DEF Scalars
    <2>5. ImporterOK'
      <3>1. 1..NumCols \subseteq 0..NumCols /\ 1 >= 1
        OBVIOUS
      <3> QED
        BY <1>1, <1>3, <2>1, <2>2, <2>3, <3>1 DEF ImporterOK, Running
    <2> QED
      BY <1>1, <2>1, <2>4, <2>5, Assembled
  <1> QED
    BY <1>4, <1>5

(* So does another program.                                                *)
LEMMA ConsumerPullsStep == ASSUME IInv, ConsumerPulls PROVE IInv'
  <1>1. /\ ~library /\ UNCHANGED <<mode, library, shape, schema, importer, column>>
        /\ GetNext \/ ProducerFails
    BY DEF ConsumerPulls
  <1>2. ImporterOK'
    BY <1>1, Idle
  <1>3. /\ schema' \in {"none", "live", "released", "dropped"}
        /\ importer' \in [pc: {"start", "pull", "take", "parent", "schema", "stream", "done", "panicked"},
                          batch: 0..NumBatches, col: 0..NumCols]
    BY <1>1 DEF IInv, TypeOK
  <1>4. CASE ProducerFails \/ (GetNext /\ AtEnd)
    <2>1. UNCHANGED array /\ (stream' = stream \/ stream' = [stream EXCEPT !.error = TRUE])
      BY <1>4, GetNextCases DEF ProducerFails
    <2>2. /\ stream' \in [state: {"open", "released"}, cursor: 0..NumBatches, error: BOOLEAN]
          /\ stream'.cursor = stream.cursor
      BY <2>1, Parts
    <2> QED
      BY <1>1, <1>2, <1>3, <2>1, <2>2, CoreKept, Assembled DEF Scalars
  <1>5. CASE GetNext /\ ~AtEnd
    BY <1>1, <1>2, <1>3, <1>5, NextArrays, Assembled DEF Scalars
  <1> QED
    BY <1>1, <1>4, <1>5

(* Steps on the schema, the stream and the loop alone.                     *)
LEMMA QuietStep ==
  ASSUME IInv,
         \/ ReleaseSchema \/ ConsumerGetsSchema \/ ConsumerReleasesStream
         \/ ImportSchema \/ ImportReleaseSchema \/ ImportReleaseStream
  PROVE  IInv'
  <1>1. UNCHANGED <<mode, library, shape, array, column>>
    BY DEF ReleaseSchema, ConsumerGetsSchema, ConsumerReleasesStream, ImportSchema,
           ImportReleaseSchema, ImportReleaseStream, StreamRelease
  <1>2. stream' = stream \/ stream' = [stream EXCEPT !.state = "released"]
    BY DEF ReleaseSchema, ConsumerGetsSchema, ConsumerReleasesStream, ImportSchema,
           ImportReleaseSchema, ImportReleaseStream, StreamRelease
  <1>3. /\ stream' \in [state: {"open", "released"}, cursor: 0..NumBatches, error: BOOLEAN]
        /\ stream'.cursor = stream.cursor
    BY <1>2, Parts
  <1>4. schema' \in {"none", "live", "released", "dropped"}
    BY DEF IInv, TypeOK, ReleaseSchema, ConsumerGetsSchema, ConsumerReleasesStream, ImportSchema,
           ImportReleaseSchema, ImportReleaseStream, GetSchema
  <1>5. importer' \in [pc: {"start", "pull", "take", "parent", "schema", "stream", "done", "panicked"},
                       batch: 0..NumBatches, col: 0..NumCols] /\ ImporterOK'
    <2>1. CASE ReleaseSchema \/ ConsumerGetsSchema \/ ConsumerReleasesStream
      <3>1. importer' = importer /\ (~library \/ mode \notin Streams)
        BY <2>1, ModesApart DEF ReleaseSchema, ConsumerGetsSchema, ConsumerReleasesStream
      <3>2. ImporterOK'
        BY <1>1, <3>1, Idle
      <3> QED
        BY <3>1, <3>2 DEF IInv, TypeOK
    <2>2. CASE ImportSchema \/ ImportReleaseSchema \/ ImportReleaseStream
      <3>1. \E pc \in {"pull", "stream", "done"} : importer' = [pc |-> pc, batch |-> 0, col |-> 0]
        BY <2>2 DEF ImportSchema, ImportReleaseSchema, ImportReleaseStream, At
      <3>2. Running
        BY <2>2 DEF ImportSchema, ImportReleaseSchema, ImportReleaseStream
      <3>3. 0 \in 0..NumBatches /\ 0 \in 0..NumCols
        OBVIOUS
      <3> QED
        BY <1>1, <3>1, <3>2, <3>3 DEF ImporterOK, Running
    <2> QED
      BY <2>1, <2>2
  <1>6. Scalars
    BY <1>3, <1>4, <1>5 DEF Scalars
  <1> QED
    BY <1>1, <1>3, <1>5, <1>6, CoreKept, Assembled

-----------------------------------------------------------------------------
(* Imported columns                                                        *)

(* Only the number of clones of a column changes.                          *)
LEMMA Recounted ==
  ASSUME IInv, UNCHANGED shape, NEW n \in Column, NEW k \in 0..MaxRefs,
         column' = [column EXCEPT ![n].refs = k]
  PROVE  /\ ColumnOK' /\ ImportedAsDescribed'
         /\ column'[n].refs = k /\ column'[n].borrows = column[n].borrows
         /\ \A m \in Column : m # n => column'[m] = column[m]
  <1>1. /\ column = [m \in Column |-> column[m]]
        /\ column[n] = [refs |-> column[n].refs, rows |-> column[n].rows,
                        borrows |-> column[n].borrows, made |-> column[n].made]
        /\ column[n].borrows \in BOOLEAN /\ column[n].made \in BOOLEAN
    BY DEF IInv, ColumnOK
  <1>2. column'[n] = [column[n] EXCEPT !.refs = k] /\ \A m \in Column : m # n => column'[m] = column[m]
    BY <1>1
  <1>3. /\ column'[n] = [refs |-> column'[n].refs, rows |-> column'[n].rows,
                         borrows |-> column'[n].borrows, made |-> column'[n].made]
        /\ column'[n].refs = k /\ column'[n].rows = column[n].rows
        /\ column'[n].borrows = column[n].borrows /\ column'[n].made = column[n].made
    BY <1>1, <1>2
  <1>4. column' = [m \in Column |-> column'[m]]
    BY <1>1
  <1>5. ColumnOK'
    <2>1. ASSUME NEW m \in Column
          PROVE  /\ column'[m] = [refs |-> column'[m].refs, rows |-> column'[m].rows,
                                  borrows |-> column'[m].borrows, made |-> column'[m].made]
                 /\ column'[m].refs \in 0..MaxRefs
                 /\ column'[m].borrows \in BOOLEAN /\ column'[m].made \in BOOLEAN
      <3>1. CASE m = n
        BY <1>1, <1>3, <3>1
      <3>2. CASE m # n
        BY <1>2, <3>2 DEF IInv, ColumnOK
      <3> QED
        BY <3>1, <3>2
    <2> QED
      BY <1>4, <2>1 DEF ColumnOK
  <1>6. ImportedAsDescribed'
    <2>1. ImportedAsDescribed
      BY DEF IInv
    <2>2. \A m \in Column : column'[m].rows = column[m].rows /\ column'[m].made = column[m].made
      BY <1>2, <1>3
    <2> QED
      BY <2>1, <2>2 DEF ImportedAsDescribed
  <1> QED
    BY <1>2, <1>3, <1>5, <1>6

(* A clone of a column alive is one more borrower.                         *)
LEMMA CloneColumnStep == ASSUME IInv, NEW n \in Column, CloneColumn(n) PROVE IInv'
  <1> DEFINE k == column[n].refs + 1
  <1>1. /\ UNCHANGED <<mode, library, shape, array, schema, stream, importer>>
        /\ column[n].refs \in 1..(MaxRefs - 1)
        /\ column' = [column EXCEPT ![n].refs = k]
    BY DEF CloneColumn
  <1>2. k \in 0..MaxRefs /\ k > 0 /\ column[n].refs > 0
    BY <1>1
  <1> HIDE DEF k
  <1>3. /\ ColumnOK' /\ ImportedAsDescribed'
        /\ column'[n].refs = k /\ column'[n].borrows = column[n].borrows
        /\ \A m \in Column : m # n => column'[m] = column[m]
    BY <1>1, <1>2, Recounted
  <1>4. BoxesOK'
    <2>1. \A m \in Column : column'[m].refs > 0 /\ column'[m].borrows <=> column[m].refs > 0 /\ column[m].borrows
      BY <1>2, <1>3
    <2> QED
      BY <1>1, <2>1 DEF IInv, BoxesOK
  <1>5. array' \in [Node -> Array] /\ \A m \in Node : OnePlace(array'[m])
    BY <1>1, Parts
  <1>6. Core'
    BY <1>1, <1>3, <1>4, <1>5, CoreFromParts
  <1>7. Scalars
    BY <1>1, ScalarsKept
  <1>8. ImporterOK'
    BY <1>1 DEF IInv, ImporterOK, Running
  <1> QED
    BY <1>1, <1>5, <1>6, <1>7, <1>8, Assembled

(* The last clone of a borrowing column calls the callback.                *)
LEMMA DropColumnStep == ASSUME IInv, NEW n \in Column, DropColumn(n) PROVE IInv'
  <1> DEFINE k == column[n].refs - 1
  <1>1. /\ UNCHANGED <<mode, library, shape, schema, stream, importer>>
        /\ importer.pc \in {"start", "done"} /\ column[n].refs > 0
        /\ column' = [column EXCEPT ![n].refs = k]
        /\ array' = IF column[n].refs = 1 /\ column[n].borrows
                    THEN [array EXCEPT ![n] = DropForeign(n, @)] ELSE array
    BY DEF DropColumn, Returned
  <1>2. column[n].refs \in 0..MaxRefs
    BY DEF IInv, ColumnOK
  <1>3. k \in 0..MaxRefs /\ (k > 0 <=> column[n].refs # 1)
    BY <1>1, <1>2
  <1> HIDE DEF k
  <1>4. /\ ColumnOK' /\ ImportedAsDescribed'
        /\ column'[n].refs = k /\ column'[n].borrows = column[n].borrows
        /\ \A m \in Column : m # n => column'[m] = column[m]
    BY <1>1, <1>3, Recounted
  <1>5. n \in Node
    BY NodeShape
  <1>6. /\ array \in [Node -> Array]
        /\ \A m \in Node : array[m] \in Array /\ OnePlace(array[m])
        /\ array[n].box = "held" <=> column[n].refs > 0 /\ column[n].borrows
    BY Parts
  <1>7. /\ array' \in [Node -> Array]
        /\ OnePlace(array'[n]) /\ array'[n].slot = array[n].slot
        /\ array'[n].box # "none" => array[n].box # "none"
        /\ array'[n].box = "held" <=> array[n].box = "held" /\ column[n].refs # 1
        /\ \A m \in Node : m # n => array'[m] = array[m]
    <2>1. CASE column[n].refs = 1 /\ column[n].borrows
      <3>1. array' = [array EXCEPT ![n] = DropForeign(n, array[n])]
        BY <1>1, <2>1
      <3>2. /\ DropForeign(n, array[n]) \in Array /\ OnePlace(DropForeign(n, array[n]))
            /\ DropForeign(n, array[n]).slot = array[n].slot
            /\ DropForeign(n, array[n]).box = (IF array[n].box = "held" THEN "none" ELSE array[n].box)
        BY <1>5, <1>6, DroppedOnce
      <3>3. array'[n] = DropForeign(n, array[n])
        BY <1>5, <1>6, <3>1
      <3>4. array' \in [Node -> Array] /\ \A m \in Node : m # n => array'[m] = array[m]
        BY <1>6, <3>1, <3>2
      <3> QED
        BY <2>1, <3>2, <3>3, <3>4
    <2>2. CASE ~(column[n].refs = 1 /\ column[n].borrows)
      <3>1. array' = array
        BY <1>1, <2>2
      <3> QED
        BY <1>1, <1>5, <1>6, <2>2, <3>1
    <2> QED
      BY <2>1, <2>2
  <1>8. BoxesOK'
    <2>1. \A m \in Node : array'[m].box # "none" => m[2] > 0 /\ library
      BY <1>5, <1>7, Parts
    <2>2. ASSUME NEW m \in Column
          PROVE  array'[m].box = "held" <=> column'[m].refs > 0 /\ column'[m].borrows
      <3>1. CASE m = n
        BY <1>1, <1>3, <1>4, <1>6, <1>7, <3>1
      <3>2. CASE m # n
        BY <1>4, <1>7, <3>2, Parts, NodeShape
      <3> QED
        BY <3>1, <3>2
    <2> QED
      BY <1>1, <2>1, <2>2 DEF BoxesOK
  <1>9. \A m \in Node : OnePlace(array'[m]) /\ array'[m].slot = array[m].slot
    BY <1>5, <1>6, <1>7
  <1>10. Core'
    BY <1>1, <1>4, <1>8, <1>9, CoreFromParts
  <1>11. Scalars
    BY <1>1, ScalarsKept
  <1>12. ImporterOK'
    BY <1>1 DEF IInv, ImporterOK, Running
  <1> QED
    BY <1>1, <1>7, <1>10, <1>11, <1>12, Assembled

-----------------------------------------------------------------------------
(* The theorems                                                            *)

(* Every step keeps the invariant.                                         *)
LEMMA NextInv == IInv /\ [Next]_vars => IInv'
  <1> SUFFICES ASSUME IInv, [Next]_vars PROVE IInv'
    OBVIOUS
  <1>1. CASE Exporting
    BY <1>1, ExportingStep
  <1>2. CASE Importing
    BY <1>2, ImportFromCStep, ImportFromCOwnedStep, ImportTakeStep, ImportPullStep,
       ImportParentStep, ImportFailsStep, ImportUnsupportedStep, QuietStep DEF Importing
  <1>3. CASE Consuming
    BY <1>3, ReleaseArrayStep, ConsumerPullsStep, QuietStep DEF Consuming
  <1>4. CASE Using
    BY <1>4, CloneColumnStep, DropColumnStep DEF Using
  <1>5. CASE UNCHANGED vars
    <2>1. UNCHANGED <<mode, library, shape, array, schema, stream, importer, column>>
      BY <1>5 DEF vars
    <2>2. Scalars
      BY <2>1, ScalarsKept
    <2>3. ImporterOK'
      BY <2>1 DEF IInv, ImporterOK, Running
    <2> QED
      BY <2>1, <2>2, <2>3, CoreKept, Assembled
  <1> QED
    BY <1>1, <1>2, <1>3, <1>4, <1>5 DEF Next

(* The invariant holds in every reachable state.                           *)
LEMMA Invariance == Spec => []IInv
  BY InitInv, NextInv, PTL DEF Spec

(* A callback that was not called yet is in the exported slot or in the    *)
(* box of an importer, which may have dropped it uncalled, never in both,  *)
(* with nothing given back; one that was called is in neither, and gave    *)
(* back the array once, with the dictionary of a foreign producer's        *)
(* column; and a box is held as long as a clone of a borrowing column is   *)
(* alive, no longer (arrow_c_ffi.rs:204-241).                              *)
THEOREM CallbackInOnePlace == Spec => [](TypeOK /\ PlacesOK /\ BoxesOK)
  <1>1. IInv => TypeOK /\ PlacesOK /\ BoxesOK
    BY DEF IInv
  <1> QED
    BY <1>1, Invariance, PTL

(* Whatever is exported, imported, stolen, cloned, dropped, released or    *)
(* left half-way by a panic, an array's memory and a foreign dictionary's  *)
(* are given back at most once (arrow_c_ffi.rs:204-241, 3240-3283).        *)
THEOREM CallbacksRunOnce == Spec => []ReleasedOnce
  <1>1. IInv => ReleasedOnce
    <2> SUFFICES ASSUME IInv, NEW n \in Node PROVE array[n].freed <= 1 /\ array[n].dict <= 1
      BY DEF ReleasedOnce
    <2>1. array[n] \in Array /\ OnePlace(array[n])
      BY Parts
    <2>2. /\ array[n].slot \in {"unborn", "set", "empty"}
          /\ array[n].box \in {"none", "held", "lost"}
      BY <2>1 DEF Array
    <2> QED
      BY <2>1, <2>2 DEF OnePlace
  <1> QED
    BY <1>1, Invariance, PTL

(* A column that borrows an exported array keeps its memory in place, and  *)
(* is the only holder of its callback (arrow_c_ffi.rs:211-241).            *)
THEOREM BorrowersAreSafe == Spec => []BorrowersHoldTheCallback
  <1>1. IInv => BorrowersHoldTheCallback
    <2> SUFFICES ASSUME IInv, NEW n \in Column, column[n].refs > 0, column[n].borrows
                 PROVE  /\ array[n].freed = 0 /\ array[n].box = "held"
                        /\ array[n].slot = "empty"
      BY DEF BorrowersHoldTheCallback
    <2> QED
      BY Parts, NodeShape DEF OnePlace
  <1> QED
    BY <1>1, Invariance, PTL

(* When everybody has let go, only the boxes the importer drops uncalled   *)
(* and the dictionary children of this library's own exports are left      *)
(* (arrow_c_ffi.rs:250-256).                                               *)
THEOREM OnlyNamedLeaks == Spec => []NothingElseLeaks
  <1>1. IInv => NothingElseLeaks
    <2> SUFFICES ASSUME IInv, Settled, NEW n \in Node, array[n].slot # "unborn", n \notin DroppedBoxes
                 PROVE  /\ array[n].freed = 1
                        /\ array[n].child /\ mode \in Foreign => array[n].dict = 1
      BY DEF NothingElseLeaks
    <2>1. array[n] \in Array /\ OnePlace(array[n])
      BY Parts
    <2>2. array[n].slot = "empty"
      BY <2>1 DEF Settled, Array
    <2>3. array[n].box = "none"
      <3>1. array[n].box \in {"none", "held", "lost"}
        BY <2>1 DEF Array
      <3>2. ASSUME array[n].box # "none" PROVE FALSE
        <4>1. n[2] > 0 /\ library
          BY <3>2, Parts
        <4>2. n \in Column
          BY <4>1 DEF Column
        <4>3. array[n].box # "held"
          <5>1. column[n].refs = 0
            BY <4>2 DEF Settled
          <5> QED
            BY <4>2, <5>1, Parts
        <4> QED
          BY <3>1, <3>2, <4>1, <4>2, <4>3 DEF DroppedBoxes
      <3> QED
        BY <3>2
    <2> QED
      BY <2>1, <2>2, <2>3 DEF OnePlace
  <1> QED
    BY <1>1, Invariance, PTL

(* A column has the rows its producer described, at every offset, borrowed *)
(* or copied, a text view array with an offset excepted                    *)
(* (arrow_c_ffi.rs:1484-1486).                                             *)
THEOREM RowsAsDescribed == Spec => []ImportedAsDescribed
  <1>1. IInv => ImportedAsDescribed
    BY DEF IInv
  <1> QED
    BY <1>1, Invariance, PTL
=============================================================================
