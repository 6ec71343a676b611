------------------------------- MODULE Chunks -------------------------------
(***************************************************************************)
(* SuperArray (structs/chunked/super_array.rs), a column in chunks, and    *)
(* its view; the category manager that keeps the dictionaries of           *)
(* categorical chunks together in builds with shared_dict.                 *)
(*                                                                         *)
(* A super array is [chunks, field, counts, manager]: field is <<>> or     *)
(* <<field>>, counts <<>> or <<the null counts>>, manager <<>> or          *)
(* <<dictionary>>.  A field is [name, type, nullable, meta]; a field array *)
(* is [field, array, nulls].                                               *)
(***************************************************************************)
EXTENDS Arena

-----------------------------------------------------------------------------
(* ArrayV (structs/views/array_view.rs): a window of n rows of an array,   *)
(* from row offset + 1, with the number of its nulls once somebody has     *)
(* asked for it, or has said it; gathers of rows; and the consolidation of *)
(* windows into one array (traits/consolidate.rs and the variants).        *)
(*                                                                         *)
(* A view is [array, offset, n, counted]; counted is <<>> or <<count>>.    *)
(* shared says whether the build shares dictionaries (shared_dict).        *)

View(array, offset, n)          == [array |-> array, offset |-> offset, n |-> n, counted |-> <<>>]
ViewCounted(array, offset, n, nulls) == [View(array, offset, n) EXCEPT !.counted = <<nulls>>]

Zeros(bits) == Len(SelectSeq(bits, LAMBDA bit : ~bit))
NullCount(a) == IF a.masked THEN Zeros(a.mask) ELSE 0

Whole(a)           == ViewCounted(a, 0, Length(a), NullCount(a))
WholeOfField(f)    == ViewCounted(f.array, 0, Length(f.array), f.nulls)
Spans(v)           == v.offset = 0 /\ v.n = Length(v.array)
Narrowed(v, offset, n) == View(v.array, v.offset + offset, n)
ViewRows(v)        == Fixed!Window(Rows(v.array), v.offset, v.n)
ToArray(v)         == IF Spans(v) THEN v.array ELSE Sliced(v.array, v.offset, v.n)

(* null_count counts once; has_nulls takes the count as it is. *)
Counted(v) ==
  IF v.counted # <<>> THEN v
  ELSE [v EXCEPT !.counted = <<IF v.array.masked THEN Zeros(Fixed!Window(v.array.mask, v.offset, v.n)) ELSE 0>>]
ViewNulls(v) == Counted(v).counted[1]
-----------------------------------------------------------------------------
(* gather_indices and gather_indices_padded: the rows of a window in the   *)
(* order of rows, a sequence of row numbers of the window; number 0 pads   *)
(* with a null.                                                            *)
At(v, s, rows, none) == [i \in DOMAIN rows |-> IF rows[i] = 0 THEN none ELSE s[v.offset + rows[i]]]
GatherNulls(v, rows, padded) ==
  LET bits == At(v, IF v.array.masked THEN v.array.mask ELSE Fixed!All(Length(v.array), TRUE), rows, FALSE)
  IN  IF padded \/ v.array.masked THEN Fixed!Masked(v.array, bits) ELSE v.array

GatherFixed(v, rows, padded) == [GatherNulls(v, rows, padded) EXCEPT !.data = At(v, v.array.data, rows, 0)]
GatherBoolean(v, rows, padded) ==
  [GatherNulls(v, rows, padded) EXCEPT !.data = At(v, v.array.data, rows, FALSE), !.len = Len(rows)]

(* An array of its own dictionary keeps the values that were gathered. *)
GatherCategorical(shared, v, rows, padded) ==
  IF shared THEN GatherFixed(v, rows, padded) ELSE Cat!CompactDict(GatherFixed(v, rows, padded))

(* Strings: an empty one for every null, and a mask only if there is one. *)
GatherText(v, rows) ==
  LET isNull(i) == rows[i] = 0 \/ (rows[i] # 0 /\ Text!IsNull(v.array, v.offset + rows[i]))
      texts == [i \in DOMAIN rows |-> IF isNull(i) THEN <<>> ELSE Text!Value(v.array, v.offset + rows[i])[2]]
      strings == Text!Strings(Fixed!Unmasked(v.array), FlattenSeq(texts), <<0>> \o Text!EndsFrom(0, texts))
  IN  IF \E i \in DOMAIN rows : isNull(i)
      THEN Fixed!Masked(strings, [i \in DOMAIN rows |-> ~isNull(i)]) ELSE strings

Gathered(shared, v, rows, padded) ==
  Pick(v.array, GatherFixed(v, rows, padded), GatherBoolean(v, rows, padded), GatherText(v, rows),
       GatherCategorical(shared, v, rows, padded))
GatherIndices(shared, v, rows) == Gathered(shared, v, rows, FALSE)
GatherPadded(shared, v, rows)  == Gathered(shared, v, rows, TRUE)

(* gather_mask walks the mask 64 bits at a time; the rows stay in order. *)
RowsOfMask(bits) == SelectSeq([i \in DOMAIN bits |-> i], LAMBDA i : bits[i])
GatherMask(shared, v, bits) == Gathered(shared, v, RowsOfMask(bits), FALSE)
-----------------------------------------------------------------------------
(* extend_null_mask and the typed consolidations of windows: the first     *)
(* array's type, a mask if any array has one.                              *)
JoinedMask(views) ==
  FlattenSeq([i \in DOMAIN views |->
                IF views[i].array.masked THEN Fixed!Window(views[i].array.mask, views[i].offset, views[i].n)
                ELSE Fixed!All(views[i].n, TRUE)])
JoinedNulls(views) ==
  IF \E i \in DOMAIN views : views[i].array.masked
  THEN Fixed!Masked(views[1].array, JoinedMask(views)) ELSE Fixed!Unmasked(views[1].array)
JoinedData(views) ==
  FlattenSeq([i \in DOMAIN views |-> Fixed!Window(views[i].array.data, views[i].offset, views[i].n)])

JoinedFixed(views) == [JoinedNulls(views) EXCEPT !.data = JoinedData(views)]
JoinedBoolean(views) == [JoinedFixed(views) EXCEPT !.len = Len(JoinedData(views))]
JoinedText(views) ==
  LET own == [i \in DOMAIN views |-> Sliced(views[i].array, views[i].offset, views[i].n)]
      base[i \in 1..Len(own) + 1] == IF i = 1 THEN 0 ELSE base[i - 1] + Len(own[i - 1].data)
  IN  [JoinedNulls(views) EXCEPT
         !.data = FlattenSeq([i \in DOMAIN own |-> own[i].data]),
         !.offsets = <<0>> \o FlattenSeq([i \in DOMAIN own |-> Text!Shifted(Tail(own[i].offsets), base[i])])]

(* Codes go over as they are when all arrays share one dictionary; else    *)
(* the arrays are concatenated one by one.                                 *)
JoinedCategorical(shared, views) ==
  LET cut(i) == Cat!SliceClone(views[i].array, views[i].offset, views[i].n)
      upTo[i \in DOMAIN views] == IF i = 1 THEN cut(1) ELSE Cat!Concat(upTo[i - 1], cut(i))
  IN  IF shared /\ \A i \in DOMAIN views : views[i].array.dict = views[1].array.dict
      THEN JoinedFixed(views) ELSE upTo[Len(views)]

(* The consolidation of a Vec<ArrayVT>. *)
Joined(shared, views) ==
  Pick(views[1].array, JoinedFixed(views), JoinedBoolean(views), JoinedText(views),
       JoinedCategorical(shared, views))

-----------------------------------------------------------------------------
(* Columns in chunks.                                                      *)

CONSTANT Capacity   \* categories a dictionary can hold, by the width of its codes

TypeOf(a) == <<a.kind, a.unit>>
NewField(name, a, meta) == [name |-> name, type |-> TypeOf(a), nullable |-> a.masked, meta |-> meta]
FieldArrayOf(field, a)  == [field |-> field, array |-> a, nulls |-> NullCount(a)]
Agree(f, g) == f.name = g.name /\ f.type = g.type /\ f.nullable = g.nullable
ArraysOf(fields) == [i \in DOMAIN fields |-> fields[i].array]
-----------------------------------------------------------------------------
UsedValues(a) ==
  LET valued == SelectSeq([i \in 1..Length(a) |-> i], LAMBDA i : ~Cat!IsNull(a, i))
  IN  [i \in DOMAIN valued |-> Cat!Value(a, valued[i])[2]]
UpTo(n, s) == SubSeq(s, 1, IF n < Len(s) THEN n ELSE Len(s))

(* add_remap_cat: the values that the chunk uses are interned and its      *)
(* codes rewritten, or, when the dictionary is full, the chunk keeps its   *)
(* own and what was interned until then stays.                             *)
Recoded(dict, a) ==
  [a EXCEPT !.dict = dict,
            !.data = [i \in DOMAIN @ |-> IF Cat!IsNull(a, i) THEN @[i] ELSE Cat!Code(dict, Cat!Value(a, i)[2])]]
KeptApart(manager, a) == [manager |-> IF manager = <<>> THEN <<a.dict>> ELSE manager, array |-> a] \* a mutant: no recoding
Merged(manager, a) == UpTo(Capacity, Cat!InternedAll(manager[1], UsedValues(a)))
TryRecoded(dict, a) ==
  [manager |-> <<dict>>, array |-> IF ToSet(UsedValues(a)) \subseteq ToSet(dict) THEN Recoded(dict, a) ELSE a]
AddRemap(manager, a) ==
  CASE manager = <<>>      -> [manager |-> <<a.dict>>, array |-> a]
    [] manager = <<a.dict>> -> [manager |-> manager, array |-> a]
    [] OTHER -> TryRecoded(Merged(manager, a), a)

Extended(before, one) == [manager |-> one.manager, arrays |-> Append(before.arrays, one.array)]
AddedTo(before, a) ==
  Extended(before, IF a.kind = "categorical" THEN AddRemap(before.manager, a)
                   ELSE [manager |-> before.manager, array |-> a])
AddRemapAll(shared, manager, arrays) ==
  LET after[i \in 0..Len(arrays)] ==
        IF i = 0 THEN [manager |-> manager, arrays |-> <<>>] ELSE AddedTo(after[i - 1], arrays[i])
  IN  IF shared THEN after[Len(arrays)] ELSE [manager |-> manager, arrays |-> arrays]

(* The chunks of a manager hold one dictionary: what is interned for a     *)
(* later chunk is in the earlier ones' too, and changes no code of theirs. *)
OfManager(manager, a) ==
  IF manager # <<>> /\ a.kind = "categorical" /\ IsPrefix(a.dict, manager[1]) THEN [a EXCEPT !.dict = manager[1]] ELSE a
AllOfManager(manager, arrays) == [i \in DOMAIN arrays |-> OfManager(manager, arrays[i])]

(* Array::concat fails when the merged dictionary would be too large.      *)
ConcatFails(shared, a, o) ==
  /\ a.kind = "categorical" /\ Length(o) > 0 /\ ~Cat!CodesStay(a, o)
  /\ shared /\ Len(Cat!InternedAll(a.dict, o.dict)) > Capacity
InsertFails(shared, a, o) ==
  /\ a.kind = "categorical" /\ Length(o) > 0
  /\ shared /\ Len(Cat!InternedAll(a.dict, o.dict)) > Capacity
ChunkLoop == INSTANCE Rechunk
  WITH LenOf <- Length, Halved <- Halves, Join <- Concatenated, CannotJoin <- ConcatFails
-----------------------------------------------------------------------------
NoSuperArray == [chunks |-> <<>>, field |-> <<>>, counts |-> <<>>, manager |-> <<>>]
Managed(all, field, counts) ==
  [chunks |-> AllOfManager(all.manager, all.arrays), field |-> field, counts |-> counts, manager |-> all.manager]
Rebuilt(shared, chunks, field, counts) == Managed(AddRemapAll(shared, <<>>, chunks), field, counts)

SuperLength(sa) == RowsOf(sa.chunks)
SuperType(sa) == IF sa.field # <<>> THEN sa.field[1].type ELSE TypeOf(sa.chunks[1])
OneType(chunks) == \A i \in DOMAIN chunks : TypeOf(chunks[i]) = TypeOf(chunks[1])

FromArrays(shared, arrays)              == Rebuilt(shared, arrays, <<>>, <<>>)
FromArraysWithField(shared, arrays, f)  == Rebuilt(shared, arrays, <<f>>, <<>>)
FromArraysCounted(shared, arrays, nulls) == Rebuilt(shared, arrays, <<>>, <<nulls>>)
FromFieldArrays(shared, fields) ==
  Rebuilt(shared, ArraysOf(fields), <<fields[1].field>>, <<[i \in DOMAIN fields |-> fields[i].nulls]>>)
FromSlices(shared, views, f) ==
  Rebuilt(shared, [i \in DOMAIN views |-> Sliced(views[i].array, views[i].offset, views[i].n)], <<f>>,
          <<[i \in DOMAIN views |-> ViewNulls(views[i])]>>)

Added(shared, sa, a, counts) ==
  LET one == AddRemapAll(shared, sa.manager, <<a>>)
  IN  [sa EXCEPT !.chunks = AllOfManager(one.manager, @ \o one.arrays), !.manager = one.manager, !.counts = counts]
(* push counts the nulls only if the chunks before it are counted; the two *)
(* that are given a count begin to, whatever is there already.             *)
CountedToo(sa, nulls) == <<(IF sa.counts = <<>> THEN <<>> ELSE sa.counts[1]) \o <<nulls>>>>
Push(shared, sa, a) ==
  Added(shared, sa, a, IF sa.counts = <<>> THEN <<>> ELSE CountedToo(sa, NullCount(a)))
PushWithNullCount(shared, sa, a, nulls) == Added(shared, sa, a, CountedToo(sa, nulls))
PushFieldArray(shared, sa, f) ==
  [Added(shared, sa, f.array, CountedToo(sa, f.nulls)) EXCEPT
     !.field = IF @ = <<>> THEN <<f.field>> ELSE @]

(* insert_rows brings other chunks in as they are, with their own          *)
(* dictionaries, and drops the counts.                                     *)
SuperInserted(sa, at, o) ==
  CASE SuperLength(o) = 0 -> sa
    [] SuperLength(o) > 0 /\ sa.chunks = <<>> ->
         [sa EXCEPT !.chunks = o.chunks, !.field = o.field, !.counts = o.counts]
    [] OTHER -> [sa EXCEPT !.chunks = ChunkLoop!Inserted(@, at, o.chunks), !.counts = <<>>]

SuperRechunked(shared, sa, size) ==
  IF SuperLength(sa) = 0 \/ (Len(sa.chunks) = 1 /\ Length(sa.chunks[1]) = size) THEN sa
  ELSE LET new == ChunkLoop!Rechunked(shared, sa.chunks, size)
       IN  [sa EXCEPT !.chunks = new.pieces, !.counts = IF new.failed THEN @ ELSE <<>>]
SuperRechunkFails(shared, sa, size) ==
  SuperLength(sa) > 0 /\ ChunkLoop!Rechunked(shared, sa.chunks, size).failed

(* rechunk_to works on a super array of the front; if that fails only the  *)
(* chunks behind the position are left.                                    *)
SuperRechunkedTo(shared, sa, upTo, size) ==
  LET cut == ChunkLoop!CutAt(sa.chunks, upTo)
      front == SuperRechunked(shared, FromArrays(shared, cut.front), size)
  IN  CASE upTo = 0 \/ sa.chunks = <<>> -> sa
        [] upTo = SuperLength(sa) -> SuperRechunked(shared, sa, size)
        [] OTHER -> [sa EXCEPT !.chunks = front.chunks \o cut.behind,
                               !.counts = IF front.chunks = <<>> THEN @ ELSE <<>>]

SuperRechunkToFails(shared, sa, upTo, size) ==
  CASE upTo = 0 \/ sa.chunks = <<>> -> FALSE
    [] upTo = SuperLength(sa) -> SuperRechunkFails(shared, sa, size)
    [] OTHER -> SuperRechunkFails(shared, FromArrays(shared, ChunkLoop!CutAt(sa.chunks, upTo).front), size)

SuperConcat(shared, sa, o) ==
  CASE sa.chunks = <<>> -> IF o.chunks = <<>> THEN NoSuperArray ELSE o
    [] sa.chunks # <<>> /\ o.chunks = <<>> -> sa
    [] OTHER -> Rebuilt(shared, sa.chunks \o o.chunks, IF sa.field # <<>> THEN sa.field ELSE o.field,
                        IF sa.counts = <<>> \/ o.counts = <<>> THEN <<>> ELSE <<sa.counts[1] \o o.counts[1]>>)

(* consolidate: through an arena or by concatenation, by the build.        *)
ConcatenatedAll(chunks) ==
  LET upTo[i \in DOMAIN chunks] == IF i = 1 THEN chunks[1] ELSE Concatenated(upTo[i - 1], chunks[i])
  IN  upTo[Len(chunks)]
ConsolidatedChunks(arena, chunks) ==
  IF arena /\ Len(chunks) > 1 THEN ConsolidatedArray(chunks) ELSE ConcatenatedAll(chunks)
ConcatAllFails(shared, chunks) ==
  LET upTo[i \in DOMAIN chunks] == IF i = 1 THEN chunks[1] ELSE Concatenated(upTo[i - 1], chunks[i])
  IN  \E i \in 2..Len(chunks) : ConcatFails(shared, upTo[i - 1], chunks[i])
-----------------------------------------------------------------------------
(* SuperArrayV: the windows of the chunks, [views, field, n]; of no rows   *)
(* an empty window of the chunk at the offset, if there is one.            *)
Windows(lengths, offset, n) ==
  LET start[i \in 1..Len(lengths)] == IF i = 1 THEN 0 ELSE start[i - 1] + lengths[i - 1]
      from(i) == IF offset > start[i] THEN offset - start[i] ELSE 0
      to(i) == IF offset + n - start[i] < lengths[i] THEN offset + n - start[i] ELSE lengths[i]
      holds(i) == start[i] <= offset /\ offset < start[i] + lengths[i]
      hit == SelectSeq([i \in DOMAIN lengths |-> i], LAMBDA i : IF n = 0 THEN holds(i) ELSE from(i) < to(i))
  IN  [k \in DOMAIN hit |-> [piece |-> hit[k], offset |-> from(hit[k]), n |-> to(hit[k]) - from(hit[k])]]
LengthsOf(arrays) == [i \in DOMAIN arrays |-> Length(arrays[i])]
SuperView(sa, offset, n) ==
  LET cut == Windows(LengthsOf(sa.chunks), offset, n)
  IN  [views |-> [k \in DOMAIN cut |-> View(sa.chunks[cut[k].piece], cut[k].offset, cut[k].n)],
       field |-> sa.field, n |-> n]
SuperViewSlice(v, offset, n) ==
  LET cut == Windows([i \in DOMAIN v.views |-> v.views[i].n], offset, n)
  IN  [v EXCEPT !.views = [k \in DOMAIN cut |-> Narrowed(@[cut[k].piece], cut[k].offset, cut[k].n)], !.n = n]
(* locate and row_slice: the window that holds the row. *)
ViewedRow(v, row) ==
  LET start[i \in 1..Len(v.views) + 1] == IF i = 1 THEN 0 ELSE start[i - 1] + v.views[i - 1].n
      i == CHOOSE j \in DOMAIN v.views : start[j] < row /\ row <= start[j + 1]
  IN  Narrowed(v.views[i], row - 1 - start[i], 1)
SuperViewJoined(v, w) ==
  CASE v.views = <<>> -> w
    [] v.views # <<>> /\ w.views = <<>> -> v
    [] OTHER -> [views |-> v.views \o w.views, field |-> IF v.field # <<>> THEN v.field ELSE w.field, n |-> v.n + w.n]

(* consolidate takes windows that follow each other in arrays of the same  *)
(* length for windows of one array, and returns it when they cover it.     *)
TakenForOne(views) ==
  LET n == Length(views[1].array)
      ends == [i \in DOMAIN views |-> views[i].offset + views[i].n]
  IN  \/ Len(views) = 1 /\ Spans(views[1])
      \/ /\ Len(views) > 1 /\ views[1].offset = 0 /\ ends[Len(views)] = n
         /\ \A i \in 2..Len(views) : Length(views[i].array) = n /\ views[i].offset = ends[i - 1]
ConsolidatedView(shared, v) ==
  IF TakenForOne(v.views) THEN v.views[1].array ELSE Joined(shared, v.views)

FromSuperView(shared, v) ==
  LET arrays == [i \in DOMAIN v.views |-> ToArray(v.views[i])]
  IN  IF v.field = <<>> THEN FromArrays(shared, arrays) ELSE FromArraysWithField(shared, arrays, v.field[1])
=============================================================================
