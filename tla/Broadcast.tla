------------------------------ MODULE Broadcast ------------------------------
(***************************************************************************)
(* broadcast_value (kernels/broadcast): arithmetic between any two values, *)
(* by the kinds of the two, down to the elementwise operation they all end *)
(* in (kernels/routing).  A container is a tuple of its kind and its parts,*)
(* which are containers again: the columns of a table are arrays, those of *)
(* its view are array views.  A cell is a term: an input, or               *)
(* <<op, left, right>>.                                                    *)
(***************************************************************************)
EXTENDS Integers, Sequences, SequencesExt

Error == <<"error">>
Panic == <<"panic">>
Failed(v) == v \in {Error, Panic}

Array(cells) == <<"array", cells>>
View(cells, offset, len) == <<"arrayview", cells, offset, len>>

(* ArrayV::new *)
NewView(cells, offset, len) ==
  IF offset + len <= Len(cells) THEN View(cells, offset, len) ELSE Panic

AsView(a) == IF a[1] \in {"array", "field"} THEN View(a[2], 0, Len(a[2])) ELSE View(a[2], a[3], a[4])
Size(a) == AsView(a)[4]
CellsOf(a) == LET v == AsView(a) IN SubSeq(v[2], v[3] + 1, v[3] + v[4])

(* ArrayV::slice, TableV::from_table, TableV::from_self *)
SliceView(v, offset, len) == IF offset + len <= v[4] THEN View(v[2], v[3] + offset, len) ELSE Panic
Rows(t) == IF t[1] = "tableview" THEN t[4] ELSE IF t[2] = <<>> THEN 0 ELSE Size(t[2][1])

(* The first part that failed is what the whole call returns. *)
Wrapped(kind, parts) ==
  LET failed == {i \in DOMAIN parts : Failed(parts[i])}
  IN  IF failed = {} THEN <<kind, parts>>
      ELSE parts[CHOOSE i \in failed : \A j \in failed : i <= j]

FromTable(t, offset, len) ==
  IF Failed(t) THEN t
  ELSE LET cols == Wrapped("cols", [c \in DOMAIN t[2] |-> NewView(t[2][c][2], offset, len)])
       IN  IF Failed(cols) THEN cols ELSE <<"tableview", cols[2], offset, len>>
FromSelf(v, offset, len) ==
  IF offset + len > v[4] THEN Panic
  ELSE <<"tableview", [c \in DOMAIN v[2] |-> View(v[2][c][2], v[2][c][3] + offset, len)], v[3] + offset, len>>
ToTable(v) == <<"table", [c \in DOMAIN v[2] |-> Array(CellsOf(v[2][c]))]>>
Whole(t) == FromTable(t, 0, Rows(t))

RECURSIVE Before(_, _)
Before(lens, i) == IF i = 1 THEN 0 ELSE Before(lens, i - 1) + lens[i - 1]
Total(lens) == Before(lens, Len(lens) + 1)
Sizes(arrays) == [i \in DOMAIN arrays |-> Size(arrays[i])]
Lengths(tables) == [i \in DOMAIN tables |-> Rows(tables[i])]
SuperView(slices, len) == LET s == Wrapped("supertableview", slices) IN IF Failed(s) THEN s ELSE Append(s, len)

-----------------------------------------------------------------------------
(* routing/broadcast.rs and routing/arithmetic.rs *)

(* The cell that is repeated is the first one of the array, wherever the *)
(* view of it begins.                                                    *)
BroadcastLength1Array(v, len) == View([i \in 1..len |-> v[2][1]], 0, len)

ArithmeticDispatch(op, l, r) ==
  IF l[4] # r[4] THEN Error
  ELSE Array([i \in 1..l[4] |-> <<op, l[2][l[3] + i], r[2][r[3] + i]>>])

MaybeBroadcast(l, r) ==
  CASE l[4] = r[4]             -> <<l, r>>
    [] l[4] # r[4] /\ l[4] = 1 -> <<BroadcastLength1Array(l, r[4]), r>>
    [] l[4] # 1 /\ r[4] = 1    -> <<l, BroadcastLength1Array(r, l[4])>>
    [] OTHER                   -> Error

ResolveBinaryArithmetic(op, l, r) ==
  LET pair == MaybeBroadcast(AsView(l), AsView(r))
  IN  IF pair = Error THEN Error ELSE ArithmeticDispatch(op, pair[1], pair[2])

(* A chunk of the array under every chunk of the other side. *)
CreateAlignedChunks(a, chunks) ==
  IF Size(a) # Total(Sizes(chunks)) THEN Error
  ELSE <<"superarray", [i \in DOMAIN chunks |->
                          Array(SubSeq(a[2], Before(Sizes(chunks), i) + 1, Before(Sizes(chunks), i + 1)))]>>

(* The left side decides how many chunks there are. *)
RouteSuperArray(op, ls, rs) ==
  Wrapped("superarray",
          [i \in DOMAIN ls |-> IF i > Len(rs) THEN Panic
                               ELSE IF Size(ls[i]) # Size(rs[i]) THEN Error
                               ELSE ResolveBinaryArithmetic(op, ls[i], rs[i])])

(* Tables pair their columns; the row counts are left to each pair. *)
TableWithOperator(op, l, r) ==
  IF Len(l[2]) # Len(r[2]) THEN Error
  ELSE Wrapped("table", [c \in DOMAIN l[2] |-> ResolveBinaryArithmetic(op, l[2][c], r[2][c])])

(* The same for views, whose result is a table without a name. *)
TableViewToTableView(op, l, r) ==
  IF Len(l[2]) # Len(r[2]) THEN Error
  ELSE Wrapped("table", [c \in DOMAIN l[2] |-> ResolveBinaryArithmetic(op, l[2][c], r[2][c])])

(* Batches pair up in order, as tables. *)
AsTable(t) == IF t[1] = "tableview" THEN ToTable(t) ELSE t
SuperTableWithOperator(op, ls, rs) ==
  IF Len(ls) # Len(rs) THEN Error
  ELSE Wrapped("supertable", [b \in DOMAIN ls |-> TableWithOperator(op, AsTable(ls[b]), AsTable(rs[b]))])

(* What is left of the time when only addition was broadcast. *)
TableAdd(l, r) ==
  IF Len(l[2]) # Len(r[2]) \/ Rows(l) # Rows(r) THEN Error
  ELSE Wrapped("table", [c \in DOMAIN l[2] |-> ResolveBinaryArithmetic("add", l[2][c], r[2][c])])
SuperTableAdd(ls, rs) ==
  IF Len(ls) # Len(rs) THEN Error
  ELSE Wrapped("supertable", [b \in DOMAIN ls |-> TableAdd(ls[b], rs[b])])
SuperArrayAdd(ls, rs) == RouteSuperArray("add", ls, rs)
CubeAdd(l, r) ==
  IF Len(l[2]) # Len(r[2]) THEN Error
  ELSE Wrapped("cube", [i \in DOMAIN l[2] |-> TableAdd(l[2][i], r[2][i])])

(* Chunks and batches under one table or array. *)
Materialised(arrays) == Array(FlattenSeq([i \in DOMAIN arrays |-> CellsOf(arrays[i])]))
MaterialisedView(arrays) == Array(FlattenSeq([i \in DOMAIN arrays |-> CellsOf(arrays[i])]))
MergedBatches(batches) ==
  IF batches = <<>> \/ \E b \in DOMAIN batches : Len(batches[b][2]) # Len(batches[1][2]) THEN Error
  ELSE <<"table", [c \in DOMAIN batches[1][2] |-> Materialised([b \in DOMAIN batches |-> batches[b][2][c]])]>>
MergedSlices(slices) == MergedBatches([i \in DOMAIN slices |-> ToTable(slices[i])])

-----------------------------------------------------------------------------
(* The pairs of kinds.                                                     *)

RECURSIVE BroadcastValue(_, _, _)

(* One side against every part of the other, and parts in pairs. *)
Left(op, kind, parts, r)  == Wrapped(kind, [i \in DOMAIN parts |-> BroadcastValue(op, parts[i], r)])
Right(op, kind, l, parts) == Wrapped(kind, [i \in DOMAIN parts |-> BroadcastValue(op, l, parts[i])])
Pairwise(op, kind, ls, rs) == Wrapped(kind, [i \in DOMAIN ls |-> BroadcastValue(op, ls[i], rs[i])])

-----------------------------------------------------------------------------
(* Scalars: <<"scalar", cell, type>> *)

NoArray == {"Null", "Interval"}
ScalarArray(s) == IF s[3] \in NoArray THEN Error ELSE Array(<<s[2]>>)

ScalarToArray(op, s, a) ==
  LET x == ScalarArray(s) IN IF Failed(x) THEN x ELSE ResolveBinaryArithmetic(op, x, a)
ArrayToScalar(op, a, s) ==
  LET x == ScalarArray(s) IN IF Failed(x) THEN x ELSE ResolveBinaryArithmetic(op, a, x)
ScalarToFieldArray(op, s, f) ==
  LET x == ScalarArray(s) IN IF Failed(x) THEN x ELSE ResolveBinaryArithmetic(op, x, f)
FieldArrayToScalar(op, f, s) ==
  LET x == ScalarArray(s) IN IF Failed(x) THEN x ELSE ResolveBinaryArithmetic(op, f, x)

(* A view takes fewer types than the array under it. *)
ViewTypes == {"Int32", "Int64", "Float32", "Float64", "String32"}
ScalarAndView(op, l, r) ==
  LET s == IF l[1] = "scalar" THEN l ELSE r
  IN  IF s[3] \notin ViewTypes THEN Error
      ELSE IF l[1] = "scalar" THEN ResolveBinaryArithmetic(op, Array(<<l[2]>>), r)
      ELSE ResolveBinaryArithmetic(op, l, Array(<<r[2]>>))

ScalarToTable(op, s, t) == Right(op, "table", s, t[2])
TableToScalar(op, t, s) == Left(op, "table", t[2], s)
ScalarToTableView(op, s, t) == Right(op, "table", s, t[2])
TableViewToScalar(op, t, s) == Left(op, "table", t[2], s)
ScalarToSuperArray(op, s, a) == Right(op, "superarray", s, a[2])
SuperArrayToScalar(op, a, s) == Left(op, "superarray", a[2], s)
ScalarToSuperArrayView(op, s, a) == Right(op, "superarray", s, a[2])
SuperArrayViewToScalar(op, a, s) == Left(op, "superarray", a[2], s)
ScalarToSuperTable(op, s, t) == Wrapped("supertable", [b \in DOMAIN t[2] |-> ScalarToTable(op, s, t[2][b])])
SuperTableToScalar(op, t, s) == Wrapped("supertable", [b \in DOMAIN t[2] |-> TableToScalar(op, t[2][b], s)])
ScalarToSuperTableView(op, s, t) ==
  SuperView([b \in DOMAIN t[2] |-> Whole(BroadcastValue(op, s, t[2][b]))], t[3])
SuperTableViewToScalar(op, t, s) ==
  SuperView([b \in DOMAIN t[2] |-> Whole(BroadcastValue(op, t[2][b], s))], t[3])
ScalarToCube(op, s, c) == Wrapped("cube", [i \in DOMAIN c[2] |-> ScalarToTable(op, s, c[2][i])])
CubeToScalar(op, c, s) == Wrapped("cube", [i \in DOMAIN c[2] |-> TableToScalar(op, c[2][i], s)])
ScalarToTuple(op, s, t) == Right(op, "tuple", s, t[2])

-----------------------------------------------------------------------------
(* Arrays and their views with tables *)

ArrayToTable(op, a, t) == Right(op, "table", Array(a[2]), t[2])
TableToArray(op, t, a) == Left(op, "table", t[2], Array(a[2]))
ArrayToSuperTable(op, a, t) == Wrapped("supertable", [b \in DOMAIN t[2] |-> ArrayToTable(op, a, t[2][b])])
SuperTableToArray(op, t, a) == Wrapped("supertable", [b \in DOMAIN t[2] |-> TableToArray(op, t[2][b], a)])
FieldArrayToSuperTable(op, f, t) == Wrapped("supertable", [b \in DOMAIN t[2] |-> ArrayToTable(op, f, t[2][b])])
SuperTableToFieldArray(op, t, f) == Wrapped("supertable", [b \in DOMAIN t[2] |-> TableToArray(op, t[2][b], f)])
ArrayToTuple(op, a, t) == Right(op, "tuple", a, t[2])

ArrayViewToTable(op, v, t) == Right(op, "table", v, t[2])
(* The rows of the table are taken where the view has its own. *)
TableToArrayView(op, t, v) ==
  Left(op, "table", [c \in DOMAIN t[2] |-> NewView(t[2][c][2], v[3], v[4])], v)
ArrayViewToTableView(op, v, t) == Right(op, "table", v, t[2])
(* The result is a view: fresh columns under the old offset. *)
TableViewToArrayView(op, t, v) ==
  LET done == Left(op, "cols", t[2], v)
  IN  IF Failed(done) THEN done
      ELSE <<"tableview", [c \in DOMAIN done[2] |-> AsView(done[2][c])], t[3], t[4]>>
ArrayViewToSuperTable(op, v, t) ==
  Wrapped("supertable", [b \in DOMAIN t[2] |-> ArrayToTable(op, Array(CellsOf(v)), t[2][b])])
SuperTableToArrayView(op, t, v) ==
  Wrapped("supertable", [b \in DOMAIN t[2] |-> TableToArray(op, t[2][b], Array(CellsOf(v)))])

(* Over the slices of a view of batches, one after the other. *)
At(t, b) == Before(Lengths(t[2]), b)
ArrayToSuperTableView(op, a, t) ==
  SuperView([b \in DOMAIN t[2] |->
               LET v == NewView(a[2], At(t, b), t[2][b][4])
               IN  IF Failed(v) THEN v ELSE Whole(ArrayViewToTableView(op, v, t[2][b]))], t[3])
SuperTableViewToArray(op, t, a) ==
  SuperView([b \in DOMAIN t[2] |->
               LET v == NewView(a[2], At(t, b), t[2][b][4])
               IN  IF Failed(v) THEN v ELSE TableViewToArrayView(op, t[2][b], v)], t[3])
ArrayViewToSuperTableView(op, v, t) ==
  IF v[4] # t[3] THEN Error
  ELSE SuperView([b \in DOMAIN t[2] |->
                    Whole(ArrayViewToTableView(op, SliceView(v, At(t, b), t[2][b][4]), t[2][b]))], t[3])
SliceFromTheArray(op, t, v) ==  \* a mutant: the batch's rows are counted from the array, not from the window
  IF v[4] # t[3] THEN Error
  ELSE SuperView([b \in DOMAIN t[2] |->
                    TableViewToArrayView(op, t[2][b], NewView(v[2], At(t, b), t[2][b][4]))], t[3])
SuperTableViewToArrayView(op, t, v) ==
  IF v[4] # t[3] THEN Error
  ELSE SuperView([b \in DOMAIN t[2] |->
                    TableViewToArrayView(op, t[2][b], NewView(v[2], v[3] + At(t, b), t[2][b][4]))], t[3])
FieldArrayToSuperTableView(op, f, t) ==
  IF Len(f[2]) # t[3] THEN Error
  ELSE SuperView([b \in DOMAIN t[2] |->
                    FromTable(ArrayViewToTableView(op, NewView(f[2], At(t, b), t[2][b][4]), t[2][b]),
                              0, t[2][b][4])], t[3])
SuperTableViewToFieldArray(op, t, f) ==
  IF Len(f[2]) # t[3] THEN Error
  ELSE SuperView([b \in DOMAIN t[2] |->
                    TableViewToArrayView(op, t[2][b], NewView(f[2], At(t, b), t[2][b][4]))], t[3])
TableToSuperTableView(op, t, v) ==
  IF Rows(t) # v[3] THEN Error
  ELSE SuperView([b \in DOMAIN v[2] |->
                    LET part == FromTable(t, At(v, b), v[2][b][4])
                    IN  IF Failed(part) THEN part
                        ELSE FromTable(TableViewToTableView(op, part, v[2][b]), 0, v[2][b][4])], v[3])
SuperTableViewToTable(op, v, t) ==
  IF Rows(t) # v[3] THEN Error
  ELSE SuperView([b \in DOMAIN v[2] |->
                    LET part == FromTable(t, At(v, b), v[2][b][4])
                    IN  IF Failed(part) THEN part
                        ELSE FromTable(TableViewToTableView(op, v[2][b], part), 0, v[2][b][4])], v[3])

-----------------------------------------------------------------------------
(* Chunked arrays *)

OneColumn(t) == IF Failed(t) THEN t ELSE IF Len(t[2]) = 1 THEN t[2][1] ELSE Error
SuperArrayToTable(op, a, t) == Wrapped("superarray", [i \in DOMAIN a[2] |-> OneColumn(ArrayToTable(op, a[2][i], t))])
TableToSuperArray(op, t, a) == Wrapped("superarray", [i \in DOMAIN a[2] |-> OneColumn(TableToArray(op, t, a[2][i]))])

Cut(a, i) == Before(Sizes(a[2]), i)
ArrayViewToSuperArray(op, v, a) ==
  IF v[4] # Total(Sizes(a[2])) THEN Error
  ELSE Pairwise(op, "superarray", [i \in DOMAIN a[2] |-> SliceView(v, Cut(a, i), Size(a[2][i]))], a[2])
SuperArrayToArrayView(op, a, v) ==
  IF v[4] # Total(Sizes(a[2])) THEN Error
  ELSE Pairwise(op, "superarray", a[2], [i \in DOMAIN a[2] |-> SliceView(v, Cut(a, i), Size(a[2][i]))])
ArrayViewToSuperArrayView(op, v, a) ==
  IF v[4] # Total(Sizes(a[2])) THEN Error
  ELSE Pairwise(op, "superarray", [i \in DOMAIN a[2] |-> SliceView(v, Cut(a, i), Size(a[2][i]))], a[2])
SuperArrayViewToArrayView(op, a, v) ==
  IF v[4] # Total(Sizes(a[2])) THEN Error
  ELSE Pairwise(op, "superarray", a[2], [i \in DOMAIN a[2] |-> SliceView(v, Cut(a, i), Size(a[2][i]))])

TableToSuperArrayView(op, t, a) ==
  IF Rows(t) # Total(Sizes(a[2])) THEN Error
  ELSE SuperView([i \in DOMAIN a[2] |->
                    TableViewToArrayView(op, FromTable(t, Cut(a, i), Size(a[2][i])), a[2][i])], Rows(t))
TableViewToSuperArrayView(op, t, a) ==
  IF Rows(t) # Total(Sizes(a[2])) THEN Error
  ELSE SuperView([i \in DOMAIN a[2] |->
                    TableViewToArrayView(op, FromSelf(t, Cut(a, i), Size(a[2][i])), a[2][i])], Rows(t))
SuperArrayViewToTable(op, a, t) ==
  IF Rows(t) # Total(Sizes(a[2])) THEN Error
  ELSE SuperView([i \in DOMAIN a[2] |->
                    Whole(ArrayViewToTableView(op, a[2][i], FromTable(t, Cut(a, i), Size(a[2][i]))))], Rows(t))
SuperArrayViewToTableView(op, a, t) ==
  IF Rows(t) # Total(Sizes(a[2])) THEN Error
  ELSE SuperView([i \in DOMAIN a[2] |->
                    Whole(ArrayViewToTableView(op, a[2][i], FromSelf(t, Cut(a, i), Size(a[2][i]))))], Rows(t))
FieldArrayToSuperArrayView(op, f, a) == RouteSuperArray(op, <<AsView(f)>>, a[2])
SuperArrayViewToFieldArray(op, a, f) == RouteSuperArray(op, a[2], <<AsView(f)>>)

(* Chunks meet batches one to one. *)
ChunksToBatches(op, chunks, batches) ==
  IF Len(chunks) # Len(batches) THEN Error
  ELSE Wrapped("supertable", [b \in DOMAIN batches |->
                                ArrayToTable(op, Array(CellsOf(chunks[b])), AsTable(batches[b]))])
BatchesToChunks(op, batches, chunks) ==
  IF Len(chunks) # Len(batches) THEN Error
  ELSE Wrapped("supertable", [b \in DOMAIN batches |->
                                TableToArray(op, AsTable(batches[b]), Array(CellsOf(chunks[b])))])
SuperArrayToSuperTable(op, a, t) == ChunksToBatches(op, a[2], t[2])
SuperTableToSuperArray(op, t, a) == BatchesToChunks(op, t[2], a[2])
SuperArrayToSuperTableView(op, a, t) == ChunksToBatches(op, a[2], t[2])
SuperTableViewToSuperArray(op, t, a) == BatchesToChunks(op, t[2], a[2])
SuperArrayViewToSuperTable(op, a, t) == ChunksToBatches(op, a[2], t[2])
SuperTableToSuperArrayView(op, t, a) == BatchesToChunks(op, t[2], a[2])
SuperArrayViewToSuperTableView(op, a, t) == ChunksToBatches(op, a[2], t[2])
SuperTableViewToSuperArrayView(op, t, a) == BatchesToChunks(op, t[2], a[2])

(* A view of a table is one batch. *)
TableViewToSuperTable(op, v, t) == SuperTableWithOperator(op, <<ToTable(v)>>, t[2])
SuperTableToTableView(op, t, v) == SuperTableWithOperator(op, t[2], <<ToTable(v)>>)
TableViewToSuperTableView(op, v, t) == SuperTableWithOperator(op, <<Whole(ToTable(v))>>, t[2])
SuperTableViewToTableView(op, t, v) == SuperTableWithOperator(op, t[2], <<Whole(ToTable(v))>>)

-----------------------------------------------------------------------------
(* Cubes *)

ArrayToCube(op, a, c) == Wrapped("cube", [i \in DOMAIN c[2] |-> ArrayToTable(op, a, c[2][i])])
CubeToArray(op, c, a) == Wrapped("cube", [i \in DOMAIN c[2] |-> TableToArray(op, c[2][i], a)])
FieldArrayToCube(op, f, c) == Wrapped("cube", [i \in DOMAIN c[2] |-> ArrayToTable(op, f, c[2][i])])
CubeToFieldArray(op, c, f) == Wrapped("cube", [i \in DOMAIN c[2] |-> TableToArray(op, c[2][i], f)])
ArrayViewToCube(op, v, c) == Wrapped("cube", [i \in DOMAIN c[2] |-> ArrayViewToTable(op, v, c[2][i])])
CubeToArrayView(op, c, v) == Wrapped("cube", [i \in DOMAIN c[2] |-> TableToArrayView(op, c[2][i], v)])
TableToCube(op, t, c) == Wrapped("cube", [i \in DOMAIN c[2] |-> TableWithOperator(op, t, c[2][i])])
CubeToTable(op, c, t) == Wrapped("cube", [i \in DOMAIN c[2] |-> TableWithOperator(op, c[2][i], t)])
TableViewToCube(op, v, c) == Wrapped("cube", [i \in DOMAIN c[2] |-> TableWithOperator(op, ToTable(v), c[2][i])])

Uneven(c, len) == c[2] = <<>> \/ \E i \in DOMAIN c[2] : Rows(c[2][i]) # Rows(c[2][1]) \/ Rows(c[2][1]) # len
SuperArrayToCube(op, a, c) ==
  IF Uneven(c, Total(Sizes(a[2]))) THEN Error ELSE ArrayToCube(op, Materialised(a[2]), c)
CubeToSuperArray(op, c, a) ==
  IF Uneven(c, Total(Sizes(a[2]))) THEN Error ELSE CubeToArray(op, c, Materialised(a[2]))
SuperArrayViewToCube(op, a, c) ==
  IF Uneven(c, Total(Sizes(a[2]))) THEN Error ELSE ArrayToCube(op, MaterialisedView(a[2]), c)
CubeToSuperArrayView(op, c, a) ==
  IF Uneven(c, Total(Sizes(a[2]))) THEN Error ELSE CubeToArray(op, c, MaterialisedView(a[2]))
SuperTableToCube(op, t, c) ==
  LET whole == MergedBatches(t[2]) IN IF Failed(whole) THEN whole ELSE TableToCube(op, whole, c)
CubeToSuperTable(op, c, t) ==
  LET whole == MergedBatches(t[2]) IN IF Failed(whole) THEN whole ELSE CubeToTable(op, c, whole)
SuperTableViewToCube(op, t, c) ==
  LET whole == MergedSlices(t[2]) IN IF Failed(whole) THEN whole ELSE TableToCube(op, whole, c)
CubeToSuperTableView(op, c, t) ==
  LET whole == MergedSlices(t[2]) IN IF Failed(whole) THEN whole ELSE CubeToTable(op, c, whole)

-----------------------------------------------------------------------------
(* The arms of broadcast_value, by the kinds of both sides. *)

Flat == {"array", "field", "arrayview"}
PlainPairs(op, l, r) ==
  CASE l[1] = "scalar" /\ r[1] = "scalar" -> <<"scalar", <<op, l[2], r[2]>>, l[3]>>
    [] l[1] = "scalar" /\ r[1] = "array"  -> ScalarToArray(op, l, r)
    [] l[1] = "array" /\ r[1] = "scalar"  -> ArrayToScalar(op, l, r)
    [] l[1] = "scalar" /\ r[1] = "field"  -> ScalarToFieldArray(op, l, r)
    [] l[1] = "field" /\ r[1] = "scalar"  -> FieldArrayToScalar(op, l, r)
    [] l[1] \in Flat /\ r[1] \in Flat     -> ResolveBinaryArithmetic(op, l, r)
    [] OTHER                              -> ScalarAndView(op, l, r)

SuperArrayPairs(op, l, r) ==
  CASE l[1] = "scalar" /\ r[1] = "superarray"     -> ScalarToSuperArray(op, l, r)
    [] l[1] = "superarray" /\ r[1] = "scalar"     -> SuperArrayToScalar(op, l, r)
    [] l[1] = "scalar" /\ r[1] = "superarrayview" -> ScalarToSuperArrayView(op, l, r)
    [] l[1] = "superarrayview" /\ r[1] = "scalar" -> SuperArrayViewToScalar(op, l, r)
    [] OTHER                                      -> RouteSuperArray(op, l[2], r[2])

Wrap(kind, v) == IF Failed(v) THEN v ELSE <<kind, v>>
Inside(kind, v) == IF v[1] = kind THEN v[2] ELSE v
ArcPairs(op, l, r) == Wrap("arc", BroadcastValue(op, Inside("arc", l), Inside("arc", r)))
BoxPairs(op, l, r) == Wrap("box", BroadcastValue(op, Inside("box", l), Inside("box", r)))
TuplePairs(op, l, r) == Pairwise(op, "tuple", l[2], r[2])
TuplesOfDifferentSizes == Error
VecPairs(op, l, r) == IF Len(l[2]) # Len(r[2]) THEN Error ELSE Pairwise(op, "vec", l[2], r[2])

(* Pairs with a matrix that are let through are not implemented yet, nor is *)
(* any pair with a tensor.                                                  *)
MatrixPairs(l, r) ==
  IF {l[1], r[1]} \subseteq {"matrix", "scalar"} \/ {l[1], r[1]} = {"matrix", "array"} THEN Panic ELSE Error
TensorPairs == Panic

TablePairs(op, l, r) ==
  CASE l[1] = "cube" /\ r[1] = "cube" -> CubeAdd(l, r)
    [] l[1] = "tableview" /\ r[1] = "tableview" -> TableViewToTableView(op, l, r)
    [] l[1] \in {"supertable", "supertableview"}  -> SuperTableWithOperator(op, l[2], r[2])
    [] OTHER -> TableWithOperator(op, AsTable(l), AsTable(r))

ScalarTablePairs(op, l, r) ==
  CASE l[1] = "scalar" /\ r[1] = "table"          -> ScalarToTable(op, l, r)
    [] l[1] = "scalar" /\ r[1] = "tableview"      -> ScalarToTableView(op, l, r)
    [] l[1] = "scalar" /\ r[1] = "supertable"     -> ScalarToSuperTable(op, l, r)
    [] l[1] = "scalar" /\ r[1] = "supertableview" -> ScalarToSuperTableView(op, l, r)
    [] l[1] = "scalar" /\ r[1] = "cube"           -> ScalarToCube(op, l, r)
    [] l[1] = "table" /\ r[1] = "scalar"          -> TableToScalar(op, l, r)
    [] l[1] = "tableview" /\ r[1] = "scalar"      -> TableViewToScalar(op, l, r)
    [] l[1] = "supertable" /\ r[1] = "scalar"     -> SuperTableToScalar(op, l, r)
    [] l[1] = "supertableview" /\ r[1] = "scalar" -> SuperTableViewToScalar(op, l, r)
    [] l[1] = "cube" /\ r[1] = "scalar"           -> CubeToScalar(op, l, r)

ArrayTablePairs(op, l, r) ==
  CASE l[1] \in {"array", "field"} /\ r[1] = "table" -> ArrayToTable(op, l, r)
    [] l[1] = "table" /\ r[1] \in {"array", "field"} -> TableToArray(op, l, r)
    [] l[1] = "array" /\ r[1] = "supertable"         -> ArrayToSuperTable(op, l, r)
    [] l[1] = "supertable" /\ r[1] = "array"         -> SuperTableToArray(op, l, r)
    [] l[1] = "field" /\ r[1] = "supertable"         -> FieldArrayToSuperTable(op, l, r)
    [] l[1] = "supertable" /\ r[1] = "field"         -> SuperTableToFieldArray(op, l, r)
    [] l[1] = "arrayview" /\ r[1] = "table"          -> ArrayViewToTable(op, l, r)
    [] l[1] = "table" /\ r[1] = "arrayview"          -> TableToArrayView(op, l, r)
    [] l[1] = "arrayview" /\ r[1] = "supertable"     -> ArrayViewToSuperTable(op, l, r)
    [] l[1] = "supertable" /\ r[1] = "arrayview"     -> SuperTableToArrayView(op, l, r)
    [] l[1] = "arrayview" /\ r[1] = "tableview"      -> ArrayViewToTableView(op, l, r)
    [] l[1] = "tableview" /\ r[1] = "arrayview"      -> TableViewToArrayView(op, l, r)
    [] l[1] = "arrayview" /\ r[1] = "supertableview" -> ArrayViewToSuperTableView(op, l, r)
    [] l[1] = "supertableview" /\ r[1] = "arrayview" -> SuperTableViewToArrayView(op, l, r)

ChunkTablePairs(op, l, r) ==
  CASE l[1] = "superarray"                              -> SuperArrayToTable(op, l, AsTable(r))
    [] r[1] = "superarray"                              -> TableToSuperArray(op, AsTable(l), r)
    [] l[1] = "superarrayview" /\ r[1] = "table"        -> SuperArrayViewToTable(op, l, r)
    [] l[1] = "table" /\ r[1] = "superarrayview"        -> TableToSuperArrayView(op, l, r)
    [] l[1] = "superarrayview" /\ r[1] = "tableview"    -> SuperArrayViewToTableView(op, l, r)
    [] l[1] = "tableview" /\ r[1] = "superarrayview"    -> TableViewToSuperArrayView(op, l, r)

CubePairs(op, l, r) ==
  CASE l[1] = "array"          -> ArrayToCube(op, l, r)
    [] r[1] = "array"          -> CubeToArray(op, l, r)
    [] l[1] = "field"          -> FieldArrayToCube(op, l, r)
    [] r[1] = "field"          -> CubeToFieldArray(op, l, r)
    [] l[1] = "arrayview"      -> ArrayViewToCube(op, l, r)
    [] r[1] = "arrayview"      -> CubeToArrayView(op, l, r)
    [] l[1] = "table"          -> TableToCube(op, l, r)
    [] r[1] = "table"          -> CubeToTable(op, l, r)
    [] l[1] = "tableview"      -> TableViewToCube(op, l, r)
    [] r[1] = "tableview"      -> CubeToTable(op, l, ToTable(r))
    [] l[1] = "superarray"     -> SuperArrayToCube(op, l, r)
    [] r[1] = "superarray"     -> CubeToSuperArray(op, l, r)
    [] l[1] = "superarrayview" -> SuperArrayViewToCube(op, l, r)
    [] r[1] = "superarrayview" -> CubeToSuperArrayView(op, l, r)
    [] l[1] = "supertable"     -> SuperTableToCube(op, l, r)
    [] r[1] = "supertable"     -> CubeToSuperTable(op, l, r)
    [] l[1] = "supertableview" -> SuperTableViewToCube(op, l, r)
    [] r[1] = "supertableview" -> CubeToSuperTableView(op, l, r)

(* A tuple meets anything else part by part. *)
Spread(op, l, r) == IF l[1] = "tuple" THEN Left(op, "tuple", l[2], r) ELSE Right(op, "tuple", l, r[2])
FieldArrayTuples(op, l, r) == Spread(op, l, r)
SuperArrayTuples(op, l, r) == Spread(op, l, r)
SuperArrayViewTuples(op, l, r) == Spread(op, l, r)
TableTuples(op, l, r) == Spread(op, l, r)
ArrayViewTuples(op, l, r) == Spread(op, l, r)
TableViewTuples(op, l, r) == Spread(op, l, r)
CubeTuples(op, l, r) == Spread(op, l, r)
ArrayTuples(op, l, r) == IF l[1] = "array" THEN ArrayToTuple(op, l, r) ELSE Left(op, "tuple", l[2], r)
ScalarTuples(op, l, r) == IF l[1] = "scalar" THEN ScalarToTuple(op, l, r) ELSE Left(op, "tuple", l[2], r)
SuperTableTuples == Error

TupleWith(op, l, r) ==
  LET other == IF l[1] = "tuple" THEN r[1] ELSE l[1]
  IN  CASE other = "field"          -> FieldArrayTuples(op, l, r)
        [] other = "superarray"     -> SuperArrayTuples(op, l, r)
        [] other = "superarrayview" -> SuperArrayViewTuples(op, l, r)
        [] other = "table"          -> TableTuples(op, l, r)
        [] other = "arrayview"      -> ArrayViewTuples(op, l, r)
        [] other = "tableview"      -> TableViewTuples(op, l, r)
        [] other = "cube"           -> CubeTuples(op, l, r)
        [] other = "array"          -> ArrayTuples(op, l, r)
        [] other = "scalar"         -> ScalarTuples(op, l, r)
        [] OTHER                    -> SuperTableTuples

VecTakes == {"table", "arrayview", "tableview", "superarray", "superarrayview", "supertable",
             "supertableview", "cube"}
VecWith(op, l, r) ==
  CASE l[1] = "vec" /\ r[1] \in VecTakes -> Left(op, "vec", l[2], r)
    [] r[1] = "vec" /\ l[1] \in VecTakes -> Right(op, "vec", l, r[2])
    [] OTHER                             -> Error

AlignedPairs(op, l, r) ==
  IF l[1] = "array"
  THEN LET parts == CreateAlignedChunks(l, r[2]) IN IF Failed(parts) THEN parts ELSE RouteSuperArray(op, parts[2], r[2])
  ELSE LET parts == CreateAlignedChunks(r, l[2]) IN IF Failed(parts) THEN parts ELSE RouteSuperArray(op, l[2], parts[2])

(* The array is windowed where the table view begins, and it is the left *)
(* operand on either side.                                               *)
ArrayTableViewPairs(op, l, r) ==
  LET a == IF l[1] = "array" THEN l ELSE r
      t == IF l[1] = "array" THEN r ELSE l
      v == NewView(a[2], t[3], t[4])
  IN  IF Failed(v) THEN v ELSE ArrayViewToTableView(op, v, t)

FieldArrayPairs(op, l, r) ==
  CASE l[1] = "field" /\ r[1] = "superarray"     -> RouteSuperArray(op, <<l>>, r[2])
    [] l[1] = "superarray" /\ r[1] = "field"     -> RouteSuperArray(op, l[2], <<r>>)
    [] l[1] = "field" /\ r[1] = "superarrayview" -> FieldArrayToSuperArrayView(op, l, r)
    [] l[1] = "superarrayview" /\ r[1] = "field" -> SuperArrayViewToFieldArray(op, l, r)
    [] l[1] = "field" /\ r[1] = "supertableview" -> FieldArrayToSuperTableView(op, l, r)
    [] l[1] = "supertableview" /\ r[1] = "field" -> SuperTableViewToFieldArray(op, l, r)
    [] l[1] = "field" /\ r[1] = "tableview"      -> ArrayToTable(op, l, ToTable(r))
    [] l[1] = "tableview" /\ r[1] = "field"      -> TableToArray(op, ToTable(l), r)

WindowPairs(op, l, r) ==
  CASE l[1] = "arrayview" /\ r[1] = "superarray"     -> ArrayViewToSuperArray(op, l, r)
    [] l[1] = "superarray" /\ r[1] = "arrayview"     -> SuperArrayToArrayView(op, l, r)
    [] l[1] = "arrayview" /\ r[1] = "superarrayview" -> ArrayViewToSuperArrayView(op, l, r)
    [] l[1] = "superarrayview" /\ r[1] = "arrayview" -> SuperArrayViewToArrayView(op, l, r)
    [] l[1] = "tableview" /\ r[1] = "supertable"     -> TableViewToSuperTable(op, l, r)
    [] l[1] = "supertable" /\ r[1] = "tableview"     -> SuperTableToTableView(op, l, r)
    [] l[1] = "tableview" /\ r[1] = "supertableview" -> TableViewToSuperTableView(op, l, r)
    [] l[1] = "supertableview" /\ r[1] = "tableview" -> SuperTableViewToTableView(op, l, r)

TableSuperTablePairs(op, l, r) ==
  CASE l[1] = "table" /\ r[1] = "supertable"     -> SuperTableWithOperator(op, <<l>>, r[2])
    [] l[1] = "supertable" /\ r[1] = "table"     -> SuperTableWithOperator(op, l[2], <<r>>)
    [] l[1] = "table" /\ r[1] = "supertableview" -> TableToSuperTableView(op, l, r)
    [] l[1] = "supertableview" /\ r[1] = "table" -> SuperTableViewToTable(op, l, r)

ChunkBatchPairs(op, l, r) ==
  CASE l[1] = "superarray" /\ r[1] = "supertable"         -> SuperArrayToSuperTable(op, l, r)
    [] l[1] = "superarray" /\ r[1] = "supertableview"     -> SuperArrayToSuperTableView(op, l, r)
    [] l[1] = "superarrayview" /\ r[1] = "supertable"     -> SuperArrayViewToSuperTable(op, l, r)
    [] l[1] = "superarrayview" /\ r[1] = "supertableview" -> SuperArrayViewToSuperTableView(op, l, r)
    [] l[1] = "supertable" /\ r[1] = "superarray"         -> SuperTableToSuperArray(op, l, r)
    [] l[1] = "supertable" /\ r[1] = "superarrayview"     -> SuperTableToSuperArrayView(op, l, r)
    [] l[1] = "supertableview" /\ r[1] = "superarray"     -> SuperTableViewToSuperArray(op, l, r)
    [] l[1] = "supertableview" /\ r[1] = "superarrayview" -> SuperTableViewToSuperArrayView(op, l, r)

Chunked == {"superarray", "superarrayview"}
Single == {"table", "tableview"}
Batched == {"supertable", "supertableview"}
Tables == Single \cup Batched \cup {"cube"}
Tensors == {"ndarray", "xarray"}

(* The kinds on both sides, in either order. *)
Between(l, r, some, others) ==
  \/ l[1] \in some /\ r[1] \in others
  \/ l[1] \in others /\ r[1] \in some

ByShape(op, l, r) ==
  CASE Between(l, r, {"scalar"} \cup Flat, {"scalar"} \cup Flat) -> PlainPairs(op, l, r)
    [] Between(l, r, {"scalar"}, Chunked) \/ Between(l, r, Chunked, Chunked) -> SuperArrayPairs(op, l, r)
    [] Between(l, r, {"scalar"}, Tables)                    -> ScalarTablePairs(op, l, r)
    [] Between(l, r, Single, Single) \/ Between(l, r, Batched, Batched) \/ Between(l, r, {"cube"}, {"cube"})
                                                            -> TablePairs(op, l, r)
    [] Between(l, r, {"cube"}, Flat \cup Chunked \cup Single \cup Batched) -> CubePairs(op, l, r)
    [] \/ Between(l, r, Flat, {"table", "supertable"})
       \/ Between(l, r, {"arrayview"}, {"tableview", "supertableview"})  -> ArrayTablePairs(op, l, r)
    [] Between(l, r, Chunked, Single)                       -> ChunkTablePairs(op, l, r)
    [] Between(l, r, {"array"}, Chunked)                    -> AlignedPairs(op, l, r)
    [] l[1] = "array" /\ r[1] = "supertableview"            -> ArrayToSuperTableView(op, l, r)
    [] l[1] = "supertableview" /\ r[1] = "array"            -> SuperTableViewToArray(op, l, r)
    [] Between(l, r, {"array"}, {"tableview"})              -> ArrayTableViewPairs(op, l, r)
    [] Between(l, r, {"field"}, Chunked \cup {"supertableview", "tableview"}) -> FieldArrayPairs(op, l, r)
    [] Between(l, r, {"arrayview"}, Chunked) \/ Between(l, r, {"tableview"}, Batched) -> WindowPairs(op, l, r)
    [] Between(l, r, {"table"}, Batched)                    -> TableSuperTablePairs(op, l, r)
    [] Between(l, r, Chunked, Batched)                      -> ChunkBatchPairs(op, l, r)

BroadcastValue(op, l, r) ==
  LET some(kinds) == l[1] \in kinds \/ r[1] \in kinds
      both(kind)  == l[1] = kind /\ r[1] = kind
  IN  IF Failed(l) THEN l ELSE IF Failed(r) THEN r
      ELSE IF some({"arc"}) THEN ArcPairs(op, l, r)
      ELSE IF both("tuple") THEN IF Len(l[2]) = Len(r[2]) THEN TuplePairs(op, l, r) ELSE TuplesOfDifferentSizes
      ELSE IF both("vec") THEN VecPairs(op, l, r)
      ELSE IF some({"matrix"}) THEN MatrixPairs(l, r)
      ELSE IF some(Tensors) THEN TensorPairs
      ELSE IF some({"custom"}) THEN Panic
      ELSE IF some({"box"}) THEN BoxPairs(op, l, r)
      ELSE IF some({"vec"}) THEN VecWith(op, l, r)
      ELSE IF some({"tuple"}) THEN TupleWith(op, l, r)
      ELSE ByShape(op, l, r)
-----------------------------------------------------------------------------
(* Broadcasting of the views that are typed: numeric, text and temporal,   *)
(* as <<kind, cells, offset, len>>.  These calls stand beside              *)
(* broadcast_value, which does not know the kinds.                         *)
NumericTypes  == {"Int32", "Int64", "Float32", "Float64"}
TextTypes     == {"String32", "String64"}
TemporalTypes == NumericTypes \cup {"Int8", "Int16", "UInt8", "UInt16", "UInt32", "UInt64",
                                    "Datetime32", "Datetime64", "Boolean"}

Taken(op, l, r, type, types) == IF type \notin types THEN Error ELSE ResolveBinaryArithmetic(op, l, r)
ScalarToNumericArrayView(op, s, v)  == Taken(op, Array(<<s[2]>>), v, s[3], NumericTypes)
NumericArrayViewToScalar(op, v, s)  == Taken(op, v, Array(<<s[2]>>), s[3], NumericTypes)
ScalarToTextArrayView(op, s, v)     == Taken(op, Array(<<s[2]>>), v, s[3], TextTypes)
TextArrayViewToScalar(op, v, s)     == Taken(op, v, Array(<<s[2]>>), s[3], TextTypes)
ScalarToTemporalArrayView(op, s, v) == Taken(op, Array(<<s[2]>>), v, s[3], TemporalTypes)
TemporalArrayViewToScalar(op, v, s) == Taken(op, v, Array(<<s[2]>>), s[3], TemporalTypes)

(* A table takes the whole array under the view, a cube the view. *)
NumericArrayViewToSuperTable(op, v, t)  == ArrayToSuperTable(op, v, t)
SuperTableToNumericArrayView(op, t, v)  == SuperTableToArray(op, t, v)
TextArrayViewToSuperTable(op, v, t)     == ArrayToSuperTable(op, v, t)
SuperTableToTextArrayView(op, t, v)     == SuperTableToArray(op, t, v)
TemporalArrayViewToSuperTable(op, v, t) == ArrayToSuperTable(op, v, t)
SuperTableToTemporalArrayView(op, t, v) == SuperTableToArray(op, t, v)
NumericArrayViewToCube(op, v, c)  == ArrayViewToCube(op, AsView(v), c)
CubeToNumericArrayView(op, c, v)  == CubeToArrayView(op, c, AsView(v))
TextArrayViewToCube(op, v, c)     == ArrayViewToCube(op, AsView(v), c)
CubeToTextArrayView(op, c, v)     == CubeToArrayView(op, c, AsView(v))
TemporalArrayViewToCube(op, v, c) == ArrayViewToCube(op, AsView(v), c)
CubeToTemporalArrayView(op, c, v) == CubeToArrayView(op, c, AsView(v))

Typed == {"numeric", "text", "temporal"}
BroadcastTyped(op, l, r) ==
  CASE l[1] = "scalar" /\ r[1] = "numeric"      -> ScalarToNumericArrayView(op, l, r)
    [] l[1] = "numeric" /\ r[1] = "scalar"      -> NumericArrayViewToScalar(op, l, r)
    [] l[1] = "scalar" /\ r[1] = "text"         -> ScalarToTextArrayView(op, l, r)
    [] l[1] = "text" /\ r[1] = "scalar"         -> TextArrayViewToScalar(op, l, r)
    [] l[1] = "scalar" /\ r[1] = "temporal"     -> ScalarToTemporalArrayView(op, l, r)
    [] l[1] = "temporal" /\ r[1] = "scalar"     -> TemporalArrayViewToScalar(op, l, r)
    [] l[1] = "numeric" /\ r[1] = "supertable"  -> NumericArrayViewToSuperTable(op, l, r)
    [] l[1] = "supertable" /\ r[1] = "numeric"  -> SuperTableToNumericArrayView(op, l, r)
    [] l[1] = "text" /\ r[1] = "supertable"     -> TextArrayViewToSuperTable(op, l, r)
    [] l[1] = "supertable" /\ r[1] = "text"     -> SuperTableToTextArrayView(op, l, r)
    [] l[1] = "temporal" /\ r[1] = "supertable" -> TemporalArrayViewToSuperTable(op, l, r)
    [] l[1] = "supertable" /\ r[1] = "temporal" -> SuperTableToTemporalArrayView(op, l, r)
    [] l[1] = "numeric" /\ r[1] = "cube"        -> NumericArrayViewToCube(op, l, r)
    [] l[1] = "cube" /\ r[1] = "numeric"        -> CubeToNumericArrayView(op, l, r)
    [] l[1] = "text" /\ r[1] = "cube"           -> TextArrayViewToCube(op, l, r)
    [] l[1] = "cube" /\ r[1] = "text"           -> CubeToTextArrayView(op, l, r)
    [] l[1] = "temporal" /\ r[1] = "cube"       -> TemporalArrayViewToCube(op, l, r)
    [] l[1] = "cube" /\ r[1] = "temporal"       -> CubeToTemporalArrayView(op, l, r)
    [] OTHER                                    -> Error

(* The entry points of before the operators, which only add. *)
OnlyAdds(l, r) ==
  CASE l[1] \in Single /\ r[1] \in Single   -> TableAdd(l, r)
    [] l[1] \in Batched /\ r[1] \in Batched -> SuperTableAdd(l[2], r[2])
    [] l[1] \in Chunked /\ r[1] \in Chunked -> SuperArrayAdd(l[2], r[2])
    [] OTHER                                -> Error

-----------------------------------------------------------------------------
(* The operators of the containers (kernels/arithmetic/types): both sides  *)
(* are wrapped as values, and what broadcast_value made of them, v, has to *)
(* be of one kind.                                                         *)
Unwrapped(v, kind) == IF v[1] = kind THEN v ELSE Error
ValueOperator(v)       == v
ArrayOperator(v)       == Unwrapped(v, "array")
ArrayVOperator(v)      == Unwrapped(v, "array")
TableOperator(v)       == Unwrapped(v, "table")
FieldArrayOperator(v)  == Unwrapped(v, "field")
SuperArrayOperator(v)  == Unwrapped(v, "superarray")
SuperArrayVOperator(v) == Unwrapped(v, "superarray")
SuperTableOperator(v)  == Unwrapped(v, "supertable")
SuperTableVOperator(v) ==
  IF v[1] = "supertableview" THEN <<"supertable", [b \in DOMAIN v[2] |-> ToTable(v[2][b])]>>
  ELSE Unwrapped(v, "supertable")
CubeOperator(v)        == Unwrapped(v, "cube")

Operated(kind, v) ==
  CASE kind = "array"          -> ArrayOperator(v)
    [] kind = "arrayview"      -> ArrayVOperator(v)
    [] kind = "table"          -> TableOperator(v)
    [] kind = "field"          -> FieldArrayOperator(v)
    [] kind = "superarray"     -> SuperArrayOperator(v)
    [] kind = "superarrayview" -> SuperArrayVOperator(v)
    [] kind = "supertable"     -> SuperTableOperator(v)
    [] kind = "supertableview" -> SuperTableVOperator(v)
    [] kind = "cube"           -> CubeOperator(v)
    [] OTHER                   -> ValueOperator(v)

-----------------------------------------------------------------------------
(***************************************************************************)
(* What a broadcast has to compute, whatever the containers: cell by cell  *)
(* the operator of the call, the left operand's cell on its left, and the  *)
(* cells that belong to the same table, column and row.                    *)
(***************************************************************************)

(* A value laid out as tables of columns, and the rows of every batch.  A  *)
(* value without columns or without tables has one of its own for all.     *)
Flattened(batches) == [c \in DOMAIN batches[1][2] |->
                         FlattenSeq([b \in DOMAIN batches |-> CellsOf(batches[b][2][c])])]
Layout(v) ==
  CASE v[1] = "scalar"               -> [tables |-> <<<<<<v[2]>>>>>>, cuts |-> <<1>>]
    [] v[1] \in Flat \cup Typed      -> [tables |-> <<<<CellsOf(v)>>>>, cuts |-> <<Size(v)>>]
    [] v[1] \in Chunked              -> [tables |-> <<<<FlattenSeq([i \in DOMAIN v[2] |-> CellsOf(v[2][i])])>>>>,
                                         cuts |-> Sizes(v[2])]
    [] v[1] \in Single               -> [tables |-> <<Flattened(<<v>>)>>, cuts |-> <<Rows(v)>>]
    [] v[1] \in Batched              -> [tables |-> <<Flattened(v[2])>>, cuts |-> Lengths(v[2])]
    [] v[1] = "cube"                 -> [tables |-> [i \in DOMAIN v[2] |-> Flattened(<<v[2][i]>>)],
                                         cuts |-> <<Rows(v[2][1])>>]

(* The row of an operand that belongs to row k of batch b of the result. *)
RowFor(mine, cuts, b, k) ==
  LET n == Total(mine)
  IN  CASE Len(mine) = Len(cuts) /\ mine[b] = cuts[b] -> Before(mine, b) + k
        [] Len(mine) = Len(cuts) /\ mine[b] # cuts[b] -> IF mine[b] = 1 THEN Before(mine, b) + 1 ELSE 0
        [] Len(mine) # Len(cuts) /\ n = Total(cuts)   -> Before(cuts, b) + k
        [] Len(mine) # Len(cuts) /\ n # Total(cuts)   -> IF n = cuts[b] THEN k ELSE IF n = 1 THEN 1 ELSE 0

OnlyOr(parts, i) == IF Len(parts) = 1 THEN parts[1] ELSE parts[i]

CellsAligned(op, l, r, result) ==
  \A i \in DOMAIN result.tables : \A c \in DOMAIN result.tables[i] : \A b \in DOMAIN result.cuts :
    \A k \in 1..result.cuts[b] :
      LET at(x) == OnlyOr(OnlyOr(x.tables, i), c)[RowFor(x.cuts, result.cuts, b, k)]
      IN  /\ RowFor(l.cuts, result.cuts, b, k) # 0 /\ RowFor(r.cuts, result.cuts, b, k) # 0
          /\ result.tables[i][c][Before(result.cuts, b) + k] = <<op, at(l), at(r)>>

SameShape(x, result) ==
  /\ Len(x.tables) \in {1, Len(result.tables)}
  /\ Len(x.tables[1]) \in {1, Len(result.tables[1])}

Part(v, kind, i) == IF v[1] = kind THEN v[2][i] ELSE v

RECURSIVE Exact(_, _, _, _)
Exact(op, l, r, result) ==
  CASE Failed(result)                 -> TRUE
    [] result[1] \in {"arc", "box"}   -> Exact(op, Inside(result[1], l), Inside(result[1], r), result[2])
    [] result[1] \in {"tuple", "vec"} -> \A i \in DOMAIN result[2] :
                                            Exact(op, Part(l, result[1], i), Part(r, result[1], i), result[2][i])
    [] OTHER -> LET x == Layout(l)  y == Layout(r)  z == Layout(result)
                IN  SameShape(x, z) /\ SameShape(y, z) /\ CellsAligned(op, x, y, z)

BroadcastResult(op, l, r) == IF {l[1], r[1]} \cap Typed # {} THEN BroadcastTyped(op, l, r) ELSE BroadcastValue(op, l, r)

SameLayout(l, r) ==
  LET x == Layout(l)  y == Layout(r)
  IN  x.cuts = y.cuts /\ Len(x.tables) = Len(y.tables) /\ Len(x.tables[1]) = Len(y.tables[1])

-----------------------------------------------------------------------------
(* Where the code departs from it, for two values that are not nested.     *)

Windows(v) ==
  CASE v[1] = "arrayview" \/ v[1] \in Typed                        -> {v}
    [] v[1] \in {"tableview", "superarrayview"}                    -> {v[2][i] : i \in DOMAIN v[2]}
    [] v[1] = "supertableview" -> UNION {{v[2][b][2][c] : c \in DOMAIN v[2][b][2]} : b \in DOMAIN v[2]}
    [] OTHER                                                       -> {}
Moved(a, v) == v[3] > 0 \/ Size(a) # v[4]
ChunkCount(v) == IF v[1] \in Chunked THEN Len(v[2]) ELSE 1

(* A view of one row that is not the first of its array stretches the      *)
(* first one.                                                              *)
RowStretched(l, r) == \E v \in Windows(l) \cup Windows(r) : v[4] = 1 /\ v[3] > 0

(* Two cubes are added whatever the operator is.                           *)
CubesOnlyAdd(op, l, r) == l[1] = "cube" /\ r[1] = "cube" /\ op # "add"

(* A view of a table minus an array is the array minus the view.           *)
OperandsSwapped(l, r) == l[1] = "tableview" /\ r[1] = "array"

(* The offset of a view is applied to the other operand too.               *)
WindowLent(l, r) ==
  \/ l[1] = "array" /\ r[1] = "tableview" /\ Moved(l, r)
  \/ l[1] = "tableview" /\ r[1] = "array" /\ Moved(r, l)
  \/ l[1] = "table" /\ r[1] = "arrayview" /\ Moved(l[2][1], r)
  \/ l[1] = "cube" /\ r[1] \in Typed \cup {"arrayview"} /\ Moved(l[2][1][2][1], r)

(* Chunks of the right side that have no partner are left out, as are rows *)
(* of an array past the view of batches.                                   *)
RestDropped(l, r) ==
  \/ l[1] \in Chunked \cup {"field"} /\ r[1] \in Chunked \cup {"field"} /\ ChunkCount(l) < ChunkCount(r)
  \/ l[1] = "array" /\ r[1] = "supertableview" /\ Size(l) > r[3]
  \/ l[1] = "supertableview" /\ r[1] = "array" /\ Size(r) > l[3]

(* A row of a table that was stretched is shown in the view of one row.    *)
OldWindowKept(l, r) == l[1] = "tableview" /\ r[1] = "arrayview" /\ Rows(l) # Size(r)

(* A table takes what is under a typed view.                               *)
WholeArrayTaken(l, r) ==
  \/ l[1] \in Typed /\ r[1] = "supertable" /\ Size(l) # Len(l[2])
  \/ l[1] = "supertable" /\ r[1] \in Typed /\ Size(r) # Len(r[2])

Departs(op, l, r) ==
  \/ RowStretched(l, r) \/ CubesOnlyAdd(op, l, r) \/ OperandsSwapped(l, r) \/ WindowLent(l, r)
  \/ RestDropped(l, r) \/ OldWindowKept(l, r) \/ WholeArrayTaken(l, r)

(* Types of a scalar that only some containers take. *)
Scarce(v) == v[1] = "scalar" /\ v[3] \notin ViewTypes

(* The pairs of values inside two that are nested. *)
Unfinished == Tensors \cup {"matrix", "custom"}
Nests == {"tuple", "vec", "arc", "box"}
PartsOf(v) == CASE v[1] \in {"tuple", "vec"} -> {v[2][i] : i \in DOMAIN v[2]}
                [] v[1] \in {"arc", "box"}   -> {v[2]}
                [] OTHER                     -> {v}
Pairs(l, r) == {<<a, b>> : a \in UNION {PartsOf(x) : x \in PartsOf(l)},
                           b \in UNION {PartsOf(x) : x \in PartsOf(r)}}

(* Whatever is broadcast, the result pairs the cells that belong together  *)
(* under the operator of the call, and two values of one layout are never  *)
(* refused; Departs names the exceptions.                                  *)
Refusable(l, r) ==
  \/ {l[1], r[1]} \cap (Nests \cup Unfinished \cup Typed) # {}
  \/ Scarce(l) \/ Scarce(r) \/ ~SameLayout(l, r)
Keeps(op, l, r) ==
  \/ \E p \in Pairs(l, r) : Departs(op, p[1], p[2])
  \/ \A result \in {BroadcastResult(op, l, r)} :
       Exact(op, l, r, result) /\ (Failed(result) => Refusable(l, r))

KeepsAdding(l, r) == RestDropped(l, r) \/ Exact("add", l, r, OnlyAdds(l, r))

(* The operator of a container gives what its broadcast gives; that of two *)
(* FieldArrays always fails, as their sum is an array.                     *)
KeepsKind(op, l, r) ==
  l[1] = r[1] /\ l[1] # "field" =>
    \A v \in {BroadcastValue(op, l, r)} : Failed(v) = Failed(Operated(l[1], v))
=============================================================================
