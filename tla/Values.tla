------------------------------- MODULE Values -------------------------------
(***************************************************************************)
(* Value (enums/value), one type for whatever the library holds: how a     *)
(* value becomes another, what it says of itself, and the Cube             *)
(* (structs/cube.rs), tables behind each other.                            *)
(*                                                                         *)
(* A value is <<variant, content>>.  An array is [kind, cells, at], at the *)
(* place where it is held, 0 for one made just now.  Cell Null is a null;  *)
(* a text from Word on is not a number.                                    *)
(***************************************************************************)
EXTENDS Integers, Sequences, FiniteSets
LOCAL INSTANCE SequencesExt
LOCAL INSTANCE TLC

Null == -1
NaN  == 49
Word == 50
Some(x) == <<x>>
Refused == <<>>
Panic   == <<"panics", "panics">>
Ok(r)   == Len(r) = 1
AllOk(rs) == \A i \in DOMAIN rs : Ok(rs[i])
Got(rs)   == [i \in DOMAIN rs |-> rs[i][1]]
Least(S)  == CHOOSE m \in S : \A n \in S : m <= n
Failed(rs) == rs[Least({i \in DOMAIN rs : ~Ok(rs[i])})]
Then(r, F(_))     == IF Ok(r) THEN F(r[1]) ELSE r
Gives(r, F(_))    == IF Ok(r) THEN Some(F(r[1])) ELSE r
OrElse(r, other)  == IF Ok(r) THEN r ELSE other
ThenAll(rs, F(_)) == IF AllOk(rs) THEN F(Got(rs)) ELSE Failed(rs)
Cut(s, off, n) == SubSeq(s, off + 1, off + n)

Arr(kind, cells, at) == [kind |-> kind, cells |-> cells, at |-> at]
Made(kind, cells)    == Arr(kind, cells, 0)
NoArray == Made("Null", <<>>)
Nullable(a) == a.kind = "Null" \/ Null \in ToSet(a.cells)
Numbers  == {"Int", "Float", "Decimal"}
JoinArrays(a, b) == IF a.kind = b.kind THEN Some(Made(a.kind, a.cells \o b.cells)) ELSE Refused
JoinAllArrays(s) ==
  IF s = <<>> THEN Some(NoArray)
  ELSE FoldLeft(LAMBDA r, a : IF Ok(r) THEN JoinArrays(r[1], a) ELSE r, Some(Head(s)), Tail(s))
ArrayOfScalar(s) == IF s.kind = "Null" THEN Made("Int", <<0>>) ELSE Made(s.kind, <<s.cell>>)
ToNumbers(a) == [i \in DOMAIN a.cells |-> IF a.kind = "Text" /\ a.cells[i] >= Word THEN Null ELSE a.cells[i]]

View(a, off, n) == [array |-> a, off |-> off, n |-> n]
Whole(a) == View(a, 0, Len(a.cells))
Seen(v)  == IF v = Whole(v.array) THEN v.array ELSE Made(v.array.kind, Cut(v.array.cells, v.off, v.n))
Narrowed(v, off, n) == [v EXCEPT !.off = @ + off, !.n = n]
SameArray(a, b) == a.kind = b.kind /\ (a.kind = "Null" \/ (a.at # 0 /\ a.at = b.at))
AdjacentArrays(v, w) ==
  IF SameArray(v.array, w.array) /\ v.off + v.n = w.off THEN Some([v EXCEPT !.n = @ + w.n]) ELSE Refused

Field(name, kind, nullable) == [name |-> name, kind |-> kind, nullable |-> nullable]
Col(field, a)  == [field |-> field, array |-> a]
Named(name, a) == Col(Field(name, a.kind, Nullable(a)), a)
Tab(name, cols) == [name |-> name, cols |-> cols, rows |-> IF cols = <<>> THEN 0 ELSE Len(cols[1].array.cells)]
NoTable == Tab("", <<>>)
Alone(a) == Tab("array", <<Named("column_0", a)>>)
InField(field, a) == IF field = <<>> THEN Alone(a) ELSE Tab("array", <<Col(field[1], a)>>)
Schema(t) == [c \in DOMAIN t.cols |-> t.cols[c].field]
OnlyColumn(t) == IF Len(t.cols) = 1 THEN Some(t.cols[1].array) ELSE Refused
JoinTables(t, u) ==
  IF Len(t.cols) = Len(u.cols) /\ Schema(t) = Schema(u)
  THEN Some(Tab(t.name, [c \in DOMAIN t.cols |-> Col(t.cols[c].field, JoinArrays(t.cols[c].array, u.cols[c].array)[1])]))
  ELSE Refused
JoinAllTables(s) ==
  IF s = <<>> THEN Some(NoTable)
  ELSE FoldLeft(LAMBDA r, t : IF Ok(r) THEN JoinTables(r[1], t) ELSE r, Some(Head(s)), Tail(s))

(* A table view is [name, fields, cols, off, n, picked]: picked is <<>> or *)
(* the numbers of the columns that are selected.                           *)
TabV(t, off, n) ==
  [name |-> t.name, fields |-> Schema(t), cols |-> [c \in DOMAIN t.cols |-> View(t.cols[c].array, off, n)],
   off |-> off, n |-> n, picked |-> <<>>]
Picked(v) == IF v.picked = <<>> THEN [c \in DOMAIN v.cols |-> c] ELSE v.picked[1]
SeenTable(v) ==
  [Tab(v.name, [k \in DOMAIN Picked(v) |-> Col(v.fields[Picked(v)[k]], Seen(v.cols[Picked(v)[k]]))]) EXCEPT !.rows = v.n]
NarrowedTable(v, off, n) ==
  [v EXCEPT !.cols = [c \in DOMAIN @ |-> Narrowed(@[c], off, n)], !.off = @ + off, !.n = n]
AdjacentTables(v, w) ==
  LET joined == [c \in DOMAIN v.cols |-> IF c \in DOMAIN w.cols THEN AdjacentArrays(v.cols[c], w.cols[c]) ELSE Refused]
  IN  IF v.off + v.n = w.off /\ Len(v.cols) = Len(w.cols) /\ v.picked = w.picked /\ AllOk(joined)
      THEN Some([v EXCEPT !.cols = Got(joined), !.n = @ + w.n]) ELSE Refused

(* The pieces that a window of a chunked value is made of, as <<chunk,     *)
(* offset, length>>: a window without rows has one, unless it is the end.  *)
Shorter(n, m) == IF n < m THEN n ELSE m
Longer(n, m)  == IF n < m THEN m ELSE n
Extent(i, start, len, off, n) ==   \* <<piece, first row, rows>>, or nothing
  IF len > 0 /\ off < start + len /\ (start < off + n \/ start <= off)
  THEN <<<<i, Longer(0, off - start), Shorter(len, off + n - start) - Longer(0, off - start)>>>>
  ELSE <<>>
Pieces(lens, off, n) ==
  FlattenSeq([i \in DOMAIN lens |-> Extent(i, FoldLeft(LAMBDA s, len : s + len, 0, SubSeq(lens, 1, i - 1)), lens[i], off, n)])

(* Chunked arrays [field, chunks], their views [field, slices], chunked    *)
(* tables [schema, batches] and theirs: a sequence of table views.         *)
CellsOf(arrays) == FlattenSeq([i \in DOMAIN arrays |-> arrays[i].cells])
ArrayOfChunks(x) ==
  JoinAllArrays(SelectSeq(x.chunks, LAMBDA a : a.cells # <<>>))
AllAlike(arrays) == \A i \in DOMAIN arrays : arrays[i].kind = arrays[1].kind
SuperOf(arrays)  == IF AllAlike(arrays) THEN Some([field |-> <<>>, chunks |-> arrays]) ELSE Panic
SuperViewOf(x)   == [field |-> x.field, slices |-> [i \in DOMAIN x.chunks |-> Whole(x.chunks[i])]]
LastOf(v) == v.off + v.n
LinedUp(s) ==   \* taken for windows of one array when their arrays are equally long
  \A i \in 2..Len(s) : Len(s[i].array.cells) = Len(s[1].array.cells) /\ s[i].off = LastOf(s[i - 1])
Consolidated(x) ==
  LET s == x.slices
  IN  CASE s = <<>> -> IF x.field = <<>> THEN NoArray ELSE Made(x.field[1].kind, <<>>)
        [] Len(s) = 1 -> Seen(s[1])
        [] OTHER -> IF LinedUp(s) /\ s[1].off = 0 /\ LastOf(s[Len(s)]) = Len(s[1].array.cells) THEN s[1].array
                    ELSE Made(s[1].array.kind, CellsOf([i \in DOMAIN s |-> Seen(s[i])]))
BatchesOf(tables) ==
  IF tables = <<>> THEN Some([schema |-> <<>>, batches |-> <<>>])
  ELSE IF \A i \in DOMAIN tables : Schema(tables[i]) = Schema(tables[1])
       THEN Some([schema |-> Schema(tables[1]), batches |-> tables]) ELSE Panic
RowsIn(tables) == FoldLeft(LAMBDA n, t : n + t.rows, 0, tables)
TableOfBatches(x) ==
  JoinAllTables(SelectSeq(x.batches, LAMBDA t : t.rows > 0))
RowsSeen(views) == FoldLeft(LAMBDA n, v : n + v.n, 0, views)
BatchesOfViews(views) ==
  IF RowsSeen(views) = 0 THEN [schema |-> <<>>, batches |-> <<>>]
  ELSE [schema |-> views[1].fields, batches |-> [i \in DOMAIN views |-> SeenTable(views[i])]]
ViewsOfBatches(x) ==
  [i \in DOMAIN Pieces([b \in DOMAIN x.batches |-> x.batches[b].rows], 0, RowsIn(x.batches)) |->
     LET p == Pieces([b \in DOMAIN x.batches |-> x.batches[b].rows], 0, RowsIn(x.batches))[i]
     IN  TabV(x.batches[p[1]], p[2], p[3])]
ConsolidatedViews(views) == IF views = <<>> THEN Some(NoTable) ELSE JoinAllTables([i \in DOMAIN views |-> SeenTable(views[i])])

-----------------------------------------------------------------------------
(* Matrices and tensors of one or two axes are [rank, rows, cols], cols of *)
(* cells; a labelled array has the labels of its columns besides.          *)
Nd(rank, rows, cols) == [rank |-> rank, rows |-> rows, cols |-> cols]
CutNd(x, off, n) == Nd(x.rank, n, [c \in DOMAIN x.cols |-> Cut(x.cols[c], off, n)])
WindowNd(x, off, n) == [nd |-> x, off |-> off, n |-> n]
SeenNd(v) == CutNd(v.nd, v.off, v.n)
ColNames == <<"col_0", "col_1", "col_2">>
Plain(name) == Field(name, "Float", FALSE)
TableOfCols(names, x) ==
  [Tab("", [c \in DOMAIN x.cols |-> Col(Plain(names[c]), Made("Float", x.cols[c]))]) EXCEPT !.rows = IF x.cols = <<>> THEN 0 ELSE x.rows]
TableOfNd(x) == IF x.rank = 2 THEN Some(TableOfCols(ColNames, x)) ELSE Refused
ArrayOfNd(x) == IF x.rank = 1 THEN Some(Made("Float", x.cols[1])) ELSE Refused
JoinNd(x, y) ==
  IF x.rank = y.rank /\ Len(x.cols) = Len(y.cols)
  THEN Some(Nd(x.rank, x.rows + y.rows, [c \in DOMAIN x.cols |-> x.cols[c] \o y.cols[c]])) ELSE Refused
JoinAllNd(s) == FoldLeft(LAMBDA r, x : IF Ok(r) THEN JoinNd(r[1], x) ELSE r, Some(Head(s)), Tail(s))
NdOfBatches(batches) ==
  LET full == SelectSeq(batches, LAMBDA x : x.rows * Len(x.cols) > 0)
  IN  IF full = <<>> THEN Some(Nd(1, 0, <<<<>>>>)) ELSE JoinAllNd(full)
ObsIn(batches) == FoldLeft(LAMBDA n, x : n + x.rows, 0, batches)
(* A matrix asks for nulls before a column is cast, so that what is no     *)
(* number becomes a zero there and a NaN in a tensor.                      *)
MatrixOfTable(t) ==
  IF \E c \in DOMAIN t.cols : t.cols[c].array.kind = "Null" \/ Nullable(t.cols[c].array) THEN Refused
  ELSE Some(Nd(2, t.rows, [c \in DOMAIN t.cols |-> LET n == ToNumbers(t.cols[c].array)
                                                  IN  [i \in DOMAIN n |-> IF n[i] = Null THEN 0 ELSE n[i]]]))
NdOfTable(t) ==
  CASE t.cols = <<>> -> Some(Nd(2, 0, <<>>))
    [] \E c \in DOMAIN t.cols : t.cols[c].array.kind = "Null" -> Refused
    [] OTHER -> Some(Nd(2, t.rows, [c \in DOMAIN t.cols |-> LET n == ToNumbers(t.cols[c].array)
                                                       IN  [i \in DOMAIN n |-> IF n[i] = Null THEN NaN ELSE n[i]]]))
-----------------------------------------------------------------------------
Wrappers == {"BoxValue", "ArcValue"}
Tuples   == {"Tuple2", "Tuple3", "Tuple4", "Tuple5", "Tuple6"}
Tensors  == {"Matrix", "MatrixView", "NdArray", "NdArrayView", "SuperNdArray", "SuperNdArrayView", "XArray"}
TupleName == <<"none", "Tuple2", "Tuple3", "Tuple4", "Tuple5", "Tuple6">>
RECURSIVE Opened(_)
Opened(v) == IF v[1] \in Wrappers THEN Opened(v[2]) ELSE v
SingleVariant(values) == \A i \in DOMAIN values : values[i][1] = values[1][1]

RECURSIVE ToArray(_), ToTable(_)
ArrayOfWindow(v) == Some(Seen(v))   \* of an ArrayView
ArrayOfWindows(x) == Some(Consolidated(x))   \* of a SuperArrayView
ToArray(v) ==
  LET x == v[2]
  IN  CASE v[1] = "Array"          -> Some(x)
        [] v[1] = "ArrayView"      -> ArrayOfWindow(x)
        [] v[1] = "FieldArray"     -> Some(x.array)
        [] v[1] = "Scalar"         -> Some(ArrayOfScalar(x))
        [] v[1] \in Wrappers       -> ToArray(x)
        [] v[1] = "Table"          -> OnlyColumn(x)
        [] v[1] = "TableView"      -> OnlyColumn(SeenTable(x))
        [] v[1] = "SuperArray"     -> ArrayOfChunks(x)
        [] v[1] = "SuperArrayView" -> ArrayOfWindows(x)
        [] v[1] = "NdArray"        -> ArrayOfNd(x)
        [] v[1] = "NdArrayView"    -> ArrayOfNd(SeenNd(x))
        [] v[1] = "SuperNdArray"   -> ArrayOfNd(NdOfBatches(x)[1])
        [] v[1] = "SuperNdArrayView" -> ArrayOfNd(NdOfBatches([i \in DOMAIN x |-> SeenNd(x[i])])[1])
        [] v[1] \in {"SuperTable", "SuperTableView", "Matrix", "MatrixView", "XArray", "Cube"} ->
             Then(ToTable(v), OnlyColumn)
        [] v[1] = "VecValue" ->
             IF SingleVariant(x) THEN ThenAll([i \in DOMAIN x |-> ToArray(x[i])], JoinAllArrays) ELSE Refused
        [] OTHER -> Refused

ToTable(v) ==
  LET x == v[2]
  IN  CASE v[1] = "Table"      -> Some(x)
        [] v[1] = "TableView"  -> Some(SeenTable(x))
        [] v[1] \in {"Array", "ArrayView", "Scalar"} -> Some(Alone(ToArray(v)[1]))
        [] v[1] = "FieldArray" -> Some(Tab("array", <<x>>))
        [] v[1] \in {"SuperArray", "SuperArrayView"} ->
             Gives(ToArray(v), LAMBDA a : InField(x.field, a))
        [] v[1] = "SuperTable"     -> TableOfBatches(x)
        [] v[1] = "SuperTableView" -> TableOfBatches(BatchesOfViews(x))
        [] v[1] = "Matrix"         -> Some(TableOfCols(ColNames, x))
        [] v[1] = "MatrixView"     -> Some(TableOfCols(ColNames, SeenNd(x)))
        [] v[1] = "NdArray"        -> TableOfNd(x)
        [] v[1] = "NdArrayView"    -> TableOfNd(SeenNd(x))
        [] v[1] = "SuperNdArray"   -> TableOfNd(NdOfBatches(x)[1])
        [] v[1] = "SuperNdArrayView" -> TableOfNd(NdOfBatches([i \in DOMAIN x |-> SeenNd(x[i])])[1])
        [] v[1] = "XArray" -> IF x.nd.rank = 2 THEN Some(TableOfCols(x.labels, x.nd)) ELSE Refused
        [] v[1] = "Cube"   -> JoinAllTables(x.tables)
        [] v[1] = "VecValue" ->
             IF SingleVariant(x) THEN ThenAll([i \in DOMAIN x |-> ToTable(x[i])], JoinAllTables) ELSE Refused
        [] v[1] \in Wrappers -> ToTable(x)
        [] OTHER -> Refused

-----------------------------------------------------------------------------
(* A value as one of the library's types, which holds what the value holds *)
(* or refuses.  Boxed and shared values open by themselves.                *)
Held(variant, r) == Gives(r, LAMBDA x : <<variant, x>>)
Accessor(variant, v) == IF v[1] = variant THEN Some(v[2]) ELSE Refused
AsScalar(v)     == Accessor("Scalar", Opened(v))
AsFieldArray(v) == Accessor("FieldArray", Opened(v))
AsNdArrayV(v)      == Accessor("NdArrayView", Opened(v))
AsSuperNdArray(v)  == Accessor("SuperNdArray", Opened(v))
AsSuperNdArrayV(v) == Accessor("SuperNdArrayView", Opened(v))
AsXArray(v)        == Accessor("XArray", Opened(v))
AsNumber(v) == IF Ok(AsScalar(v)) /\ AsScalar(v)[1].kind = "Null" THEN Refused ELSE AsScalar(v)
AsOption(v) ==
  IF ~Ok(AsScalar(v)) THEN Refused
  ELSE IF AsScalar(v)[1].kind = "Null" THEN Some(<<>>) ELSE Some(Some(AsScalar(v)[1].cell))

OnlyWindow(v) == v.cols[Picked(v)[1]]
RECURSIVE AsArrayV(_)
AsArrayV(v) ==
  CASE v[1] \in Wrappers  -> AsArrayV(v[2])
    [] v[1] = "ArrayView" -> Some(v[2])
    [] v[1] = "TableView" /\ Len(Picked(v[2])) = 1 -> Some(OnlyWindow(v[2]))
    [] OTHER -> Gives(ToArray(v), Whole)
OfKinds(r, kinds) == IF Ok(r) /\ r[1].array.kind \notin kinds THEN Refused ELSE r
AsNumericV(v)  == OfKinds(AsArrayV(v), Numbers)
AsTextV(v)     == OfKinds(AsArrayV(v), {"Text"})
AsTemporalV(v) == OfKinds(AsArrayV(v), {"Time"})
AsBooleanV(v)  == OfKinds(AsArrayV(v), {"Bool"})
WithoutNulls(v) == View(Made(v.array.kind, [i \in DOMAIN v.array.cells |-> IF v.array.cells[i] = Null THEN 0 ELSE v.array.cells[i]]), v.off, v.n)
AsBitmaskV(v) ==   \* the bits of the booleans, nulls or not
  CASE v[1] = "ArrayView" /\ v[2].array.kind = "Bool" -> Some(WithoutNulls(v[2]))
    [] v[1] = "Array" /\ v[2].kind = "Bool"           -> Some(WithoutNulls(Whole(v[2])))
    [] OTHER -> Refused
OfTypedView(v) == <<"ArrayView", View(v.array, v.off, v.n)>>
OfBooleanView(v) == <<"ArrayView", View(v.array, v.off, v.n)>>
OfBitmaskV(v)  == <<"ArrayView", WithoutNulls(v)>>
WholeTable(t) == TabV(t, 0, t.rows)
AsTableV(v) ==
  IF v[1] = "TableView" THEN Some(v[2])
  ELSE Gives(ToTable(v), WholeTable)

TablesIn(values) == [i \in DOMAIN values |-> ToTable(values[i])]
CubeOf(tables) ==
  [tables |-> tables, index |-> <<>>,
   resolver |-> [name \in {tables[i].name : i \in DOMAIN tables} |->
                   CHOOSE i \in DOMAIN tables : tables[i].name = name /\ \A j \in DOMAIN tables : tables[j].name = name => j <= i]]
AsSuperTable(v) ==
  LET x == v[2]
  IN  CASE v[1] = "SuperTable"     -> Some(x)
        [] v[1] = "SuperTableView" -> Some(BatchesOfViews(x))
        [] v[1] = "Cube"           -> BatchesOf(x.tables)
        [] v[1] = "VecValue" ->
             IF SingleVariant(x) THEN ThenAll(TablesIn(x), BatchesOf) ELSE Refused
        [] OTHER -> Then(ToTable(v), LAMBDA t : BatchesOf(<<t>>))
AsSuperTableV(v) ==
  IF v[1] = "SuperTableView" THEN Some(v[2])
  ELSE Gives(AsSuperTable(v), ViewsOfBatches)
RECURSIVE AsCube(_)
AsCube(v) ==
  LET x == v[2]
  IN  CASE v[1] = "Cube"           -> Some(x)
        [] v[1] \in Wrappers       -> AsCube(x)
        [] v[1] = "SuperTable"     -> Some(CubeOf(x.batches))
        [] v[1] = "SuperTableView" -> Some(CubeOf(BatchesOfViews(x).batches))
        [] v[1] = "VecValue" ->
             IF SingleVariant(x) THEN ThenAll(TablesIn(x), LAMBDA tables : Some(CubeOf(tables))) ELSE Refused
        [] OTHER -> Gives(ToTable(v), LAMBDA t : CubeOf(<<t>>))
AsSuperArray(v) ==
  LET x == v[2]
  IN  CASE v[1] = "SuperArray" -> Some(x)
        [] v[1] = "VecValue" ->
             IF SingleVariant(x) THEN ThenAll([i \in DOMAIN x |-> ToArray(x[i])], SuperOf) ELSE Refused
        [] OTHER -> Then(ToArray(v), LAMBDA a : SuperOf(<<a>>))
AsSuperArrayV(v) ==
  LET x == v[2]
  IN  CASE v[1] = "SuperArrayView" -> Some(x)
        [] v[1] = "ArrayView"      -> Some([field |-> <<>>, slices |-> <<x>>])
        [] v[1] = "TableView" /\ Len(Picked(x)) = 1 -> Some([field |-> <<x.fields[Picked(x)[1]]>>, slices |-> <<OnlyWindow(x)>>])
        [] OTHER -> Gives(AsSuperArray(v), SuperViewOf)
AsMatrix(v) ==
  CASE v[1] = "Matrix"     -> Some(v[2])
    [] v[1] = "MatrixView" -> Some(SeenNd(v[2]))
    [] OTHER -> Then(ToTable(v), MatrixOfTable)
WholeNd(x) == WindowNd(x, 0, x.rows)
AsMatrixV(v) ==
  CASE v[1] = "MatrixView" -> Some(v[2])
    [] v[1] = "Matrix"     -> Some(WholeNd(v[2]))
    [] OTHER -> Gives(AsMatrix(v), WholeNd)
AsNdArray(v) ==
  IF v[1] = "NdArray" THEN Some(v[2])
  ELSE Then(ToTable(v), NdOfTable)
RECURSIVE AsVec(_)
AsVec(v) ==
  CASE v[1] = "VecValue" \/ v[1] \in Tuples -> Some(v[2])
    [] v[1] \in Wrappers -> AsVec(v[2])
    [] OTHER -> Some(<<v>>)
AsTuple(n, v) ==   \* of n members: from such a tuple or from as many values
  LET w == Opened(v) IN IF (w[1] = TupleName[n] \/ w[1] = "VecValue") /\ Len(w[2]) = n THEN Some(w[2]) ELSE Refused
AsTuple2(v) == AsTuple(2, v)
AsTuple3(v) == AsTuple(3, v)
AsTuple4(v) == AsTuple(4, v)
AsTuple5(v) == AsTuple(5, v)
AsTuple6(v) == AsTuple(6, v)

Converted(target, v) ==
  CASE target = "Array"        -> ToArray(v)
    [] target = "Table"        -> ToTable(v)
    [] target = "Scalar"       -> AsScalar(v)
    [] target = "FieldArray"   -> AsFieldArray(v)
    [] target = "ArrayView"    -> AsArrayV(v)
    [] target = "TableView"    -> AsTableV(v)
    [] target = "SuperArray"   -> AsSuperArray(v)
    [] target = "SuperArrayView" -> AsSuperArrayV(v)
    [] target = "SuperTable"   -> AsSuperTable(v)
    [] target = "SuperTableView" -> AsSuperTableV(v)
    [] target = "Cube"         -> AsCube(v)
    [] target = "Matrix"       -> AsMatrix(v)
    [] target = "MatrixView"   -> AsMatrixV(v)
    [] target = "NdArray"      -> AsNdArray(v)
    [] target = "NdArrayView"  -> AsNdArrayV(v)
    [] target = "SuperNdArray" -> AsSuperNdArray(v)
    [] target = "SuperNdArrayView" -> AsSuperNdArrayV(v)
    [] target = "XArray"       -> AsXArray(v)
    [] target = "VecValue"     -> AsVec(v)
    [] target = "Tuple2"       -> AsTuple2(v)
    [] target = "Tuple3"       -> AsTuple3(v)
    [] target = "Tuple4"       -> AsTuple4(v)
    [] target = "Tuple5"       -> AsTuple5(v)
    [] target = "Tuple6"       -> AsTuple6(v)

-----------------------------------------------------------------------------
(* What a value says of itself.                                            *)
Sum(s) == FoldLeft(LAMBDA n, m : n + m, 0, s)
RECURSIVE LenOf(_)
LenOf(v) ==
  LET x == v[2]
  IN  CASE v[1] = "Scalar"         -> 1
        [] v[1] = "Array"          -> Len(x.cells)
        [] v[1] = "FieldArray"     -> Len(x.array.cells)
        [] v[1] \in {"Table", "Matrix", "NdArray"} -> x.rows
        [] v[1] \in {"ArrayView", "TableView", "MatrixView", "NdArrayView"} -> x.n
        [] v[1] = "SuperArray"     -> Len(CellsOf(x.chunks))
        [] v[1] = "SuperArrayView" -> RowsSeen(x.slices)
        [] v[1] = "SuperTable"     -> RowsIn(x.batches)
        [] v[1] = "SuperNdArray"   -> ObsIn(x)
        [] v[1] \in {"SuperTableView", "SuperNdArrayView"} -> RowsSeen(x)
        [] v[1] = "XArray"         -> x.nd.rows
        [] v[1] = "Cube"           -> Len(x.tables)
        [] v[1] \in Wrappers       -> LenOf(x)
        [] OTHER -> Sum([i \in DOMAIN x |-> LenOf(x[i])])
Fielded == {"Table", "TableView", "SuperTable", "SuperTableView", "Cube"}
RECURSIVE FieldsOf(_), TypeOf(_)
FieldsOf(v) ==   \* of a view every field, selected or not
  LET x == v[2]
  IN  CASE v[1] = "Scalar"     -> Some(<<Field("", x.kind, TRUE)>>)
        [] v[1] = "Array"      -> Some(<<Field("", x.kind, Nullable(x))>>)
        [] v[1] = "ArrayView"  -> Some(<<Field("", x.array.kind, Nullable(x.array))>>)
        [] v[1] = "FieldArray" -> Some(<<x.field>>)
        [] v[1] = "Table"      -> Some(Schema(x))
        [] v[1] = "TableView"  -> Some(x.fields)
        [] v[1] = "SuperTable" -> Some(x.schema)
        [] v[1] = "SuperTableView" -> IF x = <<>> THEN Panic ELSE Some(x[1].fields)
        [] v[1] = "Cube"       -> IF x.tables = <<>> THEN Panic ELSE Some(Schema(x.tables[1]))
        [] v[1] \in {"SuperArray", "SuperArrayView"} -> IF x.field = <<>> THEN Refused ELSE Some(x.field)
        [] v[1] \in Wrappers   -> FieldsOf(x)
        [] OTHER -> Refused
TypeOf(v) ==
  LET x == v[2]
  IN  CASE v[1] \in {"Scalar", "Array"} -> Some(x.kind)
        [] v[1] = "ArrayView"  -> Some(x.array.kind)
        [] v[1] = "FieldArray" -> Some(x.field.kind)
        [] v[1] \in {"SuperArray", "SuperArrayView"} -> IF x.field = <<>> THEN Refused ELSE Some(x.field[1].kind)
        [] v[1] \in Tensors    -> Some("Float")
        [] v[1] \in Wrappers   -> TypeOf(x)
        [] OTHER -> Refused
Arity(v) == IF v[1] \in Tuples THEN Len(v[2]) ELSE 1
Rank1(n)    == <<"Rank1", <<n>>>>
Rank2(n, m) == <<"Rank2", <<n, m>>>>
ShapeOfNd(x, n) == IF x.rank = 1 THEN Rank1(n) ELSE Rank2(n, Len(x.cols))
RECURSIVE ShapeOf(_)
ShapeOf(v) ==
  LET x == v[2]
  IN  CASE v[1] = "Scalar" -> <<"Rank0", <<1>>>>
        [] v[1] \in {"Array", "ArrayView", "SuperArray", "SuperArrayView", "FieldArray"} -> Rank1(LenOf(v))
        [] v[1] = "Table"          -> Rank2(x.rows, Len(x.cols))
        [] v[1] = "TableView"      -> Rank2(x.n, Len(Picked(x)))
        [] v[1] = "SuperTable"     -> Rank2(LenOf(v), Len(x.schema))
        [] v[1] = "SuperTableView" -> Rank2(LenOf(v), IF x = <<>> THEN 0 ELSE Len(x[1].fields))
        [] v[1] = "Matrix"         -> Rank2(x.rows, Len(x.cols))
        [] v[1] = "MatrixView"     -> Rank2(x.n, Len(x.nd.cols))
        [] v[1] = "NdArray"        -> ShapeOfNd(x, x.rows)
        [] v[1] \in {"NdArrayView", "XArray"} -> ShapeOfNd(x.nd, LenOf(v))
        [] v[1] = "SuperNdArray"     -> ShapeOfNd(x[1], ObsIn(x))
        [] v[1] = "SuperNdArrayView" -> ShapeOfNd(x[1].nd, LenOf(v))
        [] v[1] = "Cube"    -> <<"Collection", [i \in DOMAIN x.tables |-> ShapeOf(<<"Table", x.tables[i]>>)]>>
        [] v[1] \in Wrappers -> ShapeOf(x)
        [] OTHER -> <<"Collection", [i \in DOMAIN x |-> ShapeOf(x[i])]>>

(* Equal values are of one variant and hold the same wherever they hold it.*)
(* Views of arrays and tables are compared with the arrays that they look  *)
(* at, those of tensors by what they see; views of batches have no arm.    *)
SameCells(a, b) == a.kind = b.kind /\ a.cells = b.cells
Each(s, t, same(_, _)) == Len(s) = Len(t) /\ \A i \in DOMAIN s : same(s[i], t[i])
SameView(v, w)  == SameCells(v.array, w.array) /\ v.off = w.off /\ v.n = w.n
SameCol(c, d)   == c.field = d.field /\ SameCells(c.array, d.array)
SameTab(t, u)   == t.name = u.name /\ t.rows = u.rows /\ Each(t.cols, u.cols, SameCol)
SameTabV(v, w)  == v.fields = w.fields /\ v.off = w.off /\ v.n = w.n /\ v.picked = w.picked /\ Each(v.cols, w.cols, SameView)
SameNumbers(x, y) ==   \* a NaN is no number, not even itself
  x.rank = y.rank /\ x.rows = y.rows /\ x.cols = y.cols /\ \A c \in DOMAIN x.cols : NaN \notin ToSet(x.cols[c])
SameRuns(s, t) == IF s = <<>> \/ t = <<>> THEN s = t ELSE SameNumbers(JoinAllNd(s)[1], JoinAllNd(t)[1])
SeenNds(views) == [i \in DOMAIN views |-> SeenNd(views[i])]
SameCube(c, d) == c.index = d.index /\ c.resolver = d.resolver /\ Each(c.tables, d.tables, SameTab)
RECURSIVE Same(_, _)
Same(v, w) ==
  LET x == v[2]  y == w[2]
  IN  CASE v[1] # w[1] -> FALSE
        [] v[1] = "Array"      -> SameCells(x, y)
        [] v[1] = "ArrayView"  -> SameView(x, y)
        [] v[1] = "FieldArray" -> SameCol(x, y)
        [] v[1] = "Table"      -> SameTab(x, y)
        [] v[1] = "TableView"  -> SameTabV(x, y)
        [] v[1] = "SuperArray" -> x.field = y.field /\ Each(x.chunks, y.chunks, SameCells)
        [] v[1] = "SuperArrayView" -> x.field = y.field /\ Each(x.slices, y.slices, SameView)
        [] v[1] = "SuperTable" -> x.schema = y.schema /\ Each(x.batches, y.batches, SameTab)
        [] v[1] = "SuperTableView" -> FALSE
        [] v[1] \in {"Matrix", "NdArray"}         -> SameNumbers(x, y)
        [] v[1] \in {"MatrixView", "NdArrayView"} -> SameNumbers(SeenNd(x), SeenNd(y))
        [] v[1] = "SuperNdArray"     -> SameRuns(x, y)
        [] v[1] = "SuperNdArrayView" -> SameRuns(SeenNds(x), SeenNds(y))
        [] v[1] = "XArray"           -> x.labels = y.labels /\ SameNumbers(x.nd, y.nd)
        [] v[1] = "Cube"             -> SameCube(x, y)
        [] v[1] \in Wrappers         -> Same(x, y)
        [] v[1] = "Scalar"           -> x = y
        [] OTHER -> Len(x) = Len(y) /\ \A i \in DOMAIN x : Same(x[i], y[i])

SliceOfChunks(chunks, off, n) ==
  LET pieces == Pieces([i \in DOMAIN chunks |-> Len(chunks[i].cells)], off, n)
  IN  [k \in DOMAIN pieces |-> View(chunks[pieces[k][1]], pieces[k][2], pieces[k][3])]
SliceOfWindows(slices, off, n) ==
  LET pieces == Pieces([i \in DOMAIN slices |-> slices[i].n], off, n)
  IN  [k \in DOMAIN pieces |-> Narrowed(slices[pieces[k][1]], pieces[k][2], pieces[k][3])]
SliceOfBatches(batches, off, n) ==
  LET pieces == Pieces([i \in DOMAIN batches |-> batches[i].rows], off, n)
  IN  [k \in DOMAIN pieces |-> TabV(batches[pieces[k][1]], pieces[k][2], pieces[k][3])]
SliceOfTables(views, off, n) ==
  LET pieces == Pieces([i \in DOMAIN views |-> views[i].n], off, n)
  IN  [k \in DOMAIN pieces |-> NarrowedTable(views[pieces[k][1]], pieces[k][2], pieces[k][3])]
SliceOfNds(batches, off, n) ==
  LET pieces == Pieces([i \in DOMAIN batches |-> batches[i].rows], off, n)
  IN  [k \in DOMAIN pieces |-> WindowNd(batches[pieces[k][1]], pieces[k][2], pieces[k][3])]
RECURSIVE Slice(_, _, _)
Slice(v, off, n) ==   \* many values are cut by values, though they count rows
  LET x == v[2]
  IN  CASE v[1] = "Scalar"         -> v
        [] v[1] = "Array"          -> <<"ArrayView", View(x, off, n)>>
        [] v[1] = "FieldArray"     -> <<"ArrayView", View(x.array, off, n)>>
        [] v[1] = "ArrayView"      -> <<"ArrayView", Narrowed(x, off, n)>>
        [] v[1] = "Table"          -> <<"TableView", TabV(x, off, n)>>
        [] v[1] = "TableView"      -> <<"TableView", NarrowedTable(x, off, n)>>
        [] v[1] = "SuperArray"     -> <<"SuperArrayView", [field |-> x.field, slices |-> SliceOfChunks(x.chunks, off, n)]>>
        [] v[1] = "SuperArrayView" -> <<"SuperArrayView", [field |-> x.field, slices |-> SliceOfWindows(x.slices, off, n)]>>
        [] v[1] = "SuperTable"     -> <<"SuperTableView", SliceOfBatches(x.batches, off, n)>>
        [] v[1] = "SuperTableView" -> <<"SuperTableView", SliceOfTables(x, off, n)>>
        [] v[1] = "Matrix"         -> <<"MatrixView", WindowNd(x, off, n)>>
        [] v[1] = "NdArray"        -> <<"NdArrayView", WindowNd(x, off, n)>>
        [] v[1] \in {"MatrixView", "NdArrayView"} -> <<v[1], Narrowed(x, off, n)>>
        [] v[1] = "SuperNdArray"     -> <<"SuperNdArrayView", SliceOfNds(x, off, n)>>
        [] v[1] = "SuperNdArrayView" -> <<"SuperNdArrayView", SliceOfWindows(x, off, n)>>
        [] v[1] = "XArray"         -> <<"XArray", [x EXCEPT !.nd = CutNd(@, off, n)]>>
        [] v[1] = "VecValue"       -> <<"VecValue", SubSeq(x, off + 1, Shorter(off + n, Len(x)))>>
        [] v[1] \in Wrappers       -> Slice(x, off, n)
        [] v[1] \in Tuples         -> <<v[1], [i \in DOMAIN x |-> Slice(x[i], off, n)]>>

-----------------------------------------------------------------------------
(* The rows of a value followed by those of another of its variant.        *)
JoinScalars(a, b) ==
  CASE a.kind # b.kind \/ a.kind = "Decimal" -> Refused
    [] a.kind = "Null" -> Some(<<"Array", NoArray>>)
    [] OTHER -> Some(<<"Array", Made(a.kind, <<a.cell, b.cell>>)>>)
JoinCols(c, d) == IF c.field = d.field THEN Some(Col(c.field, JoinArrays(c.array, d.array)[1])) ELSE Refused
JoinViews(v, w) ==
  OrElse(AdjacentArrays(v, w), Gives(JoinArrays(Seen(v), Seen(w)), Whole))
JoinTableViews(v, w) ==
  OrElse(AdjacentTables(v, w), Gives(JoinTables(SeenTable(v), SeenTable(w)), WholeTable))
FirstField(x, y) == IF x.field = <<>> THEN y.field ELSE x.field
JoinChunked(x, y) ==
  CASE x.chunks = <<>> -> Some(y)
    [] y.chunks = <<>> -> Some(x)
    [] OTHER -> IF AllAlike(x.chunks \o y.chunks) THEN Some([field |-> FirstField(x, y), chunks |-> x.chunks \o y.chunks]) ELSE Refused
JoinSlices(x, y) ==
  CASE x.slices = <<>> -> Some(y)
    [] y.slices = <<>> -> Some(x)
    [] OTHER -> IF AllAlike([i \in DOMAIN (x.slices \o y.slices) |-> (x.slices \o y.slices)[i].array])
                THEN Some([field |-> FirstField(x, y), slices |-> x.slices \o y.slices]) ELSE Refused
JoinBatched(x, y) ==
  CASE x.batches = <<>> -> Some(y)
    [] y.batches = <<>> -> Some(x)
    [] OTHER -> IF x.schema = y.schema THEN Some([x EXCEPT !.batches = @ \o y.batches]) ELSE Refused
JoinBatchedViews(x, y) ==   \* both are put together first, into one view
  LET t == ConsolidatedViews(x)  u == ConsolidatedViews(y)
      joined == JoinTables(t[1], u[1])
  IN  IF ~Ok(t) \/ ~Ok(u) THEN Panic ELSE IF Ok(joined) THEN Some(<<WholeTable(joined[1])>>) ELSE Refused
JoinMatrices(x, y) ==
  CASE Len(x.cols) # Len(y.cols) -> Refused
    [] x.rows = 0 /\ y.rows = 0  -> Some(Nd(2, 0, <<>>))
    [] OTHER -> JoinNd(x, y)
JoinTensors(x, y) == IF x[1].rank = y[1].rank /\ Len(x[1].cols) = Len(y[1].cols) THEN Some(x \o y) ELSE Refused
JoinTensorViews(x, y) ==
  IF x[1].nd.rank = y[1].nd.rank /\ Len(x[1].nd.cols) = Len(y[1].nd.cols) THEN Some(x \o y) ELSE Refused
JoinLabelled(x, y) ==
  IF x.nd.rank = y.nd.rank /\ x.labels = y.labels
  THEN Gives(JoinNd(x.nd, y.nd), LAMBDA nd : [x EXCEPT !.nd = nd])
  ELSE Refused
Types(t) == {<<t.cols[c].field.name, t.cols[c].field.kind>> : c \in DOMAIN t.cols}
JoinCubes(c, d) ==   \* of the same columns, in whatever order; tables are not asked for nulls
  CASE c.tables = <<>> -> Some(d)
    [] d.tables = <<>> -> Some(c)
    [] OTHER -> IF Types(c.tables[1]) = Types(d.tables[1]) THEN Some([CubeOf(c.tables \o d.tables) EXCEPT !.index = c.index]) ELSE Refused
RECURSIVE Concat(_, _), JoinMembers(_, _)
JoinMembers(x, y) ==
  IF Len(x) # Len(y) THEN Refused ELSE ThenAll([i \in DOMAIN x |-> Concat(x[i], y[i])], Some)
Concat(v, w) ==
  LET x == v[2]  y == w[2]
  IN  CASE v[1] # w[1] -> Refused
        [] v[1] = "Scalar"         -> JoinScalars(x, y)
        [] v[1] = "Array"          -> Held(v[1], JoinArrays(x, y))
        [] v[1] = "Table"          -> Held(v[1], JoinTables(x, y))
        [] v[1] = "FieldArray"     -> Held(v[1], JoinCols(x, y))
        [] v[1] = "ArrayView"      -> Held(v[1], JoinViews(x, y))
        [] v[1] = "TableView"      -> Held(v[1], JoinTableViews(x, y))
        [] v[1] = "SuperArray"     -> Held(v[1], JoinChunked(x, y))
        [] v[1] = "SuperArrayView" -> Held(v[1], JoinSlices(x, y))
        [] v[1] = "SuperTable"     -> Held(v[1], JoinBatched(x, y))
        [] v[1] = "SuperTableView" -> Held(v[1], JoinBatchedViews(x, y))
        [] v[1] = "Matrix"         -> Held(v[1], JoinMatrices(x, y))
        [] v[1] = "MatrixView"     -> Held("Matrix", JoinMatrices(SeenNd(x), SeenNd(y)))
        [] v[1] = "NdArray"        -> Held(v[1], JoinNd(x, y))
        [] v[1] = "NdArrayView"    -> Held("NdArray", JoinNd(SeenNd(x), SeenNd(y)))
        [] v[1] = "SuperNdArray"   -> Held(v[1], JoinTensors(x, y))
        [] v[1] = "SuperNdArrayView" -> Held(v[1], JoinTensorViews(x, y))
        [] v[1] = "XArray"         -> Held(v[1], JoinLabelled(x, y))
        [] v[1] = "Cube"           -> Held(v[1], JoinCubes(x, y))
        [] v[1] \in Wrappers       -> Held(v[1], Concat(x, y))
        [] OTHER                   -> Held(v[1], JoinMembers(x, y))

FoldAdjacent(values, adjacent(_, _)) ==
  FoldLeft(LAMBDA r, v : IF Ok(r) THEN adjacent(r[1], v[2]) ELSE r, Some(values[1][2]), Tail(values))
OrPanic(r) == IF Ok(r) THEN r ELSE Panic
Consolidate(values) ==
  LET all(variant) == \A i \in DOMAIN values : values[i][1] = variant
      joined == CASE all("ArrayView") -> Held("ArrayView", FoldAdjacent(values, AdjacentArrays))
                  [] all("TableView") -> Held("TableView", FoldAdjacent(values, AdjacentTables))
                  [] OTHER -> Refused
  IN  CASE values = <<>>   -> Some(<<"VecValue", <<>>>>)
        [] Len(values) = 1 -> Some(values[1])
        [] OTHER -> IF Ok(joined) THEN joined
                    ELSE FoldLeft(LAMBDA r, v : IF Ok(r) THEN OrPanic(Concat(r[1], v)) ELSE r, Some(values[1]), Tail(values))
Items(v) == IF v[1] = "VecValue" THEN v[2] ELSE <<v>>
Collected(items) == IF Len(items) = 1 THEN items[1] ELSE <<"VecValue", items>>

-----------------------------------------------------------------------------
(* A cube is [tables, index, resolver]: the columns that index its third   *)
(* dimension, and where the table of each name is.                         *)
EmptyCube == CubeOf(<<>>)
NewCube(t, index) ==
  IF \A k \in ToSet(index) : \E c \in DOMAIN t.cols : t.cols[c].field.name = k THEN Some([CubeOf(<<t>>) EXCEPT !.index = index]) ELSE Panic
NullWord == Word + 2   \* the text "Null"
NameOf(cell) == IF cell \in {Null, NullWord} THEN "Null" ELSE ToString(cell)
ColNamed(t, name) == {c \in DOMAIN t.cols : t.cols[c].field.name = name}
Resized(t) == [t EXCEPT !.rows = IF t.cols = <<>> THEN 0 ELSE Len(t.cols[1].array.cells)]
DropCol(t, name) == IF ColNamed(t, name) = {} THEN t ELSE Resized([t EXCEPT !.cols = RemoveAt(@, Least(ColNamed(t, name)))])
DropColAt(t, i)  == IF i \in DOMAIN t.cols THEN Resized([t EXCEPT !.cols = RemoveAt(@, i)]) ELSE t
Rows(t, S) == [t EXCEPT !.rows = Len(S), !.cols = [c \in DOMAIN @ |-> [@[c] EXCEPT !.array = Made(@.kind, [k \in DOMAIN S |-> @.cells[S[k]]])]]]
FromTable(t, name) ==   \* a table for every value of the column, nulls being one
  IF ColNamed(t, name) = {} THEN Refused
  ELSE LET key == t.cols[Least(ColNamed(t, name))].array.cells
           firsts == SelectSeq([i \in DOMAIN key |-> i], LAMBDA i : \A j \in 1..(i - 1) : key[j] # key[i])
           rows(g) == SelectSeq([i \in DOMAIN key |-> i], LAMBDA i : key[i] = key[firsts[g]])
           group(g) == [DropCol(Rows(t, rows(g)), name) EXCEPT !.name = NameOf(key[firsts[g]])]
       IN  Some([CubeOf([g \in DOMAIN firsts |-> group(g)]) EXCEPT !.index = <<name>>])

AddTable(c, t) ==
  IF c.tables # <<>> /\ ~(Types(t) \subseteq Types(c.tables[1])) THEN Panic
  ELSE Some([c EXCEPT !.tables = Append(@, t),
                      !.resolver = [name \in DOMAIN @ \cup {t.name} |-> IF name = t.name THEN Len(c.tables) + 1 ELSE @[name]]])
Unresolved(r, name, i) ==   \* without the name, and the places after i moved up
  [n \in DOMAIN r \ {name} |-> IF r[n] > i THEN r[n] - 1 ELSE r[n]]
RemoveTableAt(c, i) ==
  IF i > Len(c.tables) THEN Some(c)
  ELSE Some([c EXCEPT !.tables = RemoveAt(@, i), !.resolver = Unresolved(@, c.tables[i].name, i)])
RemoveTable(c, name) ==
  CASE name \notin DOMAIN c.resolver         -> Some(c)
    [] c.resolver[name] > Len(c.tables)      -> Panic
    [] OTHER -> Some([c EXCEPT !.tables = RemoveAt(@, c.resolver[name]), !.resolver = Unresolved(@, name, c.resolver[name])])
Clear(c) == EmptyCube
RebuildResolver(c) == [CubeOf(c.tables) EXCEPT !.index = c.index]
Renamed(c, i, name) == [c EXCEPT !.tables[i].name = name]   \* through table_mut
RemoveCol(c, name) == [c EXCEPT !.tables = [i \in DOMAIN @ |-> DropCol(@[i], name)]]
RemoveColAt(c, k)  == [c EXCEPT !.tables = [i \in DOMAIN @ |-> DropColAt(@[i], k)]]
Span(t, off, n) == t.name \o "[" \o ToString(off) \o ", " \o ToString(off + n) \o ")"
SliceClone(c, off, n) ==
  IF c.tables = <<>> \/ (\E i \in DOMAIN c.tables : off + n > c.tables[i].rows) THEN Panic
  ELSE LET cut(t) == [Rows(t, [k \in 1..n |-> off + k]) EXCEPT !.name = Span(t, off, n)]
       IN  Some([CubeOf([i \in DOMAIN c.tables |-> cut(c.tables[i])]) EXCEPT !.index = c.index])
SliceOfCube(c, off, n) ==
  IF c.tables = <<>> \/ (\E i \in DOMAIN c.tables : off + n > c.tables[i].rows) THEN Panic
  ELSE Some([i \in DOMAIN c.tables |-> TabV(c.tables[i], off, n)])
Places(c, names) == UNION {LET at == ColNamed(c.tables[1], name) IN IF at = {} THEN {} ELSE {Least(at)} : name \in names}
AtPlaces(t, S) == Tab(t.name, [k \in DOMAIN SelectSeq([i \in DOMAIN t.cols |-> i], LAMBDA i : i \in S) |->
                                 t.cols[SelectSeq([i \in DOMAIN t.cols |-> i], LAMBDA i : i \in S)[k]]])
Select(c, names) ==   \* the columns at the places that the first table has them at, and those of the index
  LET S == IF c.tables = <<>> THEN {} ELSE Places(c, names \cup ToSet(c.index))
  IN  IF c.tables = <<>> \/ Cardinality(S) = Len(c.tables[1].cols) THEN c
      ELSE [CubeOf([i \in DOMAIN c.tables |-> AtPlaces(c.tables[i], S)]) EXCEPT !.index = c.index]
Get(c, name) == IF name \in DOMAIN c.resolver /\ c.resolver[name] <= Len(c.tables) THEN Some(c.tables[c.resolver[name]]) ELSE Refused
TableIndex(c, name) == {i \in DOMAIN c.tables : c.tables[i].name = name}
ColIx(c, k) ==
  IF c.tables = <<>> \/ k > Len(c.tables[1].cols) THEN Refused
  ELSE Some([i \in DOMAIN SelectSeq(c.tables, LAMBDA t : k <= Len(t.cols)) |-> SelectSeq(c.tables, LAMBDA t : k <= Len(t.cols))[i].cols[k]])
HasCol(c, name) == \A i \in DOMAIN c.tables : ColNamed(c.tables[i], name) # {}
ColByName(c, name) ==
  IF ~HasCol(c, name) THEN Refused
  ELSE Some([i \in DOMAIN c.tables |-> c.tables[i].cols[Least(ColNamed(c.tables[i], name))]])

Changed(r, op) ==
  LET c == r[1]
  IN  IF r = Panic THEN Panic
      ELSE CASE op[1] = "add"      -> AddTable(c, op[2])
             [] op[1] = "removeAt" -> RemoveTableAt(c, op[2])
             [] op[1] = "remove"   -> RemoveTable(c, op[2])
             [] op[1] = "clear"    -> Some(Clear(c))
             [] op[1] = "rebuild"  -> Some(RebuildResolver(c))
             [] op[1] = "rename"   -> IF c.tables = <<>> THEN r ELSE Some(Renamed(c, 1, op[2]))
             [] op[1] = "dropCol"  -> Some(RemoveCol(c, op[2]))
             [] op[1] = "dropColAt" -> Some(RemoveColAt(c, op[2]))
             [] op[1] = "slice"    -> SliceClone(c, op[2], 1)
             [] op[1] = "select"   -> Some(Select(c, op[2]))

-----------------------------------------------------------------------------
(* What a value holds, told without its conversions: columns [name, kind,  *)
(* nullable, cells], the pieces of a column one after another.  Chunks and *)
(* batches without rows say nothing of their columns, and a scalar that is *)
(* null is a zero.                                                         *)
Column(name, kind, nullable, cells) == [name |-> name, kind |-> kind, nullable |-> nullable, cells |-> cells]
ColumnOf(a) == Column(<<>>, a.kind, Nullable(a), a.cells)
ColumnIn(field, cells) == Column(<<field.name>>, field.kind, field.nullable, cells)
Stacked(lists) ==
  IF lists = <<>> \/ (\E i \in DOMAIN lists : Len(lists[i]) # Len(lists[1])) THEN <<>>
  ELSE [c \in DOMAIN lists[1] |-> [lists[1][c] EXCEPT !.cells = FlattenSeq([i \in DOMAIN lists |-> lists[i][c].cells])]]
OfNd(names, x) == [c \in DOMAIN x.cols |-> Column(names[c], "Float", FALSE, x.cols[c])]
Unnamed(x) == [c \in DOMAIN x.cols |-> <<>>]
InSlice(v) == Cut(v.array.cells, v.off, v.n)
OfTable(t) == [c \in DOMAIN t.cols |-> ColumnIn(t.cols[c].field, t.cols[c].array.cells)]
OfTableV(v) == [k \in DOMAIN Picked(v) |-> ColumnIn(v.fields[Picked(v)[k]], InSlice(v.cols[Picked(v)[k]]))]
OfPieces(field, kind, cells) == IF field = <<>> THEN Column(<<>>, kind, Null \in ToSet(cells) \/ kind = "Null", cells) ELSE ColumnIn(field[1], cells)
Filled(lists) == SelectSeq(lists, LAMBDA l : l # <<>> /\ l[1].cells # <<>>)
OfTensors(s) == IF ObsIn(s) * Len(s[1].cols) = 0 THEN <<Column(<<>>, "Float", FALSE, <<>>)>> ELSE Stacked([i \in DOMAIN s |-> OfNd(Unnamed(s[i]), s[i])])
RECURSIVE Holds(_)
Holds(v) ==
  LET x == v[2]
  IN  CASE v[1] = "Scalar"     -> IF x.kind = "Null" THEN <<Column(<<>>, "Int", FALSE, <<0>>)>> ELSE <<Column(<<>>, x.kind, FALSE, <<x.cell>>)>>
        [] v[1] = "Array"      -> <<ColumnOf(x)>>
        [] v[1] = "ArrayView"  -> <<ColumnOf(Made(x.array.kind, InSlice(x)))>>
        [] v[1] = "FieldArray" -> <<ColumnIn(x.field, x.array.cells)>>
        [] v[1] = "Table"      -> OfTable(x)
        [] v[1] = "TableView"  -> OfTableV(x)
        [] v[1] = "SuperArray" -> <<OfPieces(x.field, IF CellsOf(x.chunks) = <<>> THEN "Null" ELSE x.chunks[1].kind, CellsOf(x.chunks))>>
        [] v[1] = "SuperArrayView" ->
             <<OfPieces(x.field, IF x.slices = <<>> THEN "Null" ELSE x.slices[1].array.kind, FlattenSeq([i \in DOMAIN x.slices |-> InSlice(x.slices[i])]))>>
        [] v[1] = "SuperTable"     -> Stacked(Filled([i \in DOMAIN x.batches |-> OfTable(x.batches[i])]))
        [] v[1] = "SuperTableView" -> Stacked(Filled([i \in DOMAIN x |-> OfTableV(x[i])]))
        [] v[1] \in {"Matrix", "NdArray"}         -> OfNd(Unnamed(x), x)
        [] v[1] \in {"MatrixView", "NdArrayView"} -> OfNd(Unnamed(x.nd), CutNd(x.nd, x.off, x.n))
        [] v[1] = "SuperNdArray"     -> OfTensors(x)
        [] v[1] = "SuperNdArrayView" -> OfTensors([i \in DOMAIN x |-> CutNd(x[i].nd, x[i].off, x[i].n)])
        [] v[1] = "XArray" -> OfNd([c \in DOMAIN x.labels |-> <<x.labels[c]>>], x.nd)
        [] v[1] = "Cube"   -> Stacked([i \in DOMAIN x.tables |-> OfTable(x.tables[i])])
        [] v[1] \in Wrappers -> Holds(x)
        [] OTHER -> Stacked([i \in DOMAIN x |-> Holds(x[i])])
OfColumns(h, F(_)) == [c \in DOMAIN h |-> F(h[c])]
HeldCells(v) == OfColumns(Holds(v), LAMBDA c : c.cells)
HeldKinds(v) == OfColumns(Holds(v), LAMBDA c : c.kind)
HeldNames(v) == OfColumns(Holds(v), LAMBDA c : c.name)
Headings(v)  == OfColumns(Holds(v), LAMBDA c : <<c.name, c.kind, c.nullable>>)

(* Whether a value is rows of named columns, and whether it is one column. *)
RankOf(v) ==
  LET x == v[2]
  IN  CASE v[1] = "NdArray" -> x.rank
        [] v[1] \in {"NdArrayView", "XArray"} -> x.nd.rank
        [] v[1] = "SuperNdArray"     -> IF ObsIn(x) = 0 THEN 1 ELSE x[1].rank
        [] v[1] = "SuperNdArrayView" -> IF RowsSeen(x) = 0 THEN 1 ELSE x[1].nd.rank
HasRank == {"NdArray", "NdArrayView", "XArray", "SuperNdArray", "SuperNdArrayView"}
Alike(lists) == \A i \in DOMAIN lists : lists[i] = lists[1]
RECURSIVE Tabular(_), Columnar(_)
Tabular(v) ==
  LET x == v[2]
  IN  CASE v[1] \in HasRank  -> RankOf(v) = 2
        [] v[1] \in Wrappers -> Tabular(x)
        [] v[1] = "Cube"     -> Alike([i \in DOMAIN x.tables |-> Headings(<<"Table", x.tables[i]>>)])
        [] v[1] = "VecValue" -> SingleVariant(x) /\ (\A i \in DOMAIN x : Tabular(x[i])) /\ Alike([i \in DOMAIN x |-> Headings(x[i])])
        [] OTHER -> v[1] \notin Tuples \cup {"Custom"}
Columnar(v) ==
  LET x == v[2]
  IN  CASE v[1] \in HasRank \ {"XArray"} -> RankOf(v) = 1
        [] v[1] \in Wrappers -> Columnar(x)
        [] v[1] = "VecValue" -> SingleVariant(x) /\ (\A i \in DOMAIN x : Columnar(x[i])) /\ Alike([i \in DOMAIN x |-> HeldKinds(x[i])])
        [] OTHER -> Tabular(v) /\ Len(Holds(v)) = 1
HasRows(v)   == \E cells \in ToSet(HeldCells(v)) : cells # <<>>
HoldsNull(v)    == \E c \in ToSet(Holds(v)) : c.kind = "Null" \/ Null \in ToSet(c.cells)
HoldsNothing(v) == \E c \in ToSet(Holds(v)) : c.kind = "Null"
OnlyItself == {"Scalar", "FieldArray", "NdArrayView", "SuperNdArray", "SuperNdArrayView", "XArray"}
Fits(target, v) ==
  CASE v[1] = target -> TRUE
    [] target \in OnlyItself -> Opened(v)[1] = target
    [] target \in {"Array", "ArrayView", "SuperArray", "SuperArrayView"} -> Columnar(v)
    [] target = "Cube" /\ Opened(v)[1] = "Cube"     -> TRUE
    [] target = "Cube" /\ Opened(v)[1] = "VecValue" -> SingleVariant(Opened(v)[2]) /\ \A i \in DOMAIN Opened(v)[2] : Tabular(Opened(v)[2][i])
    [] target \in {"Table", "TableView", "SuperTable", "SuperTableView", "Cube"} -> Tabular(v)
    [] target \in {"Matrix", "MatrixView"} -> v[1] \in {"Matrix", "MatrixView"} \/ (Tabular(v) /\ ~HoldsNull(v))
    [] target = "NdArray"  -> Tabular(v) /\ ~HoldsNothing(v)
    [] target = "VecValue" -> TRUE
    [] target \in Tuples   -> Opened(v)[1] \in {target, "VecValue"} /\ Len(Opened(v)[2]) \in {n \in DOMAIN TupleName : TupleName[n] = target}
NumbersOf(target, cells) ==
  LET number(n) == IF n >= Word \/ n = Null THEN (IF target = "NdArray" THEN NaN ELSE 0) ELSE n
  IN  [c \in DOMAIN cells |-> [i \in DOMAIN cells[c] |-> number(cells[c][i])]]
TakenForOne(v) ==   \* windows of several arrays that look like windows of one
  Opened(v)[1] = "SuperArrayView" /\ LET s == Opened(v)[2].slices IN LinedUp(s) /\ \E i \in DOMAIN s : ~SameArray(s[i].array, s[1].array)
CastTargets == {"Matrix", "MatrixView", "NdArray"}
Batched  == {"SuperTable", "SuperTableView"}   \* tell nothing of their columns without rows
Columned == {"Array", "ArrayView", "SuperArray", "SuperArrayView", "Table", "TableView", "SuperTable", "SuperTableView", "Cube"}

(* A conversion gives what the value holds, column by column and row by    *)
(* row, under the same names where both have names; or it refuses, exactly *)
(* when the value is of no such form.  Values and tables that differ panic *)
(* on their way into chunks and batches.                                   *)
ConvertsExactly(target, v) ==
  \A r \in {Converted(target, v)} :
    /\ Ok(r) = Fits(target, v)
    /\ v[1] = target => r = Some(v[2])
    /\ r = Panic => target \in {"SuperTable", "SuperTableView", "SuperArray", "SuperArrayView"} /\ v[1] \in {"VecValue", "Cube"}
    /\ (Ok(r) /\ target \in Columned /\ ~TakenForOne(v) /\ (target = "Cube" => Tabular(v)) /\ (target \in Batched \cup {"Cube"} \/ v[2] = <<>> => HasRows(v))) =>
         /\ HeldCells(<<target, r[1]>>) = HeldCells(v)
         /\ (\A cells \in ToSet(HeldCells(v)) : cells # <<>>) => HeldKinds(<<target, r[1]>>) = HeldKinds(v)
    /\ (Ok(r) /\ target \in CastTargets /\ v[1] # target /\ ~TakenForOne(v)) => HeldCells(<<target, r[1]>>) = NumbersOf(target, HeldCells(v))
    /\ (Ok(r) /\ target \in Fielded /\ v[1] \in Fielded \cup {"FieldArray", "XArray"} /\ HasRows(v) /\ (target = "Cube" => Tabular(v))) =>
         HeldNames(<<target, r[1]>>) = HeldNames(v)

(* What a value says of itself is so: its rows, its shape, its fields and  *)
(* its type are those of the table or the array that it becomes.           *)
RECURSIVE OfCubes(_), Unselected(_), EqualsItself(_)
OfCubes(v) == CASE v[1] \in Wrappers -> OfCubes(v[2])
                [] v[1] = "VecValue" -> \E i \in DOMAIN v[2] : OfCubes(v[2][i])
                [] OTHER -> v[1] = "Cube"
Rowed(v) == ~OfCubes(v) /\ Tabular(v)
Unselected(v) == CASE v[1] = "TableView" -> v[2].picked = <<>>
                   [] v[1] = "SuperTableView" -> \A i \in DOMAIN v[2] : v[2][i].picked = <<>>
                   [] v[1] \in Wrappers -> Unselected(v[2])
                   [] v[1] = "VecValue" -> \A i \in DOMAIN v[2] : Unselected(v[2][i])
                   [] OTHER -> TRUE
EqualsItself(v) == CASE v[1] = "SuperTableView" -> FALSE
                     [] v[1] \in Wrappers -> EqualsItself(v[2])
                     [] v[1] \in Tuples \cup {"VecValue"} -> \A i \in DOMAIN v[2] : EqualsItself(v[2][i])
                     [] OTHER -> \A cells \in ToSet(HeldCells(v)) : NaN \notin ToSet(cells)
SpeaksTruly(v) ==
  \A held \in {HeldCells(v)} : \A shape \in {ShapeOf(v)} : \A n \in {LenOf(v)} : \A fields \in {FieldsOf(v)} :
    /\ Rowed(v) =>
         /\ \A c \in DOMAIN held : Len(held[c]) = n
         /\ shape[1] = "Rank1" => shape[2] = <<n>>
         /\ (held # <<>> /\ Unselected(v) /\ shape[1] = "Rank2") => shape[2] = <<n, Len(held)>>
    /\ (v[1] \in Fielded /\ Tabular(v) /\ Unselected(v) /\ n > 0 /\ held # <<>>) => fields = Some(Schema(ToTable(v)[1]))
    /\ fields = Panic => v[1] \in {"SuperTableView", "Cube"} /\ n = 0
    /\ \A type \in {TypeOf(v)} :
         (Ok(type) /\ Columnar(v) /\ n > 0 /\ Opened(v) # <<"Scalar", [kind |-> "Null", cell |-> Null]>>) => type[1] = HeldKinds(v)[1]
    /\ Same(v, v) = EqualsItself(v)

(* Equal values hold the same, and a value equals those made equal to it.  *)
EqualHoldSame(v, w) ==
  /\ Same(v, w) = Same(w, v)
  /\ (Same(v, w) /\ Rowed(v) /\ Rowed(w)) => HeldCells(v) = HeldCells(w) /\ HeldKinds(v) = HeldKinds(w)

(* A slice holds the rows asked for, and so does a slice of a slice.       *)
CutRows(cells, off, n) == [c \in DOMAIN cells |-> Cut(cells[c], off, n)]
SlicesHold(v, off, n, off2, n2) ==
  \A w \in {Slice(v, off, n)} :
    /\ n > 0 => HeldCells(w) = CutRows(HeldCells(v), off, n)
    /\ LenOf(w) = n
    /\ n2 > 0 => HeldCells(Slice(w, off2, n2)) = HeldCells(Slice(v, off + off2, n2))

(* The rows of one value come after those of the other, and values that    *)
(* differ in a name, a type or nullability are refused; many values are    *)
(* put together to one that holds them all.                                *)
Changes == {"Scalar", "MatrixView", "NdArrayView"}   \* variants that become another when put together
IsNullScalar(v) == Opened(v)[1] = "Scalar" /\ Opened(v)[2].kind = "Null"
Several(v) == Opened(v)[1] \in Tuples \cup {"VecValue"}
KindsIn(v) ==
  IF v[1] = "SuperArray" THEN {v[2].chunks[i].kind : i \in DOMAIN v[2].chunks} ELSE {v[2].slices[i].array.kind : i \in DOMAIN v[2].slices}
WidthOf(v) ==
  LET nd == CASE v[1] \in {"Matrix", "NdArray"} -> v[2]
              [] v[1] = "SuperNdArray" -> v[2][1]
              [] v[1] = "SuperNdArrayView" -> v[2][1].nd
              [] OTHER -> v[2].nd
  IN  <<nd.rank, Len(nd.cols)>>
Headed(v) == Headings(IF v[1] = "SuperTable" THEN <<"Table", v[2].batches[1]>> ELSE IF v[1] = "SuperTableView" THEN <<"TableView", v[2][1]>> ELSE v)
NoParts(v) == IF v[1] = "SuperTable" THEN v[2].batches = <<>> ELSE IF v[1] = "Cube" THEN v[2].tables = <<>> ELSE v[2] = <<>>
RECURSIVE CanAppend(_, _), Turns(_)
CanAppend(v, w) ==
  /\ v[1] = w[1]
  /\ CASE v[1] = "Scalar" -> v[2].kind = w[2].kind /\ v[2].kind # "Decimal"
       [] v[1] \in Tensors -> WidthOf(v) = WidthOf(w) /\ (v[1] = "XArray" => v[2].labels = w[2].labels)
       [] v[1] \in {"Array", "ArrayView"} -> HeldKinds(v) = HeldKinds(w)
       [] v[1] \in {"SuperArray", "SuperArrayView"} -> Cardinality(KindsIn(v) \cup KindsIn(w)) <= 1
       [] v[1] = "SuperTable" -> NoParts(v) \/ NoParts(w) \/ Headed(v) = Headed(w)
       [] v[1] = "SuperTableView" -> NoParts(v) = NoParts(w) /\ (~NoParts(v) => Headed(v) = Headed(w))
       [] v[1] = "Cube" -> NoParts(v) \/ NoParts(w) \/ Types(v[2].tables[1]) = Types(w[2].tables[1])
       [] v[1] \in Wrappers -> CanAppend(v[2], w[2])
       [] Several(v) -> Len(v[2]) = Len(w[2]) /\ \A i \in DOMAIN v[2] : CanAppend(v[2][i], w[2][i])
       [] OTHER -> Headings(v) = Headings(w)
Turns(v) ==
  IF v[1] \in Wrappers THEN Turns(v[2]) ELSE IF Several(v) THEN \E i \in DOMAIN v[2] : Turns(v[2][i]) ELSE v[1] \in Changes
Appends(v, w) ==
  \A r \in {Concat(v, w)} :
    /\ Ok(r) = CanAppend(v, w)
    /\ (Ok(r) /\ Several(v) /\ v[1] \notin Wrappers) => \A i \in DOMAIN v[2] : Concat(v[2][i], w[2][i]) = Some(r[1][2][i])
    /\ (Ok(r) /\ v[1] = "Cube") => r[1][2].tables = v[2].tables \o w[2].tables
    /\ (Ok(r) /\ ~Several(v) /\ ~IsNullScalar(v)) =>
         /\ LenOf(r[1]) = LenOf(v) + LenOf(w)
         /\ LenOf(v) * LenOf(w) > 0 => HeldCells(r[1]) = [c \in DOMAIN HeldCells(v) |-> HeldCells(v)[c] \o HeldCells(w)[c]]
ConsolidatesAll(values) ==
  \A r \in {Consolidate(values)} :
    LET joins == \A i \in 2..Len(values) : CanAppend(values[1], values[i])
        stays == Len(values) < 3 \/ ~Turns(values[1])
    IN  /\ Ok(r) = (values = <<>> \/ (joins /\ stays))
        /\ (Ok(r) /\ Len(values) > 1 /\ ~IsNullScalar(values[1]) /\ ~Several(values[1])) => HeldCells(r[1]) = HeldCells(<<"VecValue", values>>)
        /\ Items(Collected(values)) = values \/ (Len(values) = 1 /\ values[1][1] = "VecValue")

(* Boxes and shared values convert as what is in them, if need be in one   *)
(* piece; a typed view is the view of the array that its value becomes,    *)
(* and the bits of booleans are those that are not null; accessors and     *)
(* scalars give the value and nothing else.                                *)
OneAxis(v) == v[1] = "NdArray" /\ RankOf(v) = 1   \* has no table to go through
OpensAlone(target, v) ==
  \A r \in {[k \in 1..3 |-> Converted(target, <<v, <<"BoxValue", v>>, <<"ArcValue", <<"BoxValue", v>>>>>>[k])]} :
    /\ r[3] = r[2]
    /\ (Ok(r[1]) /\ ~OneAxis(v)) => Ok(r[2])
    /\ (Ok(r[1]) /\ Ok(r[2]) /\ target \in Columned \ {"Cube"} /\ ~TakenForOne(v)) =>
         HeldCells(<<target, r[1][1]>>) = HeldCells(<<target, r[2][1]>>)
TypedViews(v) ==
  \A a \in {AsArrayV(v)} : \A bits \in {AsBitmaskV(v)} : \A scalar \in {AsScalar(v)} :
  \A among \in {SelectSeq(<<AsNumericV(v), AsTextV(v), AsTemporalV(v), AsBooleanV(v)>>, Ok)} :
    /\ \A r \in ToSet(among) : r = a /\ OfTypedView(r[1]) = <<"ArrayView", a[1]>> /\ OfBooleanView(r[1]) = <<"ArrayView", a[1]>>
    /\ (Ok(a) /\ a[1].array.kind # "Null") => Len(among) = 1
    /\ Ok(bits) => /\ a[1].array.kind = "Bool"
                   /\ \A i \in 1..a[1].n : LET cell == InSlice(a[1])[i]
                                           IN  InSlice(OfBitmaskV(bits[1])[2])[i] = (IF cell = Null THEN 0 ELSE cell)
    /\ Ok(AsNumber(v)) = (Ok(scalar) /\ scalar[1].kind # "Null")
    /\ Ok(scalar) => AsOption(v) = Some(IF scalar[1].kind = "Null" THEN <<>> ELSE Some(scalar[1].cell))
    /\ Arity(v) = (IF v[1] \in Tuples THEN Len(AsVec(v)[1]) ELSE 1)
    /\ Accessor(v[1], v) = Some(v[2])

(* After any calls a cube holds its tables in the order they were added,   *)
(* its resolver leads to the table of a name when no two have had it and   *)
(* none was renamed behind its back, and a selection has the columns asked *)
(* for and those of the index, if its tables have their columns in order.  *)
Ordered(c) == Alike([i \in DOMAIN c.tables |-> [k \in DOMAIN c.tables[i].cols |-> c.tables[i].cols[k].field.name]])
Distinct(c) == \A i, j \in DOMAIN c.tables : c.tables[i].name = c.tables[j].name => i = j
Resolves(c) ==
  /\ DOMAIN c.resolver = {c.tables[i].name : i \in DOMAIN c.tables}
  /\ \A i \in DOMAIN c.tables : TableIndex(c, c.tables[i].name) = {i} /\ Get(c, c.tables[i].name) = Some(c.tables[i])
ColumnsAgree(c) ==
  \A k \in DOMAIN c.tables[1].cols :
    LET name == c.tables[1].cols[k].field.name
    IN  HasCol(c, name) => ColIx(c, k) = ColByName(c, name)
Asked(c, names) == {n \in names \cup ToSet(c.index) : HasCol(c, n)}
SelectsAsked(c, names) ==
  \A d \in {Select(c, names)} :
    /\ Len(d.tables) = Len(c.tables) /\ d.index = c.index
    /\ \A i \in DOMAIN d.tables :
         /\ {d.tables[i].cols[k].field.name : k \in DOMAIN d.tables[i].cols} = Asked(c, names)
         /\ ToSet(d.tables[i].cols) \subseteq ToSet(c.tables[i].cols)
RECURSIVE History(_, _, _)
History(c, ops, k) == IF k = 0 THEN <<Some(c)>> ELSE Append(History(c, ops, k - 1), Changed(History(c, ops, k - 1)[k], ops[k]))
RenamedLast(ops) == \E i \in DOMAIN ops : ops[i][1] = "rename" /\ \A j \in (i + 1)..Len(ops) : ops[j][1] \notin {"rebuild", "slice"}
CubeHoldsItsTables(start, ops, names) ==
  \A h \in {History(start, ops, Len(ops))} :
    LET r == h[Len(h)]
        c == r[1]
    IN  IF r = Panic THEN \E i \in DOMAIN ops : ops[i][1] \in {"add", "slice", "rename"}
        ELSE /\ (~RenamedLast(ops) /\ \A i \in DOMAIN h : Distinct(h[i][1])) => Resolves(c)
             /\ (c.tables # <<>> /\ Ordered(c)) => SelectsAsked(c, names) /\ ColumnsAgree(c)
             /\ \A off \in 0..1 : Ok(SliceOfCube(c, off, 1)) =
                  (c.tables # <<>> /\ \A i \in DOMAIN c.tables : c.tables[i].rows > off)
SameOrderAfter(start, ops) ==   \* a call that removes or adds leaves the other tables as they were
  \A h \in {History(start, ops, Len(ops))} :
    \A k \in DOMAIN ops : (h[k + 1] # Panic /\ h[k] # Panic) =>
      LET before == h[k][1].tables  after == h[k + 1][1].tables
      IN  /\ ops[k][1] = "add" => after = Append(before, ops[k][2])
          /\ ops[k][1] \in {"remove", "removeAt"} =>
               after = before \/ \E i \in DOMAIN before : after = RemoveAt(before, i) /\ (ops[k][1] = "remove" /\ ~RenamedLast(ops) => before[i].name = ops[k][2])

(* The tables that a table is grouped into have its rows, each the rows of *)
(* one value, and are found by the value: a null and the text Null are two *)
(* tables of one name.                                                     *)
GroupsRows(t, name) ==
  \A r \in {FromTable(t, name)} :
    /\ Ok(r) = (ColNamed(t, name) # {})
    /\ Ok(r) =>
         LET c == r[1]
             key == t.cols[Least(ColNamed(t, name))].array.cells
             of(cell) == SelectSeq([i \in DOMAIN key |-> i], LAMBDA i : key[i] = cell)
         IN  /\ Len(c.tables) = Cardinality(ToSet(key))
             /\ Len(t.cols) > 1 => RowsIn(c.tables) = t.rows
             /\ \A cell \in ToSet(key) :
                  LET rest == DropCol(t, name)
                      mine == [Rows(rest, of(cell)) EXCEPT !.name = NameOf(cell)]
                  IN  /\ \E i \in DOMAIN c.tables : c.tables[i].name = mine.name /\ (rest.cols # <<>> => c.tables[i] = mine)
                      /\ (~({Null, NullWord} \subseteq ToSet(key)) /\ rest.cols # <<>>) => Get(c, NameOf(cell)) = Some(mine)
=============================================================================
