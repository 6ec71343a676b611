------------------------------- MODULE Tensors -------------------------------
(***************************************************************************)
(* One tensor on its way through the library: an array, a view, a matrix, a*)
(* window of one, a table lent by one, a chunked or a labelled array.  `it`*)
(* is what the code holds, `want` the shape and the elements, in column-   *)
(* major order, that its owner expects, with the names and labels of axes. *)
(***************************************************************************)
EXTENDS TensorLayout

CONSTANTS MaxCells, MaxSteps   \* bounds of the instance: elements, calls

LOCAL INSTANCE SequencesExt
LOCAL INSTANCE FiniteSetsExt

VARIABLES it, want, steps
vars == <<it, want, steps>>

-----------------------------------------------------------------------------
(* The tensors their owners expect.                                        *)

At(w, index) == w.cells[1 + Dot(index, ColMajorStrides(w.shape))]
Narrowed(axis, positions) ==
  [axis EXCEPT !.labels = IF axis.has THEN [i \in DOMAIN positions |-> @[positions[i] + 1]] ELSE <<>>]
Bare(shape, cells) == [shape |-> shape, cells |-> cells, axes |-> <<>>]
(* The elements at positions K[d] of axis d, without the axes in `drop`.   *)
Taken(w, K, drop) ==
  LET s == [d \in DOMAIN K |-> Len(K[d])]
      kept == Ascending(DOMAIN K \ drop)
  IN  [shape |-> [i \in DOMAIN kept |-> s[kept[i]]],
       cells |-> [k \in 1..Product(s) |-> At(w, [d \in DOMAIN K |-> K[d][IndexOf(s, k - 1)[d] + 1]])],
       axes |-> IF w.axes = <<>> THEN <<>>
                ELSE [i \in DOMAIN kept |-> Narrowed(w.axes[kept[i]], K[kept[i]])]]
Positions(n) == [i \in 1..n |-> i - 1]
AllOf(w) == [d \in DOMAIN w.shape |-> Positions(w.shape[d])]
RowsTaken(w, rows) == Taken(w, [AllOf(w) EXCEPT ![1] = rows], {})
Turned(w, perm) ==
  LET shape == [d \in DOMAIN perm |-> w.shape[perm[d]]]
  IN  [shape |-> shape,
       cells |-> [k \in 1..Product(shape) |->
                    At(w, [d \in DOMAIN perm |-> IndexOf(shape, k - 1)[CHOOSE e \in DOMAIN perm : perm[e] = d]])],
       axes |-> IF w.axes = <<>> THEN <<>> ELSE [d \in DOMAIN perm |-> w.axes[perm[d]]]]
Flipped(w) == Turned(w, [d \in DOMAIN w.shape |-> Len(w.shape) + 1 - d])
Negated(w) == [w EXCEPT !.cells = [k \in DOMAIN @ |-> Neg(@[k])]]
Put(w, index, x) == [w EXCEPT !.cells[1 + Dot(index, ColMajorStrides(w.shape))] = x]
Summed(w, d) ==
  LET shape == Without(w.shape, d)
  IN  Bare(shape, [k \in 1..Product(shape) |->
        LET at == IndexOf(shape, k - 1)
        IN  Total([i \in 1..w.shape[d] |-> At(w, SubSeq(at, 1, d - 1) \o <<i - 1>> \o SubSeq(at, d, Len(at)))])])
Stacked(w, v) ==
  LET shape == [w.shape EXCEPT ![1] = @ + v.shape[1]]
  IN  [w EXCEPT !.shape = shape,
                !.cells = [k \in 1..Product(shape) |->
                  LET at == IndexOf(shape, k - 1)
                  IN  IF at[1] < w.shape[1] THEN At(w, at) ELSE At(v, [at EXCEPT ![1] = @ - w.shape[1]])]]

(* What a selector means, stated from the rows it lists.                   *)
Meant(s, n) == Ascending(Select(s, n).rows)
Selectors == {<<"at", 1>>, <<"span", 1, 3>>, <<"from", 1>>, <<"to", 2>>, <<"all">>}
RowSelectors == Selectors \cup {<<"list", <<2, 0>>>>, <<"list", <<>>>>, <<"span", -1, 2>>, <<"span", 1, 1>>, <<"through", 0, 1>>,
                                <<"at", 5>>}
Other(shape) == FromSlice([k \in 1..Product(shape) |-> 1000 + k], shape)
Shapes == {<<3>>, <<2, 2>>, <<3, 2>>, <<1, 3>>, <<2, 0>>, <<2, 1, 2>>, <<2, 3>>, <<4>>, <<6>>}

-----------------------------------------------------------------------------
One(kind, t) == [kind |-> kind, parts |-> <<t>>, ndim |-> 0, inner |-> <<>>, axes |-> <<>>]
T == it.parts[1]
Is(kinds) == it.kind \in kinds
Becomes(kind, t, w) ==
  /\ steps < MaxSteps /\ t # Stops /\ Product(w.shape) <= MaxCells
  /\ it' = One(kind, t) /\ want' = w /\ steps' = steps + 1
Rank(n) == Len(want.shape) = n

Numbered(n) == [k \in 1..n |-> 2 ^ (k - 1)]
Starts ==
  {<<FromSlice(Numbered(Product(s)), s), Bare(s, Numbered(Product(s)))>> : s \in Shapes}
  \cup {<<FromBuffer(<<1, 2, 0, 4, 8, 0, 16>>, <<2, 2>>, <<1, 3>>), Bare(<<2, 2>>, <<1, 2, 4, 8>>)>>,
        <<FromBuffer(<<1, 0, 2, 4, 0, 8, 16>>, <<2, 2>>, <<2, 3>>), Bare(<<2, 2>>, <<1, 2, 4, 8>>)>>,
        <<FromBuffer(<<1, 2, 4, 8, 16>>, <<2, 2>>, <<1, 2>>), Bare(<<2, 2>>, <<1, 2, 4, 8>>)>>,
        <<New(<<2, 2>>), Bare(<<2, 2>>, <<0, 0, 0, 0>>)>>, <<Fill(<<3>>, 7), Bare(<<3>>, <<7, 7, 7>>)>>,
        <<Eye(2), Bare(<<2, 2>>, <<1, 0, 0, 1>>)>>, <<Linspace(1, 5, 3), Bare(<<3>>, <<1, 3, 5>>)>>,
        <<Arange(2, 3, 3), Bare(<<3>>, <<2, 5, 8>>)>>,
        <<FromColumns(<<<<1, 2>>, <<4, 8>>>>), Bare(<<2, 2>>, <<1, 2, 4, 8>>)>>}

Init == /\ steps = 0
        /\ \E s \in Starts : it = One("array", s[1]) /\ want = s[2]

-----------------------------------------------------------------------------
(* Arrays and their views.                                                 *)

SetElement ==
  /\ Is({"array"})
  /\ \E k \in 0..Product(want.shape) - 1 :
       LET at == IndexOf(want.shape, k) IN Becomes("array", Set(T, at, 50), Put(want, at, 50))
FillArray == Is({"array"}) /\ Becomes("array", FillWith(T, 3), Bare(want.shape, [k \in DOMAIN want.cells |-> 3]))
NegateInPlace == Is({"array"}) /\ Becomes("array", ApplyMut(T), Negated(want))
WriteColumn ==
  /\ Is({"array"}) /\ Rank(2)
  /\ \E c \in 0..want.shape[2] - 1 :
       Becomes("array", WriteCol(T, c, [i \in 1..want.shape[1] |-> 60 + i]),
               [want EXCEPT !.cells = Overwrite(@, c * want.shape[1], [i \in 1..want.shape[1] |-> 60 + i])])
Negate == Is({"array", "view"}) /\ Becomes("array", Apply(T), Negated(want))
ReshapeArray ==
  Is({"array"}) /\ \E s \in Shapes : Becomes("array", Reshape(T, s), Bare(s, want.cells))
TransposeArray == Is({"array"}) /\ want.shape # <<>> /\ T.strides[1] = 1 /\ Becomes("array", Transpose(T), Flipped(want))
FlattenArray == Is({"array"}) /\ Becomes("array", Flatten(T), Bare(<<Len(want.cells)>>, want.cells))
MakeContiguous == Is({"array"}) /\ Becomes("array", ToContiguous(T), want)
ReduceAxis ==
  /\ Is({"array"}) /\ Len(want.shape) >= 2
  /\ \E d \in DOMAIN want.shape : Becomes("array", ApplyAxis(T, d), Summed(want, d))
ConcatArrays ==
  /\ Is({"array"})
  /\ \E n \in 1..2 : LET u == Other([want.shape EXCEPT ![1] = n])
                     IN  Becomes("array", Concat(T, u), Stacked(want, Bare(u.shape, u.buf)))
ThroughTable ==
  /\ Is({"array"}) /\ Rank(2) /\ want.shape[2] > 0
  /\ Becomes("array", FromColumns(ToColumns(T)), want)
ThroughArray == Is({"array"}) /\ Rank(1) /\ Becomes("array", FromSlice(ToArray(T), want.shape), want)

SliceAxes ==
  /\ Is({"array", "view"}) /\ want.shape # <<>>
  /\ \E sel \in [DOMAIN want.shape -> Selectors] :
       Becomes("view", Slice(T, sel),
               Taken(want, [d \in DOMAIN sel |-> Meant(sel[d], want.shape[d])], {d \in DOMAIN sel : sel[d][1] = "at"}))
SelectRows ==
  /\ Is({"array", "view"}) /\ want.shape # <<>>
  /\ \E s \in RowSelectors : Becomes("view", Rows(T, s), RowsTaken(want, Meant(s, want.shape[1])))
OneRow ==
  /\ Is({"array", "view"}) /\ Len(want.shape) >= 2
  /\ \E k \in 0..want.shape[1] - 1 : Becomes("view", Obs(T, k), Taken(want, [AllOf(want) EXCEPT ![1] = <<k>>], {1}))
Flip == Is({"view"}) /\ Becomes("view", TransposeView(T), Flipped(want))
Permute ==
  /\ Is({"view"}) /\ Rank(3)
  /\ \E p \in {<<2, 3, 1>>, <<3, 1, 2>>} : Becomes("view", PermuteAxes(T, p), Turned(want, p))
Swap ==
  /\ Is({"view"}) /\ Rank(3)
  /\ Becomes("view", SwapAxes(T, 1, 2), Turned(want, <<2, 1, 3>>))
Materialise == Is({"view"}) /\ Becomes("array", ToNdArray(T), want)

-----------------------------------------------------------------------------
(* Matrices, their windows, and the tables that share their buffer.        *)

MakeMatrix == Is({"array"}) /\ Rank(2) /\ Becomes("matrix", ToMatrix(T), want)
ViewToMatrix == Is({"view"}) /\ Rank(2) /\ Becomes("matrix", ToMatrix(ToNdArray(T)), want)
MatrixToArray == Is({"matrix"}) /\ Becomes("array", FromMatrix(T), want)
SetMatrix ==
  /\ Is({"matrix"})
  /\ \E k \in 0..Product(want.shape) - 1 :
       LET at == IndexOf(want.shape, k) IN Becomes("matrix", Set(T, at, 70), Put(want, at, 70))
TransposeMatrix == Is({"matrix"}) /\ Becomes("matrix", MatrixTranspose(T), Flipped(want))
GatherMatrix ==
  /\ Is({"matrix", "window"}) /\ want.shape[1] > 0
  /\ \E rows \in {<<want.shape[1] - 1, 0, 0>>, <<>>} :
       Becomes("matrix", IF Is({"matrix"}) THEN MatrixGather(T, rows) ELSE WindowGather(T, rows), RowsTaken(want, rows))
MaskMatrix ==
  /\ Is({"matrix", "window"})
  /\ \E rows \in SUBSET (0..want.shape[1] - 1) :
       Becomes("matrix", IF Is({"matrix"}) THEN MatrixGatherMask(T, rows) ELSE WindowGatherMask(T, rows),
               RowsTaken(want, Ascending(rows)))
ConcatMatrix ==
  /\ Is({"matrix", "window"}) /\ Product(want.shape) > 0
  /\ \E n \in 1..2 :
       LET u == Other(<<n, want.shape[2]>>)
       IN  Becomes("matrix", MatrixConcat(IF Is({"window"}) THEN WindowToMatrix(T) ELSE T, ToMatrix(u)),
                   Stacked(want, Bare(u.shape, u.buf)))
WindowMatrix ==
  /\ Is({"matrix", "window"})
  /\ \E s \in RowSelectors :
       Becomes(IF Select(s, want.shape[1]).run THEN "window" ELSE "matrix", MatrixRows(T, s),
               RowsTaken(want, Meant(s, want.shape[1])))
OwnWindow == Is({"window"}) /\ Becomes("matrix", WindowToMatrix(T), want)

LendTable == Is({"matrix"}) /\ Product(want.shape) > 0 /\ Becomes("table", ToTable(T), want)
WindowTable ==
  /\ Is({"table"})
  /\ \E off \in 0..want.shape[1], len \in 0..want.shape[1] :
       off + len <= want.shape[1] /\ Becomes("table", TableRows(T, off, len), RowsTaken(want, [i \in 1..len |-> off + i - 1]))
SelectColumns ==
  /\ Is({"table"})
  /\ \E cols \in {<<2>>, <<2, 1>>} :
       /\ \A i \in DOMAIN cols : cols[i] <= want.shape[2]
       /\ Becomes("table", TableColumns(T, cols), Taken(want, <<Positions(want.shape[1]), [i \in DOMAIN cols |-> cols[i] - 1]>>, {}))
TakeBack == Is({"table"}) /\ Becomes("matrix", ZeroCopyMatrix(T), want)
CopyTable == Is({"table"}) /\ Becomes("matrix", MatrixFromTable(T), want)
TableToArray == Is({"table"}) /\ Becomes("array", NdFromTable(T), want)

-----------------------------------------------------------------------------
(* Chunked arrays and their views.                                         *)

C == [parts |-> it.parts, ndim |-> it.ndim, inner |-> it.inner]
BecomesChunks(kind, c, w) ==
  /\ steps < MaxSteps /\ c # Stops /\ Product(w.shape) <= MaxCells
  /\ it' = [kind |-> kind, parts |-> c.parts, ndim |-> c.ndim, inner |-> c.inner, axes |-> <<>>]
  /\ want' = w /\ steps' = steps + 1
Chunked == Is({"chunks", "slices"})

MakeChunks ==
  /\ Is({"array"}) /\ want.shape # <<>>
  /\ \E n \in 0..2 : LET u == Other([want.shape EXCEPT ![1] = n])
                     IN  BecomesChunks("chunks", FromBatches(<<T, u>>), Stacked(want, Bare(u.shape, u.buf)))
PushBatch ==
  /\ Is({"chunks"})
  /\ LET u == Other(<<1>> \o it.inner) IN BecomesChunks("chunks", Push(C, u), Stacked(want, Bare(u.shape, u.buf)))
SetInChunks ==
  /\ Is({"chunks"})
  /\ \E k \in 0..Product(want.shape) - 1 :
       LET at == IndexOf(want.shape, k) IN BecomesChunks("chunks", ChunkSet(C, at, 80), Put(want, at, 80))
NegateChunks == Is({"chunks"}) /\ BecomesChunks("chunks", ChunkApply(C), Negated(want))
ReduceChunks ==
  /\ Is({"chunks"}) /\ Len(want.shape) >= 2
  /\ \E d \in DOMAIN want.shape : BecomesChunks("chunks", ChunkApplyAxis(C, d), Summed(want, d))
WindowChunks ==
  /\ Chunked
  /\ \E off \in 0..want.shape[1], len \in 0..want.shape[1] :
       /\ off + len <= want.shape[1]
       /\ BecomesChunks("slices", ChunkWindow(C, off, len), RowsTaken(want, [i \in 1..len |-> off + i - 1]))
RowsOfChunks ==
  /\ Chunked /\ it.parts # <<>>
  /\ \E s \in RowSelectors : BecomesChunks("slices", ChunkRows(C, s), RowsTaken(want, Meant(s, want.shape[1])))
AxesOfChunks ==
  /\ Chunked
  /\ \E sel \in [DOMAIN want.shape -> Selectors] :
       BecomesChunks("slices", ChunkAxes(C, sel),
                     Taken(want, [d \in DOMAIN sel |-> Meant(sel[d], want.shape[d])],
                           {d \in DOMAIN sel \ {1} : sel[d][1] = "at"}))
RowOfChunks ==
  /\ Is({"chunks"}) /\ Len(want.shape) >= 2
  /\ \E k \in 0..want.shape[1] - 1 : Becomes("view", ChunkObs(C, k), Taken(want, [AllOf(want) EXCEPT ![1] = <<k>>], {1}))
RechunkArray == Is({"chunks"}) /\ \E n \in 1..3 : BecomesChunks("chunks", Rechunk(C, n), want)
ConsolidateChunks ==
  /\ Chunked /\ it.parts # <<>>
  /\ Becomes("array", IF Is({"chunks"}) THEN Consolidate(C) ELSE ConsolidateView(C), want)
ChunksIntoArray == Is({"chunks"}) /\ Product(want.shape) > 0 /\ Becomes("array", ChunksToArray(C), want)
OwnSlices == Is({"slices"}) /\ it.parts # <<>> /\ BecomesChunks("chunks", ViewToChunks(C), want)
ConcatChunks ==
  /\ Chunked /\ it.parts # <<>>
  /\ LET u == Other(<<2>> \o it.inner)
     IN  BecomesChunks(it.kind, ChunkConcat(C, FromBatches(<<u>>)), Stacked(want, Bare(u.shape, u.buf)))

-----------------------------------------------------------------------------
(* Labelled arrays.                                                        *)

X == [t |-> T, axes |-> it.axes]
BecomesLabelled(kind, x, w) ==
  /\ steps < MaxSteps /\ x # Stops /\ Product(w.shape) <= MaxCells
  /\ it' = [One(kind, x.t) EXCEPT !.axes = x.axes] /\ want' = w /\ steps' = steps + 1
Labelled == Is({"labelled", "labelledview"})
Owned(x) == IF Is({"labelled"}) THEN x ELSE [x EXCEPT !.t = ToNdArray(@)]
AxisNames == <<"a", "b", "c">>
(* Labels out of order on the first axis, one of them twice.               *)
LabelsOf(d, n) == IF d = 1 THEN [i \in 1..n |-> IF i = 1 THEN 5 ELSE 2 * i - 3] ELSE [i \in 1..n |-> 10 * i]
Labels == {l \in {x.labels : x \in {it.axes[d] : d \in DOMAIN it.axes}} : l # <<>>}

LabelAxes ==
  /\ Is({"array", "view"}) /\ want.shape # <<>>
  /\ \E bare \in {{}, {1}, {2}} :
       LET axes == [d \in DOMAIN want.shape |->
                      IF d \in bare THEN Named(AxisNames[d]) ELSE WithCoords(AxisNames[d], d = 2, LabelsOf(d, want.shape[d]))]
       IN  BecomesLabelled(IF Is({"array"}) THEN "labelled" ELSE "labelledview", WithAxes(T, axes), [want EXCEPT !.axes = axes])
SelectLabelled ==
  /\ Labelled
  /\ \E d \in DOMAIN it.axes : \E s \in RowSelectors :
       BecomesLabelled("labelledview", XSelect(X, <<<<it.axes[d].name, <<"at", 0>>>>, <<it.axes[d].name, s>>>>),
                       Taken(want, [AllOf(want) EXCEPT ![d] = Meant(s, want.shape[d])],
                             IF s[1] \in {"at", "list"} THEN {d} ELSE {}))
AtLabel ==
  /\ Labelled
  /\ \E d \in DOMAIN it.axes : \E v \in {want.axes[d].labels[i] : i \in DOMAIN want.axes[d].labels} :
       BecomesLabelled("labelledview", XAt(X, it.axes[d].name, v),
                       Taken(want, [AllOf(want) EXCEPT ![d] = <<Min({i \in DOMAIN want.axes[d].labels : want.axes[d].labels[i] = v}) - 1>>], {d}))
BetweenLabels ==
  /\ Labelled
  /\ \E d \in DOMAIN it.axes : \E range \in {<<1, 3>>, <<3, 5>>, <<10, 20>>} :
       BecomesLabelled("labelledview", XBetween(X, it.axes[d].name, range[1], range[2]),
                       Taken(want, [AllOf(want) EXCEPT ![d] =
                         [i \in 1..Cardinality({p \in DOMAIN want.axes[d].labels : want.axes[d].labels[p] \in range[1]..range[2]}) |->
                            Ascending({p \in DOMAIN want.axes[d].labels : want.axes[d].labels[p] \in range[1]..range[2]})[i] - 1]], {}))
NearestLabel ==
  /\ Labelled
  /\ \E d \in DOMAIN it.axes : \E v \in {2, 100} :
       /\ want.axes[d].labels # <<>>
       /\ LET near == CHOOSE p \in DOMAIN want.axes[d].labels :
                        /\ \A q \in DOMAIN want.axes[d].labels :
                             Distance(want.axes[d].labels[p], v) <= Distance(want.axes[d].labels[q], v)
                        /\ \A q \in 1..p - 1 : Distance(want.axes[d].labels[p], v) # Distance(want.axes[d].labels[q], v)
          IN  BecomesLabelled("labelledview", XNearest(X, it.axes[d].name, v), Taken(want, [AllOf(want) EXCEPT ![d] = <<near - 1>>], {d}))
FlipLabelled ==
  /\ Labelled /\ Rank(2) /\ T.strides[1] = 1
  /\ BecomesLabelled("labelled", XTranspose(X, Is({"labelled"}), <<it.axes[2].name, it.axes[1].name>>), Flipped(want))
RelabelAxis ==
  /\ Labelled
  /\ \E d \in DOMAIN it.axes :
       \/ BecomesLabelled(it.kind, AssignCoords(X, it.axes[d].name, FALSE, [i \in 1..want.shape[d] |-> 4 - i]),
                          [want EXCEPT !.axes[d] = WithCoords(@.name, FALSE, [i \in 1..want.shape[d] |-> 4 - i])])
       \/ BecomesLabelled(it.kind, DropCoords(X, it.axes[d].name), [want EXCEPT !.axes[d] = Named(@.name)])
       \/ BecomesLabelled(it.kind, RenameDim(X, it.axes[d].name, "z"), [want EXCEPT !.axes[d].name = "z"])
ConcatLabelled ==
  /\ Labelled /\ want.shape # <<>>
  /\ \E same \in BOOLEAN :
       LET u == Other([want.shape EXCEPT ![1] = 1])
           axes == [d \in DOMAIN it.axes |-> IF d = 1 THEN [it.axes[1] EXCEPT !.labels = IF it.axes[1].has THEN <<77>> ELSE <<>>]
                                            ELSE IF same THEN it.axes[d] ELSE Named(it.axes[d].name)]
       IN  BecomesLabelled("labelled", XConcat(Owned(X), [t |-> u, axes |-> axes]),
                           [Stacked(want, Bare(u.shape, u.buf)) EXCEPT
                              !.axes[1].labels = IF it.axes[1].has THEN @ \o <<77>> ELSE <<>>])
LabelledThroughTable ==
  /\ Labelled /\ Rank(2) /\ it.axes[2].has /\ want.shape[2] > 0
  /\ BecomesLabelled("labelled", XFromTable("", ColumnNames(X), ToColumns(Owned(X).t)),
                     [want EXCEPT !.axes = <<Named("observation"), WithCoords("feature", TRUE, @[2].labels)>>])
Unlabel == Labelled /\ Becomes("array", Owned(X).t, Bare(want.shape, want.cells))

-----------------------------------------------------------------------------
Next ==
  \/ SetElement \/ FillArray \/ NegateInPlace \/ WriteColumn \/ Negate \/ ReshapeArray \/ TransposeArray \/ FlattenArray
  \/ MakeContiguous \/ ReduceAxis \/ ConcatArrays \/ ThroughTable \/ ThroughArray
  \/ SliceAxes \/ SelectRows \/ OneRow \/ Flip \/ Permute \/ Swap \/ Materialise
  \/ MakeMatrix \/ ViewToMatrix \/ MatrixToArray \/ SetMatrix \/ TransposeMatrix \/ GatherMatrix \/ MaskMatrix \/ ConcatMatrix
  \/ WindowMatrix \/ OwnWindow \/ LendTable \/ WindowTable \/ SelectColumns \/ TakeBack \/ CopyTable \/ TableToArray
  \/ MakeChunks \/ PushBatch \/ SetInChunks \/ NegateChunks \/ ReduceChunks \/ WindowChunks \/ RowsOfChunks \/ AxesOfChunks
  \/ RowOfChunks \/ RechunkArray \/ ConsolidateChunks \/ ChunksIntoArray \/ OwnSlices \/ ConcatChunks
  \/ LabelAxes \/ SelectLabelled \/ AtLabel \/ BetweenLabels \/ NearestLabel \/ FlipLabelled \/ RelabelAxis
  \/ ConcatLabelled \/ LabelledThroughTable \/ Unlabel
Spec == Init /\ [][Next]_vars

-----------------------------------------------------------------------------
Wanted(w, d, k) == Taken(w, [AllOf(w) EXCEPT ![d] = <<k>>], {}).cells
Single(w) ==
  /\ T.shape = w.shape
  /\ \A k \in DOMAIN w.cells : Get(T, IndexOf(w.shape, k - 1)) = w.cells[k]
  /\ Elements(T) = w.cells
  /\ w.shape # <<>> /\ T.strides[1] = 1 =>
       /\ Len(w.shape) = 2 => \A c \in 1..w.shape[2] : Col(T, c - 1) = Wanted(w, 2, c - 1) /\ Columns(T)[c] = Col(T, c - 1)
       /\ Is({"array"}) =>
            /\ \A k \in 0..w.shape[Len(w.shape)] - 1 : IndexLast(T, k) \in {Wanted(w, Len(w.shape), k), Stops}
            /\ IndexRange(T, 0, w.shape[Len(w.shape)]) \in {w.cells, Stops}
Grid(w) ==
  /\ T.shape = w.shape
  /\ \A c \in 1..w.shape[2] :
       /\ MatrixCol(T, c - 1) = Wanted(w, 2, c - 1)
       /\ \A r \in 1..w.shape[1] : MatrixGet(T, r - 1, c - 1) = MatrixCol(T, c - 1)[r] /\ MatrixRow(T, r - 1)[c] = MatrixCol(T, c - 1)[r]
Borrowed(w) ==
  /\ <<T.len, Len(T.offs)>> = w.shape
  /\ \A c \in DOMAIN T.offs : ColumnCells(T, c) = Wanted(w, 2, c - 1)
Batches(w) ==
  /\ it.parts # <<>> => ChunkShape(C) = w.shape
  /\ \A k \in DOMAIN w.cells : ChunkGet(C, IndexOf(w.shape, k - 1)) = w.cells[k]
  /\ it.parts # <<>> => IterLogical(C) = w.cells
  /\ \A i \in DOMAIN it.parts : Elements(it.parts[i]) =
       Taken(w, [AllOf(w) EXCEPT ![1] = [r \in 1..it.parts[i].shape[1] |-> Before(C, i) + r - 1]], {}).cells
  /\ LET u == FromSlice(w.cells, w.shape)
     IN  it.parts # <<>> => ChunksEqual(C, FromBatches(<<u>>))

(* However a tensor is laid out, reading it by index, by run, by column, in*)
(* iteration or across batches gives its elements, each under the labels of*)
(* its place: through every reshaping, transposition, window, gather, copy,*)
(* loan and return (structs/ndarray.rs, matrix.rs, xarray.rs,              *)
(* chunked/super_ndarray.rs and their views).                              *)
TensorsAreExact ==
  /\ Is({"array", "view", "labelled", "labelledview"}) => Single(want)
  /\ Is({"matrix", "window"}) => Grid(want)
  /\ Is({"table"}) => Borrowed(want)
  /\ Chunked => Batches(want)
  /\ it.axes = want.axes
=============================================================================
