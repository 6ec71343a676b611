---------------------------- MODULE TensorLayout ----------------------------
(***************************************************************************)
(* NdArray, NdArrayV, Matrix and MatrixV (structs/ndarray.rs, matrix.rs,   *)
(* structs/views/ndarray_view.rs and matrix_view.rs): a buffer read through*)
(* an offset, a shape and a stride per axis.  An array starts at offset 0; *)
(* a matrix has two axes, its columns a multiple of Align apart, and `rows`*)
(* is the height of the matrix a window of rows is of.  Indices start at 0.*)
(***************************************************************************)
EXTENDS Integers, Sequences

CONSTANTS Align,  \* ALIGN_ELEMS: 8 elements of 64 bytes
          NaN,    \* the float a null becomes
          Stops   \* what a call gives that panics or returns an error
ASSUME AlignAssumption == Align \in Nat \ {0}

LOCAL INSTANCE SequencesExt
LOCAL INSTANCE FiniteSetsExt

Lay(buf, off, shape, strides) == [buf |-> buf, off |-> off, shape |-> shape, strides |-> strides, rows |-> 0]
Product(s) == LET p[k \in 0..Len(s)] == IF k = 0 THEN 1 ELSE s[k] * p[k - 1] IN p[Len(s)]
Dot(s, t) == LET p[k \in 0..Len(s)] == IF k = 0 THEN 0 ELSE s[k] * t[k] + p[k - 1] IN p[Len(s)]
Zeros(n) == [k \in 1..n |-> 0]
Neg(x) == IF x = NaN THEN NaN ELSE 0 - x          \* what apply maps over the elements
Total(s) == LET p[k \in 0..Len(s)] == IF k = 0 THEN 0 ELSE IF NaN \in {s[k], p[k - 1]} THEN NaN ELSE s[k] + p[k - 1]
            IN  p[Len(s)]
Without(s, d) == SubSeq(s, 1, d - 1) \o SubSeq(s, d + 1, Len(s))
Ascending(S) == SelectSeq([k \in 1..Max(S \cup {0}) + 1 |-> k - 1], LAMBDA k : k \in S)
Overwrite(buf, from, cells) == [k \in DOMAIN buf |-> IF k - from \in DOMAIN cells THEN cells[k - from] ELSE buf[k]]

-----------------------------------------------------------------------------
(* Selectors of rows and axes (traits/selection.rs): one index, a list of  *)
(* indices, and ranges; `axis` is <<from, to, collapses>> or Stops, `range`*)
(* is <<start, length>> and clamped, `rows` the rows of the mask.          *)

SelectAt(k, n) ==
  [run |-> TRUE, rows |-> {k} \cap 0..n - 1,
   range |-> IF k \in 0..n - 1 THEN <<k, 1>> ELSE <<0, 0>>,
   axis |-> IF k \in 0..n - 1 THEN <<k, k + 1, TRUE>> ELSE Stops]
SelectList(ks, n) ==
  LET rows == {ks[i] : i \in DOMAIN ks} \cap 0..n - 1
  IN  [run |-> FALSE, rows |-> rows, range |-> <<0, 0>>,
       axis |-> IF \E k \in rows : rows = {k} THEN <<Min(rows), Min(rows) + 1, TRUE>> ELSE Stops]
SelectSpan(a, b, n) ==
  LET start == Max({a, 0})
      stop == Min({Max({b, 0}), n})
  IN  [run |-> TRUE, rows |-> start..stop - 1,
       range |-> IF start < stop THEN <<start, stop - start>> ELSE <<0, 0>>,
       axis |-> IF 0 <= a /\ a <= b /\ b <= n THEN <<a, b, FALSE>> ELSE Stops]
SelectFrom(a, n) ==
  LET start == Max({a, 0})
  IN  [run |-> TRUE, rows |-> start..n - 1,
       range |-> IF start < n THEN <<start, n - start>> ELSE <<0, 0>>,
       axis |-> IF a \in 0..n THEN <<a, n, FALSE>> ELSE Stops]
SelectTo(b, n) ==
  LET stop == Min({Max({b, 0}), n})
  IN  [run |-> TRUE, rows |-> 0..stop - 1, range |-> <<0, stop>>,
       axis |-> IF b \in 0..n THEN <<0, b, FALSE>> ELSE Stops]
SelectAll(n) == [run |-> TRUE, rows |-> 0..n - 1, range |-> <<0, n>>, axis |-> <<0, n, FALSE>>]
SelectThrough(a, b, n) ==
  IF b < 0 THEN [run |-> TRUE, rows |-> {}, range |-> <<0, 0>>, axis |-> Stops]
  ELSE LET start == Max({a, 0})
           stop == Min({b + 1, n})
       IN  [run |-> TRUE, rows |-> start..stop - 1,
            range |-> IF start < stop THEN <<start, stop - start>> ELSE <<0, 0>>,
            axis |-> IF 0 <= a /\ a <= b /\ b < n THEN <<a, b + 1, FALSE>> ELSE Stops]
Select(s, n) ==
  CASE s[1] = "at" -> SelectAt(s[2], n)
    [] s[1] = "list" -> SelectList(s[2], n)
    [] s[1] = "span" -> SelectSpan(s[2], s[3], n)
    [] s[1] = "from" -> SelectFrom(s[2], n)
    [] s[1] = "to" -> SelectTo(s[2], n)
    [] s[1] = "through" -> SelectThrough(s[2], s[3], n)
    [] s[1] = "all" -> SelectAll(n)

-----------------------------------------------------------------------------
(* Layouts and elements.                                                   *)

ColMajorStrides(shape) == [d \in DOMAIN shape |-> Product(SubSeq(shape, 1, d - 1))]
BufferLen(shape, strides) ==
  IF \E d \in DOMAIN shape : shape[d] = 0 THEN 0
  ELSE 1 + Dot([d \in DOMAIN shape |-> shape[d] - 1], strides)
AlignedStride(n) == ((n + Align - 1) \div Align) * Align

(* The k-th index in the order the odometers of the code count.            *)
IndexOf(shape, k) ==
  [d \in DOMAIN shape |-> (k \div Product(SubSeq(shape, 1, d - 1))) % shape[d]]
Indices(shape) == {IndexOf(shape, k) : k \in 0..Product(shape) - 1}

OffsetUnpadded(index, shape, strides) == Dot(index, ColMajorStrides(shape))  \* a mutant: as if nothing were skipped
OffsetOf(index, shape, strides) == Dot(index, strides)
Get(t, index) == t.buf[1 + t.off + OffsetOf(index, t.shape, t.strides)]
Set(t, index, x) == [t EXCEPT !.buf[1 + OffsetOf(index, t.shape, t.strides)] = x]

(* The iterators: runs along the first axis, one per index of the others.  *)
RunOffsets(t) ==
  IF Len(t.shape) <= 1 THEN <<t.off>>
  ELSE LET outer == Tail(t.shape)
       IN  [r \in 1..Product(outer) |-> t.off + Dot(IndexOf(outer, r - 1), Tail(t.strides))]
Elements(t) ==
  IF t.shape = <<>> THEN <<t.buf[t.off + 1]>>
  ELSE LET runs == RunOffsets(t)
       IN  [k \in 1..Product(t.shape) |->
              t.buf[1 + runs[1 + ((k - 1) \div t.shape[1])] + ((k - 1) % t.shape[1]) * t.strides[1]]]
AxisRun(t, run) ==
  LET from == t.off + Dot([d \in 1..Len(t.shape) - 1 |->
                             (run \div Product(SubSeq(Tail(t.shape), 1, d - 1))) % t.shape[d + 1]], Tail(t.strides))
  IN  [i \in 1..t.shape[1] |-> t.buf[1 + from + (i - 1) * t.strides[1]]]

IsContiguous(t) == t.strides = ColMajorStrides(t.shape)
Col(t, c) ==
  LET start == t.off + c * t.strides[2]
  IN  IF t.strides[1] = 1 THEN SubSeq(t.buf, start + 1, start + t.shape[1]) ELSE Stops
Columns(t) == IF t.strides[1] = 1 THEN [c \in 1..t.shape[2] |-> SubSeq(t.buf, t.off + ((c - 1) * t.strides[2]) + 1,
                                                              t.off + ((c - 1) * t.strides[2]) + t.shape[1])] ELSE Stops

(* array[k]: one element, a column, or all below the last axis.            *)
IndexLast(t, k) ==
  LET n == Len(t.shape)
  IN  CASE n = 1 -> <<t.buf[k + 1]>>
        [] n = 2 -> SubSeq(t.buf, (k * t.strides[2]) + 1, (k * t.strides[2]) + t.shape[1])
        [] OTHER -> IF IsContiguous(t) THEN SubSeq(t.buf, (k * t.strides[n]) + 1, (k + 1) * t.strides[n]) ELSE Stops
(* array[a..b]                                                             *)
IndexRange(t, a, b) ==
  LET n == Len(t.shape)
  IN  IF n = 1 THEN SubSeq(t.buf, a + 1, b)
      ELSE IF IsContiguous(t) THEN SubSeq(t.buf, (a * t.strides[n]) + 1, b * t.strides[n]) ELSE Stops

-----------------------------------------------------------------------------
(* NdArray.                                                                *)

New(shape) == Lay(Zeros(BufferLen(shape, ColMajorStrides(shape))), 0, shape, ColMajorStrides(shape))
FromSlice(data, shape) == Lay(data, 0, shape, ColMajorStrides(shape))
FromBuffer(data, shape, strides) ==
  IF Len(data) >= BufferLen(shape, strides) THEN Lay(data, 0, shape, strides) ELSE Stops
Fill(shape, x) == Lay([k \in 1..BufferLen(shape, ColMajorStrides(shape)) |-> x], 0, shape, ColMajorStrides(shape))
Eye(n) == LET t == New(<<n, n>>)
          IN  [t EXCEPT !.buf = [k \in DOMAIN @ |-> IF \E i \in 0..n - 1 : k = 1 + (i * t.strides[2]) + i THEN 1 ELSE @[k]]]
Linspace(start, end, n) ==
  LET step == (end - start) \div (n - 1) IN Lay([k \in 1..n |-> start + (step * (k - 1))], 0, <<n>>, <<1>>)
Arange(start, step, n) == Lay([k \in 1..n |-> start + (step * (k - 1))], 0, <<n>>, <<1>>)
FromColumns(cols) ==
  IF cols = <<>> THEN New(<<0, 0>>)
  ELSE LET n == Len(cols[1])
       IN  Lay([k \in 1..n * Len(cols) |-> cols[1 + ((k - 1) \div n)][1 + ((k - 1) % n)]], 0, <<n, Len(cols)>>, <<1, n>>)
FromMatrix(m) == [m EXCEPT !.rows = 0]

Where(t) == {1 + Dot(IndexOf(t.shape, k), t.strides) : k \in 0..Product(t.shape) - 1}
FillWith(t, x) ==
  [t EXCEPT !.buf = [k \in DOMAIN @ |-> IF IsContiguous(t) \/ k \in Where(t) THEN x ELSE @[k]]]
ApplyMut(t) ==
  [t EXCEPT !.buf = [k \in DOMAIN @ |-> IF IsContiguous(t) \/ k \in Where(t) THEN Neg(@[k]) ELSE @[k]]]
WriteCol(t, c, cells) ==
  IF t.strides[1] = 1 THEN [t EXCEPT !.buf = Overwrite(@, c * t.strides[2], cells)] ELSE Stops
Apply(t) == FromSlice([k \in DOMAIN Elements(t) |-> Neg(Elements(t)[k])], t.shape)
Reshape(t, shape) == IF Product(shape) = Product(t.shape) THEN FromSlice(Elements(t), shape) ELSE Stops
Flatten(t) == FromSlice(Elements(t), <<Product(t.shape)>>)
ToContiguous(t) == IF IsContiguous(t) THEN t ELSE FromSlice(Elements(t), t.shape)

Transpose(t) ==
  LET n == Len(t.shape)
      shape == Reverse(t.shape)
      dst == New(shape)
  IN  CASE n <= 1 -> ToContiguous(t)
        [] n = 2 -> [dst EXCEPT !.buf = [k \in DOMAIN @ |->
                       LET r == (k - 1) \div dst.strides[2]
                           c == (k - 1) % dst.strides[2]
                       IN  t.buf[1 + (c * t.strides[2]) + r]]]
        [] OTHER -> FromSlice([k \in 1..Product(shape) |-> t.buf[1 + Dot(IndexOf(shape, k - 1), Reverse(t.strides))]], shape)

(* What a function of one lane gives, with the sum of the lane for it.     *)
Lanes(t, d) ==
  LET shape == Without(t.shape, d)
      strides == Without(t.strides, d)
  IN  [k \in 1..Product(shape) |->
         [t EXCEPT !.off = t.off + Dot(IndexOf(shape, k - 1), strides), !.shape = <<t.shape[d]>>, !.strides = <<t.strides[d]>>]]
ApplyAxis(t, d) ==
  LET lanes == Lanes(t, d)
  IN  FromSlice([k \in DOMAIN lanes |-> Total(Elements(lanes[k]))], Without(t.shape, d))

ToColumns(t) ==
  LET this == IF t.strides[1] = 1 THEN t ELSE ToContiguous(t)
  IN  [c \in 1..t.shape[2] |-> SubSeq(this.buf, ((c - 1) * this.strides[2]) + 1, ((c - 1) * this.strides[2]) + this.shape[1])]
ToArray(t) == IF t.strides[1] = 1 /\ Len(t.buf) = Product(t.shape) THEN t.buf ELSE Elements(t)

Joined(t, u) ==
  LET shape == <<t.shape[1] + u.shape[1]>> \o Tail(t.shape)
      dst == New(shape)
      n1 == t.shape[1]
      n == shape[1]
      runs == [t |-> Elements(t), u |-> Elements(u)]
  IN  CASE Len(shape) = 1 -> FromSlice(runs.t \o runs.u, shape)
        [] Len(shape) = 2 /\ t.strides[1] = 1 /\ u.strides[1] = 1 ->
             [dst EXCEPT !.buf = [k \in DOMAIN @ |->
                LET c == (k - 1) \div dst.strides[2]
                    i == (k - 1) % dst.strides[2]
                IN  IF i < n1 THEN Col(t, c)[i + 1] ELSE Col(u, c)[i - n1 + 1]]]
        [] OTHER ->
             [dst EXCEPT !.buf = [k \in DOMAIN @ |->
                LET r == (k - 1) \div n
                    i == (k - 1) % n
                IN  IF i < n1 THEN runs.t[(r * n1) + i + 1] ELSE runs.u[(r * u.shape[1]) + (i - n1) + 1]]]
Concat(t, u) ==
  IF Len(t.shape) = Len(u.shape) /\ t.shape # <<>> /\ Tail(t.shape) = Tail(u.shape) THEN Joined(t, u) ELSE Stops

(* Rows taken one by one; a shape with an empty inner axis is read anyway. *)
GatherObs(t, rows) ==
  LET shape == <<Len(rows)>> \o Tail(t.shape)
  IN  IF Product(Tail(t.shape)) = 0 /\ rows # <<>> THEN Stops
      ELSE FromSlice([k \in 1..Product(shape) |->
                        LET at == IndexOf(shape, k - 1) IN Get(t, [at EXCEPT ![1] = rows[at[1] + 1]])], shape)
GatherObsMask(t, rows) == GatherObs(t, Ascending(rows))

-----------------------------------------------------------------------------
(* NdArrayV.                                                               *)

TryNew(t, off, shape, strides) ==
  LET span == BufferLen(shape, strides)
  IN  IF off + span > Len(t.buf) THEN Stops ELSE [t EXCEPT !.off = off, !.shape = shape, !.strides = strides]
Slice(t, selection) ==
  LET axes == [d \in DOMAIN t.shape |-> Select(selection[d], t.shape[d]).axis]
      kept == Ascending({d \in DOMAIN axes : ~axes[d][3]})
  IN  IF Stops \in {axes[d] : d \in DOMAIN axes} THEN Stops
      ELSE TryNew(t, t.off + Dot([d \in DOMAIN axes |-> axes[d][1]], t.strides),
                  [i \in DOMAIN kept |-> axes[kept[i]][2] - axes[kept[i]][1]],
                  [i \in DOMAIN kept |-> t.strides[kept[i]]])
Rows(t, selector) ==
  LET s == Select(selector, t.shape[1])
  IN  IF s.run THEN Slice(t, <<<<"span", s.range[1], s.range[1] + s.range[2]>>>> \o [d \in DOMAIN Tail(t.shape) |-> <<"all">>])
      ELSE GatherObsMask(t, s.rows)
Obs(t, k) == TryNew(t, t.off + (k * t.strides[1]), Tail(t.shape), Tail(t.strides))
TransposeView(t) == TryNew(t, t.off, Reverse(t.shape), Reverse(t.strides))
PermuteAxes(t, perm) ==
  TryNew(t, t.off, [d \in DOMAIN perm |-> t.shape[perm[d]]], [d \in DOMAIN perm |-> t.strides[perm[d]]])
SwapAxes(t, a, b) ==
  LET swap(s) == [s EXCEPT ![a] = s[b], ![b] = s[a]] IN TryNew(t, t.off, swap(t.shape), swap(t.strides))
ToNdArray(t) == FromSlice(Elements(t), t.shape)

-----------------------------------------------------------------------------
(* Matrix.                                                                 *)

Mat(buf, rows, cols) == [Lay(buf, 0, <<rows, cols>>, <<1, AlignedStride(rows)>>) EXCEPT !.rows = rows]
MatrixNew(rows, cols) == Mat(Zeros(AlignedStride(rows) * cols), rows, cols)
Padded(cols, n) ==
  FlattenSeq([c \in DOMAIN cols |-> cols[c] \o Zeros(AlignedStride(n) - n)])
FromUnaligned(src, rows, cols) ==
  Mat(Padded([c \in 1..cols |-> SubSeq(src, ((c - 1) * rows) + 1, c * rows)], rows), rows, cols)
ToMatrix(t) ==
  IF t.strides = <<1, AlignedStride(t.shape[1])>> THEN [t EXCEPT !.rows = t.shape[1]]
  ELSE FromUnaligned(Elements(t), t.shape[1], t.shape[2])
MatrixFromCols(cols) == Mat(Padded(cols, Len(cols[1])), Len(cols[1]), Len(cols))

MatrixGet(m, r, c) == m.buf[1 + (c * m.strides[2]) + m.off + r]
MatrixRow(m, r) == [c \in 1..m.shape[2] |-> m.buf[1 + ((c - 1) * m.strides[2]) + m.off + r]]
MatrixCol(m, c) == SubSeq(m.buf, 1 + (c * m.strides[2]) + m.off, (c * m.strides[2]) + m.off + m.shape[1])
MatrixTranspose(m) ==
  LET dst == MatrixNew(m.shape[2], m.shape[1])
  IN  [dst EXCEPT !.buf = [k \in DOMAIN @ |->
         LET i == (k - 1) \div dst.strides[2]
             j == (k - 1) % dst.strides[2]
         IN  IF j < m.shape[2] THEN m.buf[1 + (j * m.strides[2]) + i] ELSE 0]]
MatrixGather(m, rows) ==
  Mat(Padded([c \in 1..m.shape[2] |-> [k \in DOMAIN rows |-> MatrixCol(m, c - 1)[rows[k] + 1]]], Len(rows)),
      Len(rows), m.shape[2])
MatrixGatherMask(m, rows) == MatrixGather(m, Ascending(rows))
MatrixConcat(m, o) ==
  LET n == m.shape[1] + o.shape[1]
  IN  CASE m.shape[2] # o.shape[2] -> Stops
        [] Product(m.shape) = 0 /\ Product(o.shape) = 0 -> MatrixNew(0, 0)
        [] OTHER -> Mat(Padded([c \in 1..m.shape[2] |-> MatrixCol(m, c - 1) \o MatrixCol(o, c - 1)], n), n, m.shape[2])

(* A window of rows (MatrixV).                                             *)
MatrixWindow(m, off, len) == [m EXCEPT !.off = @ + off, !.shape[1] = len]
SpansBacking(v) == v.off = 0 /\ v.shape[1] = v.rows
WindowToMatrix(v) ==
  IF SpansBacking(v) THEN v
  ELSE Mat(Padded([c \in 1..v.shape[2] |-> MatrixCol(v, c - 1)], v.shape[1]), v.shape[1], v.shape[2])
WindowGather(v, rows) == MatrixGather([v EXCEPT !.off = 0, !.shape[1] = v.rows], [k \in DOMAIN rows |-> v.off + rows[k]])
WindowGatherMask(v, rows) ==
  Mat(Padded([c \in 1..v.shape[2] |-> [k \in DOMAIN Ascending(rows) |-> MatrixCol(v, c - 1)[Ascending(rows)[k] + 1]]],
             Len(Ascending(rows))), Len(Ascending(rows)), v.shape[2])
MatrixRows(m, selector) ==
  LET s == Select(selector, m.shape[1])
  IN  IF s.run THEN MatrixWindow(m, s.range[1], s.range[2]) ELSE WindowGatherMask(m, s.rows)

-----------------------------------------------------------------------------
(* Tables of float columns over one allocation, as [buf, offs, len, nulls]:*)
(* a matrix lends its columns, and takes them back without a copy when they*)
(* still lie one stride apart.                                             *)

ToTable(m) == [buf |-> m.buf, offs |-> [c \in 1..m.shape[2] |-> (c - 1) * m.strides[2]], len |-> m.shape[1], nulls |-> {}]
TableRows(v, off, len) ==
  [v EXCEPT !.offs = [c \in DOMAIN @ |-> @[c] + off], !.len = len,
            !.nulls = {<<n[1], n[2] - off>> : n \in {x \in @ : x[2] - off \in 0..len - 1}}]
TableColumns(v, cols) == [v EXCEPT !.offs = [c \in DOMAIN cols |-> @[cols[c]]]]
ColumnCells(v, c) == SubSeq(v.buf, v.offs[c] + 1, v.offs[c] + v.len)
ZeroCopyMatrix(v) ==
  LET stride == AlignedStride(v.len)
      total == stride * Len(v.offs)
      base == v.offs[1]
  IN  IF v.offs = <<>> THEN Stops
      ELSE IF \/ v.nulls # {}
              \/ \E c \in DOMAIN v.offs : v.offs[c] # base + ((c - 1) * stride)
              \/ base + total > Len(v.buf)
      THEN Stops
      ELSE Mat(SubSeq(v.buf, base + 1, base + total), v.len, Len(v.offs))
MatrixFromTable(v) ==
  IF v.nulls # {} THEN Stops
  ELSE Mat(Padded([c \in DOMAIN v.offs |-> ColumnCells(v, c)], v.len), v.len, Len(v.offs))
NdFromTable(v) ==
  IF v.offs = <<>> THEN New(<<0, 0>>)
  ELSE FromColumns([c \in DOMAIN v.offs |->
         [i \in 1..v.len |-> IF <<c, i - 1>> \in v.nulls THEN NaN ELSE ColumnCells(v, c)[i]]])
-----------------------------------------------------------------------------
(* SuperNdArray and SuperNdArrayV: arrays whose first axis is cut over     *)
(* several batches, as [parts, ndim, inner]; and XArray: an array or a view*)
(* with a name per axis and, for some, a label per position                *)
(* (structs/chunked/super_ndarray.rs, structs/views/chunked/               *)
(* super_ndarray_view.rs, structs/xarray.rs).                              *)
NObs(c) == Total([i \in DOMAIN c.parts |-> c.parts[i].shape[1]])
Before(c, i) == Total([j \in 1..i - 1 |-> c.parts[j].shape[1]])
ChunkShape(c) == <<NObs(c)>> \o c.inner
FromBatches(parts) ==
  IF parts = <<>> THEN [parts |-> <<>>, ndim |-> 0, inner |-> <<>>]
  ELSE IF \/ parts[1].shape = <<>>
          \/ \E i \in DOMAIN parts : Len(parts[i].shape) # Len(parts[1].shape) \/ Tail(parts[i].shape) # Tail(parts[1].shape)
  THEN Stops
  ELSE [parts |-> parts, ndim |-> Len(parts[1].shape), inner |-> Tail(parts[1].shape)]
Push(c, t) ==
  IF c.parts = <<>> THEN [parts |-> <<t>>, ndim |-> Len(t.shape), inner |-> Tail(t.shape)]
  ELSE IF Len(t.shape) # c.ndim \/ Tail(t.shape) # c.inner THEN Stops ELSE [c EXCEPT !.parts = Append(@, t)]

(* The batch and the local row of a row of the whole.                      *)
Resolve(c, row) ==
  LET i == CHOOSE j \in DOMAIN c.parts : Before(c, j) <= row /\ row < Before(c, j) + c.parts[j].shape[1]
  IN  <<i, row - Before(c, i)>>
ChunkGet(c, index) ==
  LET at == Resolve(c, index[1]) IN Get(c.parts[at[1]], [index EXCEPT ![1] = at[2]])
ChunkSet(c, index, x) ==
  LET at == Resolve(c, index[1]) IN [c EXCEPT !.parts[at[1]] = Set(@, [index EXCEPT ![1] = at[2]], x)]
ChunkObs(c, k) == LET at == Resolve(c, k) IN Obs(c.parts[at[1]], at[2])
ChunkCol(c, k) == FlattenSeq([i \in DOMAIN c.parts |-> Col(c.parts[i], k)])
IterLogical(c) ==
  FlattenSeq([r \in 1..Product(c.inner) |-> FlattenSeq([i \in DOMAIN c.parts |-> AxisRun(c.parts[i], r - 1)])])

(* A window of rows: a slice per batch it meets, and an empty one where an *)
(* empty window starts inside a batch.                                     *)
ChunkWindow(c, off, len) ==
  LET from(i) == Max({off - Before(c, i), 0})
      to(i) == Min({off + len - Before(c, i), c.parts[i].shape[1]})
      meets == {i \in DOMAIN c.parts : /\ from(i) < c.parts[i].shape[1]
                                       /\ from(i) < to(i) \/ (len = 0 /\ Before(c, i) <= off)}
      s == Ascending(meets)
      slices == [k \in DOMAIN s |->
                   TryNew(c.parts[s[k]], c.parts[s[k]].off + (from(s[k]) * c.parts[s[k]].strides[1]),
                          <<to(s[k]) - from(s[k])>> \o Tail(c.parts[s[k]].shape), c.parts[s[k]].strides)]
  IN  IF Stops \in {slices[k] : k \in DOMAIN slices} THEN Stops ELSE [c EXCEPT !.parts = slices]
ChunkGather(c, rows) ==
  LET list == Ascending(rows)
      shape == <<Len(list)>> \o c.inner
  IN  IF Product(c.inner) = 0 /\ rows # {} THEN Stops
      ELSE FromBatches(<<FromSlice([k \in 1..Product(shape) |->
             LET at == IndexOf(shape, k - 1) IN ChunkGet(c, [at EXCEPT ![1] = list[at[1] + 1]])], shape)>>)
ChunkRows(c, selector) ==
  LET s == Select(selector, NObs(c))
  IN  IF c.parts = <<>> THEN c ELSE IF s.run THEN ChunkWindow(c, s.range[1], s.range[2]) ELSE ChunkGather(c, s.rows)
(* s(): the first axis keeps its place even for a single index.            *)
ChunkAxes(c, selection) ==
  LET first == Select(selection[1], NObs(c)).axis
      window == ChunkWindow(c, first[1], first[2] - first[1])
      views == [i \in DOMAIN window.parts |->
                  Slice(window.parts[i], <<<<"span", 0, window.parts[i].shape[1]>>>> \o Tail(selection))]
      axes == [d \in DOMAIN c.inner |-> Select(selection[d + 1], c.inner[d]).axis]
      kept == Ascending({d \in DOMAIN axes : ~axes[d][3]})
  IN  IF Stops \in {first} \cup {axes[d] : d \in DOMAIN axes} THEN Stops
      ELSE IF window = Stops \/ c.ndim = 1 THEN window
      ELSE IF Stops \in {views[i] : i \in DOMAIN views} THEN Stops
      ELSE [parts |-> views, ndim |-> 1 + Len(kept), inner |-> [i \in DOMAIN kept |-> axes[kept[i]][2] - axes[kept[i]][1]]]

ChunkApply(c) == FromBatches([i \in DOMAIN c.parts |-> Apply(c.parts[i])])
ChunkApplyAxis(c, d) ==
  IF d > 1 THEN FromBatches([i \in DOMAIN c.parts |-> ApplyAxis(c.parts[i], d)])
  ELSE LET lane(k) == [r \in 1..NObs(c) |-> ChunkGet(c, <<r - 1>> \o IndexOf(c.inner, k - 1))]
       IN  FromBatches(<<FromSlice([k \in 1..Product(c.inner) |-> Total(lane(k))], c.inner)>>)

Consolidate(c) ==
  LET dst == New(ChunkShape(c))
      place(k) == LET col == (k - 1) \div NObs(c)
                      at == Resolve(c, (k - 1) % NObs(c))
                      src == c.parts[at[1]]
                  IN  src.buf[1 + src.off + Dot(IndexOf(c.inner, col), Tail(src.strides)) + at[2] * src.strides[1]]
  IN  CASE c.parts = <<>> -> New(<<0>>)
        [] Len(c.parts) = 1 -> ToContiguous(c.parts[1])
        [] OTHER -> [dst EXCEPT !.buf = [k \in DOMAIN @ |-> place(k)]]
Rechunk(c, size) ==
  LET whole == Consolidate(c)
      n(b) == Min({size, NObs(c) - (b - 1) * size})
      cols == Max({Product(c.inner), 1})
      batch(b) == IF c.ndim <= 1
                  THEN FromSlice(SubSeq(whole.buf, (b - 1) * size + 1, ((b - 1) * size) + n(b)), <<n(b)>>)
                  ELSE FromSlice([k \in 1..n(b) * cols |->
                         whole.buf[1 + (((k - 1) \div n(b)) * whole.strides[2]) + (b - 1) * size + ((k - 1) % n(b))]],
                         <<n(b)>> \o c.inner)
  IN  IF NObs(c) = 0 THEN c
      ELSE IF Product(c.inner) = 0 \/ size = 0 THEN Stops
      ELSE [c EXCEPT !.parts = [b \in 1..((NObs(c) + size - 1) \div size) |-> batch(b)]]
ChunksToArray(c) ==
  LET n == NObs(c) * Product(c.inner) IN IF n = 0 THEN New(<<0>>) ELSE Rechunk(c, n).parts[1]
(* The view copies run by run from the elements of its slices.             *)
ConsolidateView(c) ==
  FromSlice(FlattenSeq([r \in 1..Product(c.inner) |->
              FlattenSeq([i \in DOMAIN c.parts |->
                LET n == c.parts[i].shape[1] IN SubSeq(Elements(c.parts[i]), (r - 1) * n + 1, r * n)])]), ChunkShape(c))
ViewToChunks(c) == FromBatches([i \in DOMAIN c.parts |-> ToNdArray(c.parts[i])])
ChunkConcat(c, o) ==
  CASE c.parts = <<>> -> o
    [] o.parts = <<>> -> c
    [] c.ndim # o.ndim \/ c.inner # o.inner -> Stops
    [] OTHER -> [c EXCEPT !.parts = @ \o o.parts]
ChunksEqual(c, o) ==
  LET column(x, k) == FlattenSeq([i \in DOMAIN x.parts |->
        LET b == x.parts[i]
            off == b.off + Dot(IndexOf(x.inner, k), Tail(b.strides))
        IN  [r \in 1..b.shape[1] |-> b.buf[1 + off + (r - 1) * b.strides[1]]]])
  IN  /\ c.ndim = o.ndim /\ c.inner = o.inner /\ NObs(c) = NObs(o)
      /\ \A k \in 0..Product(c.inner) - 1 : column(c, k) = column(o, k)

-----------------------------------------------------------------------------
(* Labelled axes, as [name, has, text, labels].                            *)

Named(name) == [name |-> name, has |-> FALSE, text |-> FALSE, labels |-> <<>>]
WithCoords(name, text, labels) == [name |-> name, has |-> TRUE, text |-> text, labels |-> labels]
Fits(t, axes) ==
  Len(t.shape) = Len(axes) /\ \A d \in DOMAIN axes : axes[d].has => Len(axes[d].labels) = t.shape[d]
WithAxes(t, axes) == IF Fits(t, axes) THEN [t |-> t, axes |-> axes] ELSE Stops
DimOf(axes, name) == Min({d \in DOMAIN axes : axes[d].name = name} \cup {Len(axes) + 1})
Window(axis, from, to) == [axis EXCEPT !.labels = IF axis.has THEN SubSeq(@, from + 1, to) ELSE <<>>]

CoordPos(axis, v) ==
  LET found == {i \in DOMAIN axis.labels : axis.labels[i] = v}
  IN  IF ~axis.has \/ found = {} THEN Stops ELSE Min(found) - 1
(* From the first label within to the last, and all between must be within.*)
CoordRange(axis, low, high) ==
  LET within == {i \in DOMAIN axis.labels : low <= axis.labels[i] /\ axis.labels[i] <= high}
  IN  IF ~axis.has \/ within = {} THEN Stops
      ELSE IF Max(within) - Min(within) + 1 # Cardinality(within) THEN Stops
      ELSE <<Min(within) - 1, Max(within)>>
Distance(a, b) == IF a < b THEN b - a ELSE a - b
CoordNearest(axis, v) ==
  LET best == Min({Distance(axis.labels[i], v) : i \in DOMAIN axis.labels})
  IN  IF ~axis.has \/ axis.text \/ axis.labels = <<>> THEN Stops
      ELSE Min({i \in DOMAIN axis.labels : Distance(axis.labels[i], v) = best}) - 1

(* The last selection of an axis counts; one index drops the axis.         *)
LastOf(selection, name) == Max({k \in DOMAIN selection : selection[k][1] = name})
XSelect(x, selection) ==
  LET chosen(d) == {k \in DOMAIN selection : DimOf(x.axes, selection[k][1]) = d}
      sel == [d \in DOMAIN x.axes |-> IF chosen(d) = {} THEN <<"all">> ELSE selection[LastOf(selection, x.axes[d].name)][2]]
      axis == [d \in DOMAIN sel |-> Select(sel[d], x.t.shape[d]).axis]
      kept == Ascending({d \in DOMAIN sel : ~axis[d][3]})
      view == Slice(x.t, sel)
  IN  IF Stops \in {axis[d] : d \in DOMAIN axis} \/ view = Stops THEN Stops
      ELSE [t |-> view, axes |-> [i \in DOMAIN kept |-> Window(x.axes[kept[i]], axis[kept[i]][1], axis[kept[i]][2])]]
XAt(x, name, v) ==
  LET d == DimOf(x.axes, name)
      pos == CoordPos(x.axes[d], v)
      view == Slice(x.t, [e \in DOMAIN x.axes |-> IF e = d THEN <<"at", pos>> ELSE <<"all">>])
  IN  IF pos = Stops THEN Stops ELSE IF view = Stops THEN Stops ELSE [t |-> view, axes |-> Without(x.axes, d)]
XBetween(x, name, low, high) ==
  LET d == DimOf(x.axes, name)
      range == CoordRange(x.axes[d], low, high)
      view == Slice(x.t, [e \in DOMAIN x.axes |-> IF e = d THEN <<"span", range[1], range[2]>> ELSE <<"all">>])
  IN  IF range = Stops THEN Stops ELSE IF view = Stops THEN Stops
      ELSE [t |-> view, axes |-> [x.axes EXCEPT ![d] = Window(@, range[1], range[2])]]
XNearest(x, name, v) ==
  LET d == DimOf(x.axes, name)
      pos == CoordNearest(x.axes[d], v)
      view == Slice(x.t, [e \in DOMAIN x.axes |-> IF e = d THEN <<"at", pos>> ELSE <<"all">>])
  IN  IF pos = Stops THEN Stops ELSE IF view = Stops THEN Stops ELSE [t |-> view, axes |-> Without(x.axes, d)]
XTranspose(x, owned, order) ==
  IF Len(x.axes) # 2 \/ order[1] = order[2] \/ \E i \in 1..2 : DimOf(x.axes, order[i]) > 2 THEN Stops
  ELSE IF order[1] = x.axes[1].name THEN x
  ELSE [t |-> IF owned THEN Transpose(x.t) ELSE ToNdArray(TransposeView(x.t)),
        axes |-> [i \in 1..2 |-> x.axes[DimOf(x.axes, order[i])]]]
AssignCoords(x, name, text, labels) ==
  LET d == DimOf(x.axes, name)
  IN  IF Len(labels) # x.t.shape[d] THEN Stops ELSE [x EXCEPT !.axes[d] = WithCoords(name, text, labels)]
RenameDim(x, old, new) == [x EXCEPT !.axes[DimOf(x.axes, old)].name = new]
DropCoords(x, name) == [x EXCEPT !.axes[DimOf(x.axes, name)] = Named(name)]
JoinedAxis(a, b, first) ==
  CASE first /\ a.has /\ b.has -> [a EXCEPT !.labels = @ \o b.labels]
    [] ~first /\ ~a.has -> b
    [] OTHER -> a
XConcat(x, y) ==
  LET t == IF Len(x.axes) = Len(y.axes) THEN Concat(x.t, y.t) ELSE Stops
  IN  IF \/ Len(x.axes) # Len(y.axes)
         \/ \E d \in DOMAIN x.axes : x.axes[d].name # y.axes[d].name
         \/ x.axes[1].has # y.axes[1].has
         \/ \E d \in DOMAIN x.axes \ {1} : x.axes[d].has /\ y.axes[d].has /\ x.axes[d] # y.axes[d]
         \/ t = Stops
      THEN Stops
      ELSE [t |-> t, axes |-> [d \in DOMAIN x.axes |-> JoinedAxis(x.axes[d], y.axes[d], d = 1)]]
(* A table names its columns after the labels of the second axis, and one  *)
(* that is read back labels that axis with its column names.               *)
ColumnNames(x) == IF x.axes[2].has THEN x.axes[2].labels ELSE [c \in 1..x.t.shape[2] |-> <<x.axes[2].name, c - 1>>]
XFromTable(name, names, cols) ==
  [t |-> FromColumns(cols), axes |-> <<Named(IF name = "" THEN "observation" ELSE name), WithCoords("feature", TRUE, names)>>]
=============================================================================
