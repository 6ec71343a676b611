------------------------------- MODULE Tables --------------------------------
(***************************************************************************)
(* Table (structs/table.rs), its columns (structs/field_array.rs) and its  *)
(* view (structs/views/table_view.rs).                                     *)
(*                                                                         *)
(* A table is [cols, rows]: field arrays, and the number of rows it has    *)
(* been told.  A table view is [fields, cols, offset, n, selection]:       *)
(* cols are array views, selection is <<>> or <<column numbers>>.          *)
(***************************************************************************)
EXTENDS Chunks

TableOf(cols, rows) == [cols |-> cols, rows |-> rows]
NoTable == TableOf(<<>>, 0)
FirstLength(cols) == IF cols = <<>> THEN 0 ELSE Length(cols[1].array)
NewTable(cols) == TableOf(cols, FirstLength(cols))

WithArray(f, a) == [f EXCEPT !.array = a, !.nulls = NullCount(a)]
FieldDeleted(f, from, to) == WithArray(f, Deleted(f.array, from, to))
FieldSliced(f, offset, n) == WithArray(f, Sliced(f.array, offset, n))
FieldAppended(f, g)       == WithArray(f, Appended(f.array, g.array))
FieldRange(f, g, offset, n) == WithArray(f, AppendedRange(f.array, g.array, offset, n))

NamedColumn(t, name) == SelectSeq([c \in DOMAIN t.cols |-> c], LAMBDA c : t.cols[c].field.name = name)
HasColumn(t, name)   == NamedColumn(t, name) # <<>>

AddCol(t, f) == TableOf(Append(t.cols, f), IF t.cols = <<>> THEN Length(f.array) ELSE t.rows)
Renamed(field, mapping) ==
  LET hit == {i \in DOMAIN mapping : mapping[i][1] = field.name}
  IN  IF hit = {} THEN field ELSE [field EXCEPT !.name = mapping[CHOOSE i \in hit : \A j \in hit : i <= j][2]]
RenameColumns(t, mapping) ==
  [t EXCEPT !.cols = [c \in DOMAIN @ |-> [@[c] EXCEPT !.field = Renamed(@, mapping)]]]
DeleteRows(t, from, to) ==
  IF from = to THEN t
  ELSE TableOf([c \in DOMAIN t.cols |-> FieldDeleted(t.cols[c], from, to)], t.rows - (to - from))
RemoveColAt(t, c) == NewTable(RemoveAt(t.cols, c))
RemoveCol(t, name) == IF HasColumn(t, name) THEN RemoveColAt(t, NamedColumn(t, name)[1]) ELSE t
SliceClone(t, offset, n) == TableOf([c \in DOMAIN t.cols |-> FieldSliced(t.cols[c], offset, n)], n)

(* insert_rows checks and changes one column after the other: the first    *)
(* that does not agree returns an error, with the ones before it changed.  *)
InsertStops(shared, t, o) ==
  {c \in DOMAIN t.cols : ~Agree(t.cols[c].field, o.cols[c].field)
                         \/ InsertFails(shared, t.cols[c].array, o.cols[c].array)}
InsertRows(shared, t, at, o) ==
  LET stops == InsertStops(shared, t, o)
      changed(c) == \A s \in stops : c < s
  IN  TableOf([c \in DOMAIN t.cols |->
                 IF changed(c) THEN WithArray(t.cols[c], InsertedRows(t.cols[c].array, at, o.cols[c].array, 0))
                 ELSE t.cols[c]],
              IF stops = {} THEN t.rows + o.rows ELSE t.rows)

(* split leaves the null counts of the halves at 0. *)
TableHalves(t, at) ==
  [side \in 1..2 |->
     TableOf([c \in DOMAIN t.cols |-> [t.cols[c] EXCEPT !.array = Halves(@, at)[side], !.nulls = 0]],
             IF side = 1 THEN at ELSE t.rows - at)]

JoinStops(shared, t, o) ==
  {c \in DOMAIN t.cols : ~Agree(t.cols[c].field, o.cols[c].field)
                         \/ ConcatFails(shared, t.cols[c].array, o.cols[c].array)}
TablesJoin(shared, t, o) == Len(t.cols) = Len(o.cols) /\ JoinStops(shared, t, o) = {}
TableConcat(t, o) ==
  NewTable([c \in DOMAIN t.cols |-> WithArray(t.cols[c], Concatenated(t.cols[c].array, o.cols[c].array))])

(* The consolidation of a Vec<Table>, and of a SuperTable. *)
ColumnOf(tables, c) == [i \in DOMAIN tables |-> tables[i].cols[c].array]
ColumnsOf(tables) == [c \in DOMAIN tables[1].cols |-> ColumnOf(tables, c)]
RowsTold(tables)  == FoldSeq(LAMBDA t, n : t.rows + n, 0, tables)
AppendedAll(arrays) ==
  LET upTo[i \in DOMAIN arrays] == IF i = 1 THEN arrays[1] ELSE Appended(upTo[i - 1], arrays[i]) IN upTo[Len(arrays)]
ConsolidatedTables(arena, tables) ==
  LET columns == ColumnsOf(tables)
      arrays == IF arena THEN ConsolidatedColumns(columns, RowsTold(tables))
                ELSE [c \in DOMAIN columns |-> AppendedAll(columns[c])]
  IN  IF Len(tables) = 1 THEN tables[1]
      ELSE TableOf([c \in DOMAIN columns |-> FieldArrayOf(tables[1].cols[c].field, arrays[c])], RowsTold(tables))
-----------------------------------------------------------------------------
TableView(t, offset, n) ==
  [fields |-> [c \in DOMAIN t.cols |-> t.cols[c].field],
   cols |-> [c \in DOMAIN t.cols |-> View(t.cols[c].array, offset, n)],
   offset |-> offset, n |-> n, selection |-> <<>>]
ViewOfTable(t) ==
  [TableView(t, 0, t.rows) EXCEPT !.cols = [c \in DOMAIN t.cols |-> WholeOfField(t.cols[c])]]
TableNarrowed(v, offset, n) ==
  [v EXCEPT !.cols = [c \in DOMAIN @ |-> Narrowed(@[c], offset, n)], !.offset = @ + offset, !.n = n]
ActiveColumns(v) == IF v.selection = <<>> THEN [c \in DOMAIN v.fields |-> c] ELSE v.selection[1]
ResolvedColumn(v, c) == IF c \in DOMAIN ActiveColumns(v) THEN <<ActiveColumns(v)[c]>> ELSE <<>>
PositionOf(fields, name) == SelectSeq([c \in DOMAIN fields |-> c], LAMBDA c : fields[c].name = name)

TakenColumns(v, Taken(_)) ==
  LET active == ActiveColumns(v) IN [k \in DOMAIN active |-> FieldArrayOf(v.fields[active[k]], Taken(v.cols[active[k]]))]
ToTable(v) == TableOf(TakenColumns(v, ToArray), v.n)
GatherRows(shared, v, rows) ==
  IF rows = <<>> THEN NoTable
  ELSE LET taken(w) == GatherIndices(shared, w, rows) IN TableOf(TakenColumns(v, taken), Len(rows))
GatherRowsMask(shared, v, bits) ==
  LET taken(w) == GatherMask(shared, w, bits) IN TableOf(TakenColumns(v, taken), Len(RowsOfMask(bits)))
RenameViewColumns(v, mapping) ==
  LET active == ToSet(ActiveColumns(v))
  IN  [v EXCEPT !.fields = [c \in DOMAIN @ |-> IF c \in active THEN Renamed(@[c], mapping) ELSE @[c]]]

(* c: the columns of a table by name, in the order of the names; a view    *)
(* keeps all columns and a selection of their numbers, of those that are   *)
(* selected already.                                                       *)
Resolved(fields, names) == FlattenSeq([i \in DOMAIN names |-> UpTo(1, PositionOf(fields, names[i]))])
TableSelect(t, names) ==
  LET v == ViewOfTable(t)
      chosen == Resolved(v.fields, names)
  IN  [v EXCEPT !.fields = [k \in DOMAIN chosen |-> v.fields[chosen[k]]],
                !.cols = [k \in DOMAIN chosen |-> v.cols[chosen[k]]]]
ViewSelect(v, names) ==
  [v EXCEPT !.selection = <<SelectSeq(Resolved(v.fields, names), LAMBDA c : c \in ToSet(ActiveColumns(v)))>>]

(* get looks the name up in all columns and takes the position for one of  *)
(* the selection.                                                          *)
GetColumn(v, name) ==
  LET c == PositionOf(v.fields, name)
      raw == IF c = <<>> THEN <<>> ELSE ResolvedColumn(v, c[1])
  IN  IF raw = <<>> THEN <<>> ELSE <<FieldArrayOf(v.fields[c[1]], ToArray(v.cols[raw[1]]))>>

(* r: a range narrows the view, any other selection gathers. *)
SelectRange(v, offset, n) == IF n = 0 THEN TableNarrowed(v, 0, 0) ELSE TableNarrowed(v, offset, n)
SelectRows(shared, v, bits) == ViewOfTable(GatherRowsMask(shared, v, bits))

(* get_views_for_target_batch_size: windows of a stride. *)
BatchViews(t, stride) ==
  LET count == (t.rows + stride - 1) \div stride
      n(i) == IF i * stride > t.rows THEN t.rows - (i - 1) * stride ELSE stride
  IN  IF t.rows = 0 THEN <<TableView(t, 0, 0)>>
      ELSE [i \in 1..count |-> TableView(t, (i - 1) * stride, n(i))]
-----------------------------------------------------------------------------
(* SuperTable (structs/chunked/super_table.rs), a table in batches, and    *)
(* its view (structs/views/chunked/super_table_view.rs).                   *)
(*                                                                         *)
(* A super table is [batches, schema, rows, managers]: tables, the fields  *)
(* of the first, the rows it has been told of, and a category manager for  *)
(* each column.  A view is [views, n].                                     *)
FieldsOf(t) == [c \in DOMAIN t.cols |-> t.cols[c].field]
NoSuperTable == [batches |-> <<>>, schema |-> <<>>, rows |-> 0, managers |-> <<>>]
RowsOfTable(t) == t.rows
BatchJoinFails(shared, t, o) == ~TablesJoin(shared, t, o)
BatchLoop == INSTANCE Rechunk
  WITH LenOf <- RowsOfTable, Halved <- TableHalves, Join <- TableConcat, CannotJoin <- BatchJoinFails

(* add_dict_categories: each column of new batches goes to the manager of  *)
(* the column, which the batches before them hold already.                 *)
NoManagers(schema) == [c \in DOMAIN schema |-> <<>>]
WithArrays(batches, arrays) ==
  [i \in DOMAIN batches |->
     [batches[i] EXCEPT !.cols = [c \in DOMAIN @ |-> [@[c] EXCEPT !.array = arrays[c][i]]]]]
Managing(one, before, new) ==
  [managers |-> [c \in DOMAIN one |-> one[c].manager],
   batches |-> WithArrays(before \o new,
                 [c \in DOMAIN one |-> AllOfManager(one[c].manager, ColumnOf(before, c) \o one[c].arrays)])]
AddDictCategories(shared, managers, before, new) ==
  Managing([c \in DOMAIN managers |-> AddRemapAll(shared, managers[c], ColumnOf(new, c))], before, new)
SuperTableOf(managed, schema, rows) ==
  [batches |-> managed.batches, schema |-> schema, rows |-> rows, managers |-> managed.managers]
RebuiltTable(shared, batches, schema) ==
  SuperTableOf(AddDictCategories(shared, NoManagers(schema), <<>>, batches), schema, RowsTold(batches))

(* from_batches and push take only batches whose fields equal the first's, *)
(* metadata included.                                                      *)
SameFields(batches) == \A i \in DOMAIN batches : FieldsOf(batches[i]) = FieldsOf(batches[1])
FromBatches(shared, batches) ==
  IF batches = <<>> THEN NoSuperTable ELSE RebuiltTable(shared, batches, FieldsOf(batches[1]))
PushBatch(shared, st, t) ==
  LET fresh == st.batches = <<>>
  IN  SuperTableOf(AddDictCategories(shared, IF fresh THEN NoManagers(t.cols) ELSE st.managers, st.batches, <<t>>),
                   IF fresh THEN FieldsOf(t) ELSE st.schema, st.rows + t.rows)

(* insert_rows and concat compare names, types and nullability.            *)
SchemasAgree(st, o) ==
  Len(st.schema) = Len(o.schema) /\ \A c \in DOMAIN st.schema : Agree(st.schema[c], o.schema[c])
BatchesInserted(st, at, o) ==
  CASE o.rows = 0 -> st
    [] o.rows > 0 /\ st.batches = <<>> -> [st EXCEPT !.batches = o.batches, !.schema = o.schema, !.rows = o.rows]
    [] OTHER -> [st EXCEPT !.batches = BatchLoop!Inserted(@, at, o.batches), !.rows = @ + o.rows]

BatchesRechunked(shared, st, size) ==
  IF st.rows = 0 \/ st.batches = <<>> \/ (Len(st.batches) = 1 /\ st.batches[1].rows = size) THEN st
  ELSE [st EXCEPT !.batches = BatchLoop!Rechunked(shared, @, size).pieces]
BatchesRechunkFails(shared, st, size) ==
  st.rows > 0 /\ st.batches # <<>> /\ BatchLoop!Rechunked(shared, st.batches, size).failed

(* rechunk_to builds a super table of the front, which panics when its     *)
(* batches differ in metadata; only the batches behind are left then.      *)
BatchesRechunkedTo(shared, st, upTo, size) ==
  LET cut == BatchLoop!CutAt(st.batches, upTo)
      front == BatchesRechunked(shared, FromBatches(shared, cut.front), size)
      batches == front.batches \o cut.behind
  IN  CASE upTo = 0 \/ st.batches = <<>> -> st
        [] upTo = st.rows -> BatchesRechunked(shared, st, size)
        [] upTo \in 1..(st.rows - 1) /\ ~SameFields(cut.front) -> [st EXCEPT !.batches = cut.behind]
        [] OTHER -> [st EXCEPT !.batches = batches,
                               !.rows = IF front.batches = <<>> THEN @ ELSE RowsTold(batches)]

BatchesRechunkToFails(shared, st, upTo, size) ==
  LET cut == BatchLoop!CutAt(st.batches, upTo)
  IN  CASE upTo = 0 \/ st.batches = <<>> -> FALSE
        [] upTo = st.rows -> BatchesRechunkFails(shared, st, size)
        [] OTHER -> BatchesRechunkFails(shared, FromBatches(shared, cut.front), size)

SuperTableConcat(shared, st, o) ==
  CASE st.batches = <<>> -> IF o.batches = <<>> THEN NoSuperTable ELSE o
    [] st.batches # <<>> /\ o.batches = <<>> -> st
    [] OTHER -> [RebuiltTable(shared, st.batches \o o.batches, st.schema) EXCEPT !.rows = st.rows + o.rows]

ConsolidatedSuperTable(arena, st) ==
  LET columns == ColumnsOf(st.batches)
  IN  CASE st.batches = <<>> -> NoTable
        [] st.batches # <<>> /\ arena -> ConsolidatedTables(TRUE, st.batches)
        [] OTHER ->
             TableOf([c \in DOMAIN st.schema |-> FieldArrayOf(st.schema[c], AppendedAll(columns[c]))], st.rows)
-----------------------------------------------------------------------------
ViewOfSuperTable(st, offset, n) ==
  LET cut == Windows([i \in DOMAIN st.batches |-> st.batches[i].rows], offset, n)
  IN  [views |-> [k \in DOMAIN cut |-> TableView(st.batches[cut[k].piece], cut[k].offset, cut[k].n)], n |-> n]

(* slice, and row and row_slice for a window of one row.                   *)
SuperViewNarrowed(v, offset, n) ==
  LET cut == Windows([i \in DOMAIN v.views |-> v.views[i].n], offset, n)
  IN  [views |-> [k \in DOMAIN cut |-> TableNarrowed(v.views[cut[k].piece], cut[k].offset, cut[k].n)], n |-> n]

(* from_views makes tables of the views; the schema is the first view's,   *)
(* of all its columns.                                                     *)
FromViews(shared, views) ==
  RebuiltTable(shared, [i \in DOMAIN views |-> ToTable(views[i])], views[1].fields)
==============================================================================
