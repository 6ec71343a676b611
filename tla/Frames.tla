------------------------------- MODULE Frames -------------------------------
(***************************************************************************)
(* Chunked columns, tables and chunked tables under their editing calls,   *)
(* and under the windows, gathers and selections that are read through     *)
(* their views, next to the columns their owner expects: want is the       *)
(* sequence of them, each [name, cells], with <<>> for a null cell and     *)
(* <<value>> for a value, kept by what each call is documented to do.      *)
(*                                                                         *)
(* it is the owner's frame: [is, v] with a super array, a table or a super *)
(* table.  A call that returns another frame leaves the owner with that.   *)
(* Calls that return an error and change nothing are not steps; calls      *)
(* whose result is known to differ from their documentation are made only  *)
(* if their name is in Followed (README, "Disagreements").                 *)
(***************************************************************************)
EXTENDS Tables

CONSTANTS PiecesOf,   \* for each kind of column under test, the arrays it is made of
          BatchesOf,  \* for each layout of columns under test, the tables it is made of
          MaxRows,    \* bound on the rows of the frame
          MaxPieces,  \* bound on its chunks or batches
          Followed    \* the diverging calls the owner makes

VARIABLES build,  \* the features of the build: [shared_dict, arena]
          of,     \* the kind or the layout under test
          it, want
vars == <<build, of, it, want>>

Pieces  == PiecesOf[of]
Batches == BatchesOf[of]
Column(name, cells) == [name |-> name, cells |-> cells]
ColumnsIn(t) == [c \in DOMAIN t.cols |-> Column(t.cols[c].field.name, Rows(t.cols[c].array))]
WantRows == IF want = <<>> THEN 0 ELSE Len(want[1].cells)
EachWanted(columns, Changed(_)) == [c \in DOMAIN columns |-> [columns[c] EXCEPT !.cells = Changed(@)]]

(* shared_dict makes a difference to categorical columns only. *)
HoldsCategories ==
  IF of \in DOMAIN PiecesOf THEN of = "categorical"
  ELSE \E t \in Batches : \E c \in DOMAIN t.cols : t.cols[c].array.kind = "categorical"

Init ==
  /\ \/ /\ of \in DOMAIN PiecesOf
        /\ it = [is |-> "super array", v |-> NoSuperArray]
        /\ want = <<Column("", <<>>)>>
     \/ /\ of \in DOMAIN BatchesOf
        /\ it = [is |-> "table", v |-> NoTable]
        /\ want = <<>>
  /\ \E shared_dict, arena \in BOOLEAN :
       /\ shared_dict => HoldsCategories
       /\ build = [shared_dict |-> shared_dict, arena |-> arena]

Diverges(name, when) == when => name \in Followed
Became(is, made, columns) ==
  \E v \in {made} :
     /\ columns # <<>> => Len(columns[1].cells) <= MaxRows
     /\ is = "super array" => Len(v.chunks) <= MaxPieces
     /\ is = "super table" => Len(v.batches) <= MaxPieces
     /\ it' = [is |-> is, v |-> v]
     /\ want' = columns
     /\ UNCHANGED <<build, of>>

Windowed(offset, n) == LET part(cells) == Fixed!Window(cells, offset, n) IN EachWanted(want, part)
Picked(rows) == LET part(cells) == [i \in DOMAIN rows |-> cells[rows[i]]] IN EachWanted(want, part)
With(at, columns) ==
  [c \in DOMAIN want |-> [want[c] EXCEPT !.cells = Fixed!Spliced(@, at, columns[c].cells)]]
Behind(columns) == With(WantRows, columns)

(* A cut of a text chunk in its middle loses a row (README). *)
Inside(lengths, at) ==
  LET ends[i \in 0..Len(lengths)] == IF i = 0 THEN 0 ELSE ends[i - 1] + lengths[i]
  IN  at < ends[Len(lengths)] /\ \A i \in DOMAIN ends : ends[i] # at
CutInside(lengths, size, upTo) ==
  \E at \in 1..WantRows : (at % size = 0 \/ at = upTo) /\ Inside(lengths, at)

OwnCodes(arrays) == \E i \in DOMAIN arrays : arrays[i].kind = "categorical" /\ ~IsPrefix(arrays[i].dict, arrays[1].dict)
-----------------------------------------------------------------------------
(* Super arrays. *)
Array1(a) == <<Column("", Rows(a))>>
CellsOf(arrays) == <<Column("", FlattenSeq([i \in DOMAIN arrays |-> Rows(arrays[i])]))>>
SuperArrayField(a) == NewField("", a, "")
Counts(arrays) == [i \in DOMAIN arrays |-> NullCount(arrays[i])]
Made(arrays, how) ==
  CASE how = "arrays"  -> FromArrays(build.shared_dict, arrays)
    [] how = "field"   -> FromArraysWithField(build.shared_dict, arrays, SuperArrayField(arrays[1]))
    [] how = "counted" -> FromArraysCounted(build.shared_dict, arrays, Counts(arrays))
    [] OTHER -> FromFieldArrays(build.shared_dict, [i \in DOMAIN arrays |-> FieldArrayOf(SuperArrayField(arrays[1]), arrays[i])])

Is(is) == it.is = is
Chunked == Is("super array") /\ it.v.chunks # <<>>
OfKind(kind) == Chunked /\ it.v.chunks[1].kind = kind

MakeSuperArray ==
  /\ Is("super array") /\ it.v.chunks = <<>>
  /\ \E a, b \in Pieces, how \in {"arrays", "field", "counted", "fields"} :
       LET arrays == <<a, b>> IN Became("super array", Made(arrays, how), CellsOf(arrays))

MakeFromSlices ==
  /\ Is("super array") /\ it.v.chunks = <<>>
  /\ \E a, b \in Pieces : \E from \in 0..Length(a), to \in 0..Length(b) :
       LET views == <<View(a, from, Length(a) - from), View(b, 0, to)>>
       IN  Became("super array", FromSlices(build.shared_dict, views, SuperArrayField(a)),
                  <<Column("", ViewRows(views[1]) \o ViewRows(views[2]))>>)

(* push, push_with_null_count and try_push_field_array. *)
PushChunk ==
  /\ Is("super array")
  /\ \E a \in Pieces :
       \/ Became("super array", Push(build.shared_dict, it.v, a), Behind(Array1(a)))
       \/ /\ Diverges("count part", it.v.counts = <<>> /\ it.v.chunks # <<>>)
          /\ \/ Became("super array", PushWithNullCount(build.shared_dict, it.v, a, NullCount(a)), Behind(Array1(a)))
             \/ Became("super array", PushFieldArray(build.shared_dict, it.v, FieldArrayOf(SuperArrayField(a), a)),
                       Behind(Array1(a)))

InsertChunks ==
  /\ Is("super array")
  /\ Diverges("insert dictionary", build.shared_dict /\ of = "categorical")
  /\ \E a \in Pieces, at \in 0..WantRows, how \in {"arrays", "counted"} :
       /\ Diverges("split text", OfKind("text") /\ Length(a) > 0 /\ Inside(LengthsOf(it.v.chunks), at))
       /\ Became("super array", SuperInserted(it.v, at, Made(<<a>>, how)), With(at, Array1(a)))

(* rechunk to a size, however it was chosen; rechunk_to up to a row.       *)
RechunkChunks ==
  /\ Chunked
  /\ \E size \in 1..MaxRows + 1, upTo \in 0..WantRows :
       /\ Diverges("split text", OfKind("text") /\ upTo > 0 /\ CutInside(LengthsOf(it.v.chunks), size, upTo))
       /\ Diverges("rechunk full dictionary", SuperRechunkToFails(build.shared_dict, it.v, upTo, size))
       /\ Became("super array", SuperRechunkedTo(build.shared_dict, it.v, upTo, size), want)

ConcatChunks ==
  /\ Is("super array")
  /\ \E a \in Pieces, how \in {"arrays", "counted"} :
       Became("super array", SuperConcat(build.shared_dict, it.v, Made(<<a>>, how)), Behind(Array1(a)))

ConsolidateChunks ==
  /\ Chunked /\ ~ConcatAllFails(build.shared_dict, it.v.chunks)
  /\ Diverges("consolidate dictionary", build.arena /\ OwnCodes(it.v.chunks))
  /\ Became("super array", Made(<<ConsolidatedChunks(build.arena, it.v.chunks)>>, "arrays"), want)

(* The owner goes on with a window, or with a window of a window. *)
WindowChunks ==
  /\ Chunked
  /\ \E offset, n \in 0..WantRows :
       /\ offset + n <= WantRows
       /\ \E inner \in 0..n :
          \E v \in {SuperViewSlice(SuperView(it.v, offset, n), inner, n - inner)} :
            /\ v.views # <<>>
            /\ Became("super array", FromSuperView(build.shared_dict, v), Windowed(offset + inner, n - inner))

ReadRow ==
  /\ Chunked
  /\ \E row \in 1..WantRows :
       Became("super array", Made(<<ToArray(ViewedRow(SuperView(it.v, 0, WantRows), row))>>, "arrays"), Picked(<<row>>))

(* Two rows of a window of a chunk, in any order; number 0 is padding.     *)
PadRows ==
  /\ Chunked
  /\ \E from \in 0..Length(it.v.chunks[1]), i, j \in 0..MaxRows :
       LET v == View(it.v.chunks[1], from, Length(it.v.chunks[1]) - from)
           cell(row) == IF row = 0 THEN <<>> ELSE ViewRows(v)[row]
       IN  /\ i <= v.n /\ j <= v.n
           /\ Became("super array", Made(<<GatherPadded(build.shared_dict, v, <<i, j>>)>>, "arrays"),
                     <<Column("", <<cell(i), cell(j)>>)>>)

(* A window, joined with a window of another array, and consolidated. *)
ConsolidateWindows ==
  /\ Chunked
  /\ \E offset, n \in 0..WantRows, a \in Pieces : \E from \in 0..Length(a) :
       /\ offset + n <= WantRows
       /\ \E v \in {SuperViewJoined(SuperView(it.v, offset, n), SuperView(Made(<<a>>, "field"), from, Length(a) - from))} :
              /\ v.views # <<>>
              /\ ~ConcatAllFails(build.shared_dict, [i \in DOMAIN v.views |-> ToArray(v.views[i])])
              /\ Diverges("views of equal length",
                          TakenForOne(v.views) /\ \E i \in DOMAIN v.views : v.views[i].array # v.views[1].array)
              /\ Became("super array", Made(<<ConsolidatedView(build.shared_dict, v)>>, "arrays"),
                        <<Column("", Windowed(offset, n)[1].cells \o Fixed!Window(Rows(a), from, Length(a) - from))>>)
-----------------------------------------------------------------------------
(* Tables. *)
BecameTable(t, columns) == Became("table", t, columns)
Text1(t) == \E c \in DOMAIN t.cols : t.cols[c].array.kind = "text"
TableWindow(offset, n) == SelectRange(ViewOfTable(it.v), offset, n)
Wanted(cs) == [k \in DOMAIN cs |-> want[cs[k]]]
SamePlaces(t) == Len(t.cols) = Len(it.v.cols)

MakeTable == Is("table") /\ it.v.cols = <<>> /\ \E t \in Batches : BecameTable(t, ColumnsIn(t))

(* A column of the table's length behind the others, which may have the    *)
(* name of one of them.                                                    *)
AddColumn ==
  /\ Is("table")
  /\ \E t \in Batches : \E c \in DOMAIN t.cols :
       /\ Len(it.v.cols) < Len(t.cols)
       /\ it.v.cols = <<>> \/ Length(t.cols[c].array) = it.v.rows
       /\ BecameTable(AddCol(it.v, t.cols[c]), Append(want, ColumnsIn(t)[c]))

Names == {want[c].name : c \in DOMAIN want}
FirstOf(name) == PositionOf(FieldsOf(it.v), name)[1]
RemoveColumn ==
  /\ Is("table")
  /\ \/ \E name \in Names : BecameTable(RemoveCol(it.v, name), RemoveAt(want, FirstOf(name)))
     \/ \E c \in DOMAIN want : BecameTable(RemoveColAt(it.v, c), RemoveAt(want, c))

Swap == <<<<"a", "b">>, <<"b", "a">>>>
NamedAs(name, mapping) ==
  LET hit == SelectSeq(mapping, LAMBDA pair : pair[1] = name) IN IF hit = <<>> THEN name ELSE hit[1][2]
RenameAll ==
  /\ Is("table")
  /\ \A i \in DOMAIN Swap : Swap[i][1] \in Names
  /\ LET named == [c \in DOMAIN want |-> [want[c] EXCEPT !.name = NamedAs(@, Swap)]]
     IN  \/ BecameTable(RenameColumns(it.v, Swap), named)
         \/ BecameTable(ToTable(RenameViewColumns(TableWindow(0, WantRows), Swap)), named)

DeleteRowRange ==
  /\ Is("table")
  /\ \E from, to \in 0..WantRows :
       LET part(cells) == Fixed!Without(cells, from, to)
       IN  from <= to /\ BecameTable(DeleteRows(it.v, from, to), EachWanted(want, part))

SliceRows ==
  /\ Is("table")
  /\ \E offset, n \in 0..WantRows :
       offset + n <= WantRows /\ BecameTable(SliceClone(it.v, offset, n), Windowed(offset, n))

(* insert_rows takes a table with as many columns; an error at the first   *)
(* column changes nothing, one at a later column has changed those before. *)
InsertTable ==
  /\ Is("table")
  /\ \E t \in Batches, at \in 0..WantRows :
       /\ SamePlaces(t)
       /\ LET stops == InsertStops(build.shared_dict, it.v, t)
          IN  /\ 1 \notin stops
              /\ Diverges("insert half", stops # {})
              /\ BecameTable(InsertRows(build.shared_dict, it.v, at, t),
                             IF stops = {} THEN With(at, ColumnsIn(t)) ELSE want)

SplitTable ==
  /\ Is("table")
  /\ \E at \in 1..WantRows - 1, side \in 1..2 :
       /\ Diverges("split text", Text1(it.v))
       /\ BecameTable(TableHalves(it.v, at)[side],
                      IF side = 1 THEN Windowed(0, at) ELSE Windowed(at, WantRows - at))

(* concat, and the consolidation of a Vec of two tables. *)
ConcatTables ==
  /\ Is("table")
  /\ \E t \in Batches :
       /\ TablesJoin(build.shared_dict, it.v, t)
       /\ BecameTable(TableConcat(it.v, t), Behind(ColumnsIn(t)))

OwnCodesIn(tables) == \E c \in DOMAIN ColumnsOf(tables) : OwnCodes(ColumnsOf(tables)[c])
ConsolidateTables ==
  /\ Is("table") /\ it.v.cols # <<>>
  /\ \E t \in Batches :
       /\ SamePlaces(t) /\ \A c \in DOMAIN t.cols : Agree(t.cols[c].field, it.v.cols[c].field)
       /\ Diverges("consolidate dictionary", OwnCodesIn(<<it.v, t>>))
       /\ BecameTable(ConsolidatedTables(build.arena, <<it.v, t>>), Behind(ColumnsIn(t)))

(* The owner goes on with the table made of a view: a window of a window,  *)
(* rows gathered from a window, chosen columns of a window.                *)
WindowTable ==
  /\ Is("table")
  /\ \E offset, n \in 0..WantRows :
       /\ offset + n <= WantRows
       /\ \E inner \in 0..n :
            BecameTable(ToTable(TableNarrowed(TableWindow(offset, n), inner, n - inner)), Windowed(offset + inner, n - inner))

GatherTable ==
  /\ Is("table")
  /\ \E from \in 0..WantRows :
       LET v == TableWindow(from, WantRows - from)
           shifted(rows) == [i \in DOMAIN rows |-> rows[i] + from]
       IN  \/ \E k \in 0..2 : \E rows \in [1..k -> 1..v.n] :
                /\ Diverges("gather nothing", k = 0 /\ want # <<>>)
                /\ BecameTable(GatherRows(build.shared_dict, v, rows), Picked(shifted(rows)))
           \/ \E bits \in [1..v.n -> BOOLEAN] :
                BecameTable(ToTable(SelectRows(build.shared_dict, v, bits)), Picked(shifted(RowsOfMask(bits))))

SelectColumns ==
  /\ Is("table")
  /\ \E names \in {<<"a">>, <<"b">>, <<"b", "a">>}, from \in 0..WantRows :
       LET cs == Resolved(FieldsOf(it.v), names)
           v == TableNarrowed(TableSelect(it.v, names), from, WantRows - from)
           w == ViewSelect(TableWindow(from, WantRows - from), names)
           rest == LET part == Windowed(from, WantRows - from) IN [k \in DOMAIN cs |-> part[cs[k]]]
       IN  cs # <<>> /\ (BecameTable(ToTable(v), rest) \/ BecameTable(ToTable(w), rest))

GetOne ==
  /\ Is("table")
  /\ \E names \in {<<"a">>, <<"b">>, <<"b", "a">>}, name \in Names :
       LET v == ViewSelect(TableWindow(0, WantRows), names)
           cs == Resolved(FieldsOf(it.v), names)
           got == GetColumn(v, name)
       IN  /\ got # <<>>
           /\ Diverges("get selected", cs # [c \in DOMAIN cs |-> c])
           /\ BecameTable(NewTable(got), <<want[FirstOf(name)]>>)

BatchTable ==
  /\ Is("table")
  /\ \E stride \in 1..MaxRows : \E i \in DOMAIN BatchViews(it.v, stride) :
       LET v == BatchViews(it.v, stride)[i] IN BecameTable(ToTable(v), Windowed((i - 1) * stride, v.n))
-----------------------------------------------------------------------------
(* Super tables. *)
BecameSuper(st, columns) == Became("super table", st, columns)
Batched == Is("super table") /\ it.v.batches # <<>>
BatchLengths == [i \in DOMAIN it.v.batches |-> it.v.batches[i].rows]
SuperTableWith(tables) == FromBatches(build.shared_dict, tables)

MakeSuperTable ==
  /\ Is("table") /\ it.v.cols # <<>>
  /\ \/ BecameSuper(SuperTableWith(<<it.v>>), want)
     \/ \E t \in Batches : SameFields(<<it.v, t>>) /\ BecameSuper(SuperTableWith(<<it.v, t>>), Behind(ColumnsIn(t)))

PushTable ==
  /\ Is("super table")
  /\ \E t \in Batches : FieldsOf(t) = it.v.schema /\ BecameSuper(PushBatch(build.shared_dict, it.v, t), Behind(ColumnsIn(t)))

Categories == \E c \in DOMAIN it.v.schema : it.v.schema[c].type[1] = "categorical"
Strings == \E c \in DOMAIN it.v.schema : it.v.schema[c].type[1] = "text"
InsertBatches ==
  /\ Batched
  /\ Diverges("insert dictionary", build.shared_dict /\ Categories)
  /\ \E t \in Batches, at \in 0..WantRows :
       /\ SchemasAgree(it.v, SuperTableWith(<<t>>))
       /\ Diverges("split text", Strings /\ t.rows > 0 /\ Inside(BatchLengths, at))
       /\ BecameSuper(BatchesInserted(it.v, at, SuperTableWith(<<t>>)), With(at, ColumnsIn(t)))

RechunkBatches ==
  /\ Batched
  /\ \E size \in 1..MaxRows + 1, upTo \in 0..WantRows :
       /\ Diverges("split text", Strings /\ upTo > 0 /\ CutInside(BatchLengths, size, upTo))
       /\ Diverges("rechunk full dictionary", BatchesRechunkToFails(build.shared_dict, it.v, upTo, size))
       /\ Diverges("rechunk metadata", upTo \in 1..WantRows - 1 /\ ~SameFields(BatchLoop!CutAt(it.v.batches, upTo).front))
       /\ BecameSuper(BatchesRechunkedTo(build.shared_dict, it.v, upTo, size), want)

ConcatBatches ==
  /\ Batched
  /\ \E t \in Batches :
       /\ SchemasAgree(it.v, SuperTableWith(<<t>>))
       /\ BecameSuper(SuperTableConcat(build.shared_dict, it.v, SuperTableWith(<<t>>)), Behind(ColumnsIn(t)))

ConsolidateBatches ==
  /\ Batched
  /\ Diverges("consolidate dictionary", Len(it.v.batches) > 1 /\ OwnCodesIn(it.v.batches))
  /\ BecameTable(ConsolidatedSuperTable(build.arena, it.v), want)

(* A window of a window, as a super table again or as a table. *)
WindowBatches ==
  /\ Batched
  /\ \E offset, n \in 0..WantRows :
       /\ offset + n <= WantRows
       /\ \E inner \in 0..n :
          \E v \in {SuperViewNarrowed(ViewOfSuperTable(it.v, offset, n), inner, n - inner)} :
            /\ v.views # <<>>
            /\ LET made == FromViews(build.shared_dict, v.views)
                   cells == Windowed(offset + inner, n - inner)
               IN  \/ BecameSuper(made, cells)
                   \/ /\ Diverges("consolidate dictionary", OwnCodesIn(made.batches))
                      /\ BecameTable(ConsolidatedSuperTable(build.arena, made), cells)

(* The selected columns of a window as a super table. *)
SelectBatches ==
  /\ Is("table") /\ it.v.cols # <<>>
  /\ \E names \in {<<"a">>, <<"b", "a">>} :
       LET v == ViewSelect(TableWindow(0, WantRows), names)
           cs == Resolved(FieldsOf(it.v), names)
       IN  /\ cs # <<>>
           /\ Diverges("views selected", cs # [c \in DOMAIN want |-> c])
           /\ BecameSuper(FromViews(build.shared_dict, <<v>>), Wanted(cs))

Next ==
  \/ MakeSuperArray \/ MakeFromSlices \/ PushChunk \/ InsertChunks \/ RechunkChunks \/ ConcatChunks
  \/ ConsolidateChunks \/ WindowChunks \/ ReadRow \/ PadRows \/ ConsolidateWindows
  \/ MakeTable \/ AddColumn \/ RemoveColumn \/ RenameAll \/ DeleteRowRange \/ SliceRows \/ InsertTable
  \/ SplitTable \/ ConcatTables \/ ConsolidateTables \/ WindowTable \/ GatherTable \/ SelectColumns
  \/ GetOne \/ BatchTable
  \/ MakeSuperTable \/ PushTable \/ InsertBatches \/ RechunkBatches \/ ConcatBatches \/ ConsolidateBatches
  \/ WindowBatches \/ SelectBatches

Spec == Init /\ [][Next]_vars
-----------------------------------------------------------------------------
HoldsTable(t, columns) ==
  /\ ColumnsIn(t) = columns
  /\ \A c \in DOMAIN t.cols : Length(t.cols[c].array) = t.rows
(* However a frame is cut into chunks, and whatever is inserted, rechunked, *)
(* gathered, selected or read through windows of windows, its columns hold  *)
(* the cells their owner expects, in order, and every count of rows that a  *)
(* table or a super table was told is the length of what it holds.          *)
FramesHoldTheirRows ==
  CASE Is("super array") -> CellsOf(it.v.chunks) = want
    [] Is("table")       -> HoldsTable(it.v, want)
    [] OTHER ->
         LET start[i \in DOMAIN it.v.batches] == IF i = 1 THEN 0 ELSE start[i - 1] + it.v.batches[i - 1].rows
         IN  /\ it.v.rows = WantRows
             /\ \A i \in DOMAIN it.v.batches :
                  HoldsTable(it.v.batches[i], Windowed(start[i], it.v.batches[i].rows))

OneDictionary(manager, arrays) ==
  \A i \in DOMAIN arrays :
     arrays[i].kind = "categorical" => manager # <<>> /\ (arrays[i].dict = manager[1] \/ Len(manager[1]) = Capacity)
TrueSummary(t) ==
  \A c \in DOMAIN t.cols :
     LET f == t.cols[c] IN /\ f.field.type = TypeOf(f.array)
                           /\ f.nulls \in {0, NullCount(f.array)}
                           /\ f.field.nullable \/ NullCount(f.array) = 0
(* What is kept next to the rows so that nobody has to read them is true   *)
(* of them: the null counts of chunks, the types and nullability of fields *)
(* and of a super table's schema, and, where dictionaries are shared, that *)
(* all chunks of a column that fit hold the one dictionary of its manager. *)
(* The null counts of a table that was split may be the 0 it was left at.  *)
SummariesAreTrue ==
  CASE Is("super array") ->
         /\ it.v.counts # <<>> => it.v.counts[1] = Counts(it.v.chunks)
         /\ it.v.field # <<>> => \A i \in DOMAIN it.v.chunks : TypeOf(it.v.chunks[i]) = it.v.field[1].type
         /\ build.shared_dict => OneDictionary(it.v.manager, it.v.chunks)
    [] Is("table") -> TrueSummary(it.v)
    [] OTHER ->
         \A i \in DOMAIN it.v.batches :
            LET t == it.v.batches[i]
            IN  /\ TrueSummary(t)
                /\ Len(t.cols) = Len(it.v.schema)
                /\ \A c \in DOMAIN t.cols :
                     /\ Agree(t.cols[c].field, it.v.schema[c])
                     /\ build.shared_dict => OneDictionary(it.v.managers[c], <<t.cols[c].array>>)
=============================================================================
