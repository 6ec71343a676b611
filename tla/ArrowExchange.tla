---------------------------- MODULE ArrowExchange ----------------------------
(***************************************************************************)
(* The Arrow C data interface and its streams (ffi/arrow_c_ffi.rs): who    *)
(* holds each exported ArrowArray and ArrowSchema, who calls its release   *)
(* callback, when the producer's memory goes, and which rows an importer   *)
(* reads out of it.                                                        *)
(*                                                                         *)
(* A node <<b, c>> is one ArrowArray: the struct array of batch b when     *)
(* c = 0, one of its columns otherwise.  A plain array, exported alone or  *)
(* by a stream of arrays, is the node <<b, 1>> without a parent.           *)
(***************************************************************************)
EXTENDS Integers, Sequences

CONSTANTS Shapes,       \* the columns a producer may export
          NumBatches,   \* batches, or chunks, behind a stream
          NumCols,      \* columns of a batch
          MaxRefs,      \* clones of an imported column alive at a time
          Null          \* a row without a value

ASSUME BatchesAssumption == NumBatches \in Nat \ {0}
ASSUME ColsAssumption == NumCols \in Nat \ {0}
ASSUME RefsAssumption == MaxRefs \in Nat \ {0}

(* What a producer exports as one column: its rows, from the first one of the   *)
(* buffers on; for text, and for the dictionary of a categorical column, the    *)
(* offsets and bytes instead; the rows without a value; the window it describes *)
(* and whether the storage at its offset is 64-byte aligned.                    *)
Kinds == {"fixed", "decimal", "datetime", "boolean", "utf8", "utf8_view", "dict", "interval"}

NumRows(s) == IF s.kind = "utf8" THEN Len(s.offsets) - 1 ELSE Len(s.rows)

\* The offsets ascend within the bytes, as the interface demands.
IsText(s) ==
  /\ s.offsets # <<>> /\ s.offsets[Len(s.offsets)] <= Len(s.bytes)
  /\ \A i, j \in DOMAIN s.offsets : i <= j => s.offsets[i] <= s.offsets[j]

IsShape(s) ==
  /\ s.kind \in Kinds
  /\ s.rows \in Seq(Seq(Nat)) /\ s.offsets \in Seq(Nat) /\ s.bytes \in Seq(Nat)
  /\ s.offset \in Nat /\ s.len \in Nat /\ s.offset + s.len <= NumRows(s)
  /\ s.kind \in {"utf8", "dict"} => IsText(s)
  /\ s.kind = "dict" => \A i \in DOMAIN s.rows \ s.nulls :
                          s.rows[i] # <<>> /\ Head(s.rows[i]) + 1 < Len(s.offsets)

ASSUME ShapesAssumption == \A s \in Shapes : IsShape(s)

Pairs == {"pair", "foreign_pair"}
BatchStreams == {"batches", "producer", "batch_views", "foreign_batches"}
ChunkStreams == {"chunks", "chunk_views", "foreign_chunks"}
Streams == BatchStreams \cup ChunkStreams
Modes == Pairs \cup {"struct", "view_struct"} \cup Streams
Foreign == {"foreign_pair", "foreign_batches", "foreign_chunks"}

Node == (1..NumBatches) \X (0..NumCols)

VARIABLES mode,      \* what is exchanged, and by whom it was exported
          library,   \* the consumer is this library's importer, or another program
          shape,     \* the columns behind the exchange
          array,     \* every ArrowArray: its exported slot, its imported box, its memory
          schema,    \* the ArrowSchema the consumer was given
          stream,    \* the ArrowArrayStream and its holder
          importer,  \* where the importing loop is
          column     \* imported columns: clones, rows, and whether they borrow

vars == <<mode, library, shape, array, schema, stream, importer, column>>

-----------------------------------------------------------------------------
(* What an importer reads out of the exported buffers. *)

Window(s) == SubSeq(s.rows, s.offset + 1, s.offset + s.len)

\* The bits of the null mask from the first one on, whatever the offset.
NullMaskStart(s) == [i \in 1..s.len |-> i \notin s.nulls]

\* The bits of the null mask from the offset on, copied.
NullMaskOffset(s) == [i \in 1..s.len |-> s.offset + i \notin s.nulls]

Masked(values, valid) == [i \in DOMAIN values |-> IF valid[i] THEN values[i] ELSE Null]

\* Storage that is not 64-byte aligned is copied, and the foreign array let go.
Adopt(s) == IF s.aligned THEN "held" ELSE "released"

\* Nothing of an empty array is taken over: its box goes, its callback uncalled.
ImportFixed(s) == [rows |-> Masked(Window(s), NullMaskOffset(s)),
                   box  |-> IF s.len = 0 THEN "lost" ELSE Adopt(s)]

ImportDecimal(s) == ImportFixed(s)

ImportDatetime(s) == [rows |-> Masked(Window(s), NullMaskOffset(s)),
                      box  |-> IF s.len = 0 THEN "released" ELSE Adopt(s)]

ImportBoolean(s) == [rows |-> Masked(Window(s), NullMaskOffset(s)),
                     box  |-> IF s.len = 0 THEN "lost"
                              ELSE IF s.offset = 0 THEN Adopt(s) ELSE "released"]

\* Offsets rebased to the first one of the window, values from that byte on.
ImportUtf8(s) ==
  LET window == SubSeq(s.offsets, s.offset + 1, s.offset + s.len + 1)
      values == SubSeq(s.bytes, window[1] + 1, window[s.len + 1])
      rebased == [i \in DOMAIN window |-> window[i] - window[1]]
      text == [i \in 1..s.len |-> SubSeq(values, rebased[i] + 1, rebased[i + 1])]
  IN  [rows |-> IF s.len = 0 THEN <<>> ELSE Masked(text, NullMaskOffset(s)),
       box  |-> IF s.len = 0 \/ values = <<>> THEN "lost" ELSE Adopt(s)]

\* Always copied, row by row, from the first view on: the offset is not read.
ImportUtf8View(s) == [rows |-> Masked(SubSeq(s.rows, 1, s.len), NullMaskStart(s)),
                      box  |-> "released"]

\* The child array below the codes.
Dictionary(s) == [s EXCEPT !.kind = "utf8", !.nulls = {}, !.offset = 0, !.len = Len(s.offsets) - 1]

\* Codes are taken over, the dictionary is copied out of the child array.
ImportCategorical(s) ==
  LET codes == Window(s)
      texts == ImportUtf8(Dictionary(s))
  IN  [rows |-> Masked([i \in DOMAIN codes |-> texts.rows[Head(codes[i]) + 1]], NullMaskOffset(s)),
       box  |-> IF s.len = 0 THEN "released" ELSE Adopt(s)]

Supported(s) == s.kind # "interval"

ImportArrayZeroCopy(s) ==
  IF s.kind = "fixed" THEN ImportFixed(s)
  ELSE IF s.kind = "decimal" THEN ImportDecimal(s)
  ELSE IF s.kind = "datetime" THEN ImportDatetime(s)
  ELSE IF s.kind = "boolean" THEN ImportBoolean(s)
  ELSE IF s.kind = "utf8" THEN ImportUtf8(s)
  ELSE IF s.kind = "utf8_view" THEN ImportUtf8View(s)
  ELSE ImportCategorical(s)

\* The text between two offsets, which is what Arrow means by a row of text.
TextAt(s, i) == SubSeq(s.bytes, s.offsets[i] + 1, s.offsets[i + 1])

RowAt(s, i) == IF s.kind = "utf8" THEN TextAt(s, i)
               ELSE IF s.kind = "dict" THEN TextAt(s, Head(s.rows[i]) + 1)
               ELSE s.rows[i]

\* What the producer described: its rows from the offset on.
Described(s) == [i \in 1..s.len |-> IF s.offset + i \in s.nulls THEN Null
                                    ELSE RowAt(s, s.offset + i)]

-----------------------------------------------------------------------------
(* Release callbacks: Holder, ForeignBuffer, struct arrays. *)

Capped(n) == IF n > 2 THEN 2 ELSE n

\* The producer's memory of one array.  The release of this library's own
\* arrays drops the Holder and leaves the dictionary child alone.
Freed(n, a) ==
  [a EXCEPT !.freed = Capped(@ + 1),
            !.dict = IF a.child /\ mode \in Foreign THEN Capped(@ + 1) ELSE @]

\* The callback of an array in its exported slot, when it is still set.
Called(n, a) == [(IF a.slot = "set" THEN Freed(n, a) ELSE a) EXCEPT !.slot = "empty"]

\* Children whose slot was emptied are released all the same.
ReleaseEveryChild(arrays, b) ==
  [n \in Node |-> IF n[1] = b THEN [Freed(n, arrays[n]) EXCEPT !.slot = "empty"] ELSE arrays[n]]

\* The children whose callback is still set, then the struct array itself.
ReleaseStruct(arrays, b) ==
  [n \in Node |-> IF n[1] = b THEN Called(n, arrays[n]) ELSE arrays[n]]

\* The buffer goes and the callback is forgotten.
ForgetsForeign(n, a) == IF a.box = "held" THEN [a EXCEPT !.box = "none"] ELSE a

\* The last clone of a borrowing column drops its ForeignBuffer.
DropForeign(n, a) == IF a.box = "held" THEN [Freed(n, a) EXCEPT !.box = "none"] ELSE a

Tops == {n \in Node : IF mode \in Pairs \cup ChunkStreams THEN n[2] = 1 ELSE n[2] = 0}

CreateArrowExport(a) == [a EXCEPT !.slot = "set"]

\* The dictionary is an array of its own, exported below the codes.
ExportCategorical(a) == [CreateArrowExport(a) EXCEPT !.child = TRUE]

ExportViewToC(n, a) == IF shape[n].kind = "dict" THEN ExportCategorical(a) ELSE CreateArrowExport(a)

ExportStruct(b) == [n \in Node |-> IF n[1] # b THEN array[n]
                                   ELSE IF n[2] = 0 THEN CreateArrowExport(array[n])
                                   ELSE ExportViewToC(n, array[n])]

ExportPlain(b) == [array EXCEPT ![<<b, 1>>] = ExportViewToC(<<b, 1>>, @)]

NoColumn == [refs |-> 0, rows |-> <<>>, borrows |-> FALSE, made |-> FALSE]
At(pc, b, c) == [pc |-> pc, batch |-> b, col |-> c]

\* Shapes only a foreign producer hands out.
ForeignOnly == {"utf8_view"}

\* This library exports arrays, and windows of arrays, that start 64-byte aligned.
OwnShapes == {s \in Shapes : s.kind \notin ForeignOnly /\ (s.offset = 0 => s.aligned)}
WholeShapes == {s \in OwnShapes : s.offset = 0 /\ s.len = NumRows(s)}

Column == {n \in Node : n[2] > 0}

\* A stream has one schema: a column keeps its type from batch to batch.  A plain
\* array has no second column.
OneSchema(s) == \A m, n \in Column :
                  /\ m[2] = n[2] => s[m].kind = s[n].kind
                  /\ mode \in Pairs => s[m] = s[n]
                  /\ mode \in ChunkStreams /\ m[1] = n[1] => s[m] = s[n]

Init ==
  /\ mode \in Modes
  /\ library \in BOOLEAN
  /\ mode \in {"struct", "view_struct"} => ~library
  /\ shape \in [Column -> IF mode \in Foreign THEN Shapes
                          ELSE IF mode \in {"chunk_views", "batch_views", "view_struct", "pair"}
                          THEN OwnShapes ELSE WholeShapes]
  /\ OneSchema(shape)
  /\ array = [n \in Node |-> [slot |-> "unborn", box |-> "none", freed |-> 0, dict |-> 0, child |-> FALSE]]
  /\ schema = "none"
  /\ stream = [state |-> "open", cursor |-> 0, error |-> FALSE]
  /\ importer = At("start", 0, 0)
  /\ column = [n \in Column |-> NoColumn]

-----------------------------------------------------------------------------
(* Single arrays and single record batches. *)

Exports(arrays) == /\ array' = arrays
                   /\ schema' = "live"
                   /\ UNCHANGED <<mode, library, shape, stream, importer, column>>

ExportToC == mode \in Pairs /\ array[<<1, 1>>].slot = "unborn" /\ Exports(ExportPlain(1))

ExportStructToC == mode = "struct" /\ array[<<1, 0>>].slot = "unborn" /\ Exports(ExportStruct(1))

ExportTableViewToC ==
  mode = "view_struct" /\ array[<<1, 0>>].slot = "unborn" /\ Exports(ExportStruct(1))

Imported(n, import) == [column EXCEPT ![n] = [refs |-> 1, rows |-> import.rows, made |-> TRUE,
                                              borrows |-> import.box = "held"]]

\* The structures stay with the caller; everything is copied.
ImportFromC ==
  /\ library /\ mode \in Pairs
  /\ LET n == <<1, 1>>
     IN  /\ array[n].slot = "set" /\ schema = "live" /\ column[n].refs = 0
         /\ Supported(shape[n])
         /\ column' = Imported(n, [ImportArrayZeroCopy(shape[n]) EXCEPT !.box = "none"])
  /\ UNCHANGED <<mode, library, shape, array, schema, stream, importer>>

\* A mutant: the callback is copied out and the slot keeps it too.
MovedTwice(n, a, box) == IF box = "released" THEN Freed(n, a) ELSE [a EXCEPT !.box = box]

\* What becomes of an array whose box was handed to an import function.
Moved(n, a, box) ==
  [(IF box = "released" THEN Freed(n, a) ELSE [a EXCEPT !.box = box]) EXCEPT !.slot = "empty"]

\* Both structures are taken: the array's box moves into the column, or is
\* released, or is dropped; the schema's box is dropped and its callback is not
\* called.  An unsupported type panics and the boxes are dropped.
ImportFromCOwned ==
  /\ library /\ mode \in Pairs
  /\ LET n == <<1, 1>>
         import == IF Supported(shape[n]) THEN ImportArrayZeroCopy(shape[n])
                   ELSE [rows |-> <<>>, box |-> "lost"]
     IN  /\ array[n].slot = "set" /\ schema = "live" /\ column[n].refs = 0
         /\ array' = [array EXCEPT ![n] = Moved(n, @, import.box)]
         /\ column' = IF Supported(shape[n]) THEN Imported(n, import) ELSE column
  /\ schema' = "dropped"
  /\ UNCHANGED <<mode, library, shape, stream, importer>>

\* Another program, or the caller of a copying import, releases what it holds.
ReleaseArray(n) ==
  /\ n \in Tops /\ array[n].slot = "set"
  /\ ~library \/ mode \in Pairs
  /\ array' = IF n[2] = 0 THEN ReleaseStruct(array, n[1]) ELSE [array EXCEPT ![n] = Called(n, @)]
  /\ UNCHANGED <<mode, library, shape, schema, stream, importer, column>>

ReleaseSchema ==
  /\ schema = "live" /\ (~library \/ mode \in Pairs)
  /\ schema' = "released"
  /\ UNCHANGED <<mode, library, shape, array, stream, importer, column>>

-----------------------------------------------------------------------------
(* Streams: the producer's callbacks. *)

GetSchema == schema' = "live"

AtEnd == stream.cursor = NumBatches

\* One batch or chunk; the schema exported with it is released at once.
Advance(arrays) == /\ ~AtEnd
                   /\ stream' = [stream EXCEPT !.cursor = @ + 1]
                   /\ array' = arrays

NextBatch == Advance(ExportStruct(stream.cursor + 1))
NextChunk == Advance(ExportPlain(stream.cursor + 1))

EndOfStream == AtEnd /\ UNCHANGED <<stream, array>>

RbStreamGetNext == mode = "batches" /\ (NextBatch \/ EndOfStream)
RbViewStreamGetNext == mode = "batch_views" /\ (NextBatch \/ EndOfStream)
ArrStreamGetNext == mode = "chunks" /\ (NextChunk \/ EndOfStream)
ArrViewStreamGetNext == mode = "chunk_views" /\ (NextChunk \/ EndOfStream)
ForeignGetNext == \/ mode = "foreign_batches" /\ (NextBatch \/ EndOfStream)
                  \/ mode = "foreign_chunks" /\ (NextChunk \/ EndOfStream)

RbProducerStreamGetNext == mode = "producer" /\ (NextBatch \/ EndOfStream)

\* The producer returned an error or panicked: nothing is written, the message
\* stays in last_error, and a later call asks the producer again.
ProducerFails == /\ mode = "producer" /\ stream.state = "open" /\ ~stream.error
                 /\ stream' = [stream EXCEPT !.error = TRUE]
                 /\ UNCHANGED array

GetNext == /\ mode \in Streams /\ stream.state = "open"
           /\ \/ RbStreamGetNext \/ RbViewStreamGetNext \/ ArrStreamGetNext
              \/ ArrViewStreamGetNext \/ RbProducerStreamGetNext \/ ForeignGetNext

\* The holder goes with its batches; arrays already handed out stay.
StreamRelease == /\ mode \in Streams /\ stream.state = "open"
                 /\ stream' = [stream EXCEPT !.state = "released"]

\* Another program reads a stream as it likes.
ConsumerGetsSchema == /\ ~library /\ mode \in Streams /\ stream.state = "open" /\ schema = "none"
                      /\ GetSchema
                      /\ UNCHANGED <<mode, library, shape, array, stream, importer, column>>

ConsumerPulls == /\ ~library /\ (GetNext \/ ProducerFails)
                 /\ UNCHANGED <<mode, library, shape, schema, importer, column>>

ConsumerReleasesStream == /\ ~library /\ StreamRelease
                          /\ UNCHANGED <<mode, library, shape, array, schema, importer, column>>

-----------------------------------------------------------------------------
(* Streams: the importing loops. *)

Running == library /\ mode \in Streams

ImportSchema == /\ Running /\ importer.pc = "start" /\ GetSchema
                /\ importer' = At("pull", 0, 0)
                /\ UNCHANGED <<mode, library, shape, array, stream, column>>

\* The end of the stream has no release callback.
ImportPull ==
  /\ Running /\ importer.pc = "pull" /\ GetNext
  /\ importer' = IF AtEnd THEN At("schema", 0, 0) ELSE At("take", stream.cursor + 1, 1)
  /\ UNCHANGED <<mode, library, shape, schema, column>>

\* A child is moved out of its parent's slot, which is left without a callback.
Steal(n, box) == [array EXCEPT ![n] = Moved(n, @, box)]

ImportTake ==
  /\ Running /\ importer.pc = "take"
  /\ LET n == <<importer.batch, importer.col>>
     IN  /\ Supported(shape[n])
         /\ LET import == ImportArrayZeroCopy(shape[n])
            IN  /\ array' = Steal(n, import.box)
                /\ column' = Imported(n, import)
         /\ importer' = IF mode \in ChunkStreams THEN At("pull", 0, 0)
                        ELSE IF importer.col < NumCols THEN [importer EXCEPT !.col = @ + 1]
                        ELSE [importer EXCEPT !.pc = "parent"]
  /\ UNCHANGED <<mode, library, shape, schema, stream>>

\* Its children taken, the struct array is released.
ImportParent ==
  /\ Running /\ importer.pc = "parent"
  /\ array' = ReleaseStruct(array, importer.batch)
  /\ importer' = At("pull", 0, 0)
  /\ UNCHANGED <<mode, library, shape, schema, stream, column>>

ImportReleaseSchema == /\ Running /\ importer.pc = "schema"
                       /\ schema' = "released"
                       /\ importer' = At("stream", 0, 0)
                       /\ UNCHANGED <<mode, library, shape, array, stream, column>>

ImportReleaseStream == /\ Running /\ importer.pc = "stream" /\ StreamRelease
                       /\ importer' = At("done", 0, 0)
                       /\ UNCHANGED <<mode, library, shape, array, schema, column>>

\* An error code, or a type without an importer, panics: the columns read so far
\* are dropped; the schema, the stream and what is left of the batch are not
\* released.
Unwinds(arrays) ==
  /\ array' = [n \in Node |-> DropForeign(n, arrays[n])]
  /\ column' = [n \in Column |-> [column[n] EXCEPT !.refs = 0]]
  /\ importer' = At("panicked", 0, 0)
  /\ UNCHANGED <<mode, library, shape, schema>>

ImportFails == /\ Running /\ importer.pc = "pull"
               /\ mode = "producer" /\ ~stream.error
               /\ stream' = [stream EXCEPT !.error = TRUE]
               /\ Unwinds(array)

ImportUnsupported ==
  /\ Running /\ importer.pc = "take"
  /\ ~Supported(shape[<<importer.batch, importer.col>>])
  /\ Unwinds(Steal(<<importer.batch, importer.col>>, "lost"))
  /\ UNCHANGED stream

-----------------------------------------------------------------------------
(* Imported columns are cloned and dropped like any other array. *)

Returned == importer.pc \in {"start", "done"}

CloneColumn(n) ==
  /\ Returned /\ column[n].refs \in 1..(MaxRefs - 1)
  /\ column' = [column EXCEPT ![n].refs = @ + 1]
  /\ UNCHANGED <<mode, library, shape, array, schema, stream, importer>>

DropColumn(n) ==
  /\ Returned /\ column[n].refs > 0
  /\ column' = [column EXCEPT ![n].refs = @ - 1]
  /\ array' = IF column[n].refs = 1 /\ column[n].borrows
              THEN [array EXCEPT ![n] = DropForeign(n, @)] ELSE array
  /\ UNCHANGED <<mode, library, shape, schema, stream, importer>>

Exporting == ExportToC \/ ExportStructToC \/ ExportTableViewToC
Importing == \/ ImportFromC \/ ImportFromCOwned
             \/ ImportSchema \/ ImportPull \/ ImportTake \/ ImportParent
             \/ ImportReleaseSchema \/ ImportReleaseStream \/ ImportFails \/ ImportUnsupported
Consuming == \/ \E n \in Node : ReleaseArray(n)
             \/ ReleaseSchema \/ ConsumerGetsSchema \/ ConsumerPulls \/ ConsumerReleasesStream
Using == \E n \in Column : CloneColumn(n) \/ DropColumn(n)

Next == Exporting \/ Importing \/ Consuming \/ Using

Spec == Init /\ [][Next]_vars

-----------------------------------------------------------------------------
(* Properties. *)

\* The variables keep their types; in particular every array is in one exported
\* slot at most and behind one imported box at most.
TypeOK ==
  /\ mode \in Modes /\ library \in BOOLEAN
  /\ array \in [Node -> [slot: {"unborn", "set", "empty"}, box: {"none", "held", "lost"},
                         freed: 0..2, dict: 0..2, child: BOOLEAN]]
  /\ schema \in {"none", "live", "released", "dropped"}
  /\ stream \in [state: {"open", "released"}, cursor: 0..NumBatches, error: BOOLEAN]
  /\ importer \in [pc: {"start", "pull", "take", "parent", "schema", "stream", "done", "panicked"},
                   batch: 0..NumBatches, col: 0..NumCols]
  /\ \A n \in Column : column[n].refs \in 0..MaxRefs

\* The memory of an exported array, and of a foreign dictionary, is given back at
\* most once, whichever of the parent, the stolen child, the imported column and
\* the consumer calls the callback (arrow_c_ffi.rs:204-241, 3240-3283).
ReleasedOnce == \A n \in Node : array[n].freed <= 1 /\ array[n].dict <= 1

\* A column that borrows an exported array finds its memory in place as long as
\* one clone is alive, and the callback is then in its box and nowhere else: not
\* in the parent's slot, not with the consumer (arrow_c_ffi.rs:211-241).
BorrowersHoldTheCallback ==
  \A n \in Column : column[n].refs > 0 /\ column[n].borrows =>
    array[n].freed = 0 /\ array[n].box = "held" /\ array[n].slot = "empty"

\* Everybody has let go: no callback is left to call and no column is alive.
Settled ==
  /\ \A n \in Node : array[n].slot # "set"
  /\ \A n \in Column : column[n].refs = 0
  /\ importer.pc \in {"start", "done"}

\* The arrays whose box the importer drops without calling its callback: empty
\* ones, text without a byte, types it refuses.
DroppedBoxes == {n \in Column : library /\ array[n].box = "lost"}

\* What is left undone when everybody has let go is exactly that, and the
\* dictionary child of this library's own exports (arrow_c_ffi.rs:250-256).
NothingElseLeaks ==
  Settled => \A n \in Node :
    array[n].slot # "unborn" /\ n \notin DroppedBoxes =>
      /\ array[n].freed = 1
      /\ array[n].child /\ mode \in Foreign => array[n].dict = 1

\* A column has the rows its producer described, at every offset, whether its
\* storage was borrowed or copied, except that the views of a text view array are
\* read from the first one on (arrow_c_ffi.rs:1484-1486).
ImportedAsDescribed ==
  \A n \in Column :
    column[n].made /\ ~(shape[n].kind = "utf8_view" /\ shape[n].offset > 0) =>
      column[n].rows = Described(shape[n])

\* "The release callback will be called when the imported array is dropped"
\* (arrow_c_ffi.rs:895-896).
ReleaseReachesProducer ==
  Settled => \A n \in Column : column[n].made => array[n].freed = 1
=============================================================================
