-------------------------------- MODULE Arena --------------------------------
(***************************************************************************)
(* Arena (structs/arena.rs): one allocation that the columns of several    *)
(* arrays or tables are written into, region after region, and that is     *)
(* then frozen and read through shared buffers.                            *)
(*                                                                         *)
(* An arena is [bytes, cursor, failed]; failed stands for the panic of an  *)
(* assertion.  A region is [at, size] in bytes.  An element of w bytes is  *)
(* its value in the first of them; a byte of a bitmask is the sequence of  *)
(* its bits.                                                               *)
(***************************************************************************)
EXTENDS Arrays, SequencesExt

CONSTANTS Align,        \* the alignment of a region (64)
          BitsPerByte,  \* bits of a bitmask in a byte (8)
          WidthOf       \* for each kind, the bytes of a value, an offset or a code

ASSUME ArenaAssumption ==
  /\ Align \in Nat \ {0}
  /\ BitsPerByte \in Nat \ {0}
  /\ \A kind \in DOMAIN WidthOf : WidthOf[kind] \in Nat \ {0}

Aligned(n) == ((n + Align - 1) \div Align) * Align
MaskBytes(rows) == (rows + BitsPerByte - 1) \div BitsPerByte
Zero == 0
EmptyRegion == [at |-> 0, size |-> 0]
NoMask == <<>>

ArenaOf(size) == [bytes |-> Fixed!All(size, Zero), cursor |-> 0, failed |-> FALSE]

(* reserve_slice: the region starts at the next aligned byte. *)
RegionFor(arena, count, width) == [at |-> Aligned(arena.cursor), size |-> count * width]
Reserved(arena, region) ==
  [arena EXCEPT !.cursor = region.at + region.size,
                !.failed = @ \/ region.at + region.size > Len(arena.bytes)]

(* region_as_mut_slice and copy_from_slice: the source fills the region. *)
Written(arena, region, bytes) ==
  IF arena.failed \/ Len(bytes) # region.size THEN [arena EXCEPT !.failed = TRUE]
  ELSE [arena EXCEPT !.bytes = [i \in DOMAIN @ |->
          IF i > region.at /\ i <= region.at + region.size THEN bytes[i - region.at] ELSE @[i]]]

Spread(values, width) ==
  [i \in 1..Len(values) * width |-> IF (i - 1) % width = 0 THEN values[(i - 1) \div width + 1] ELSE Zero]
Packed(bits) ==
  [b \in 1..MaskBytes(Len(bits)) |->
     [k \in 1..BitsPerByte |-> LET i == (b - 1) * BitsPerByte + k IN i <= Len(bits) /\ bits[i]]]

(* freeze, to_buffer and to_bitmask. *)
Frozen(arena) == SubSeq(arena.bytes, 1, arena.cursor)
Values(shared, region, width) ==
  [i \in 1..region.size \div width |-> shared[region.at + (i - 1) * width + 1]]
Bits(shared, region, n) ==
  IF region.size = 0 THEN <<>>
  ELSE [i \in 1..n |-> shared[region.at + ((i - 1) \div BitsPerByte) + 1][((i - 1) % BitsPerByte) + 1]]
-----------------------------------------------------------------------------
(* The masks of the arrays one after the other, all set for one without.   *)
MasksGiven(arrays) == FlattenSeq([i \in DOMAIN arrays |-> arrays[i].mask])  \* a mutant: none for an array without
Masks(arrays) ==
  FlattenSeq([i \in DOMAIN arrays |->
                IF arrays[i].masked THEN arrays[i].mask ELSE Fixed!All(Length(arrays[i]), TRUE)])

MaskRegion(arena, rows, nulls) == IF nulls THEN <<RegionFor(arena, MaskBytes(rows), 1)>> ELSE NoMask
MaskReserved(arena, mask) == IF mask = NoMask THEN arena ELSE Reserved(arena, mask[1])
MaskWritten(arena, mask, arrays) ==
  IF mask = NoMask THEN arena ELSE Written(arena, mask[1], Packed(Masks(arrays)))

(* write_slices: values, or the codes of categorical arrays as they are. *)
WriteSlices(arena, arrays, width, rows, nulls) ==
  LET data == RegionFor(arena, rows, width)
      one == Reserved(arena, data)
      mask == MaskRegion(one, rows, nulls)
      two == Written(MaskReserved(one, mask), data,
                     Spread(FlattenSeq([i \in DOMAIN arrays |-> arrays[i].data]), width))
  IN  [arena |-> MaskWritten(two, mask, arrays), data |-> data, mask |-> mask, offsets |-> EmptyRegion]

(* write_string_slices: room for all bytes of the arrays, written with     *)
(* those between their first and last offsets.                             *)
Referred(a) == SubSeq(a.data, a.offsets[1] + 1, a.offsets[Len(a.offsets)])
WriteStrings(arena, arrays, width, rows, nulls) ==
  LET offsets == RegionFor(arena, rows + 1, width)
      one == Reserved(arena, offsets)
      room == FlattenSeq([i \in DOMAIN arrays |-> arrays[i].data])
      data == RegionFor(one, Len(room), 1)
      two == Reserved(one, data)
      mask == MaskRegion(two, rows, nulls)
      starts[i \in 0..Len(arrays)] ==
        IF i = 0 THEN 0 ELSE starts[i - 1] + Len(Referred(arrays[i]))
      shifted == FlattenSeq([i \in DOMAIN arrays |->
                   Text!Shifted(Tail(arrays[i].offsets), starts[i - 1] - arrays[i].offsets[1])])
      bytes == Fixed!Fit(FlattenSeq([i \in DOMAIN arrays |-> Referred(arrays[i])]), Len(room), Zero)
      three == Written(Written(MaskReserved(two, mask), offsets, Spread(<<0>> \o shifted, width)), data, bytes)
  IN  [arena |-> MaskWritten(three, mask, arrays), data |-> data, mask |-> mask, offsets |-> offsets]

WriteBooleans(arena, arrays, rows, nulls) ==
  LET data == RegionFor(arena, MaskBytes(rows), 1)
      one == Reserved(arena, data)
      mask == MaskRegion(one, rows, nulls)
      two == Written(MaskReserved(one, mask), data,
                     Packed(FlattenSeq([i \in DOMAIN arrays |-> arrays[i].data])))
  IN  [arena |-> MaskWritten(two, mask, arrays), data |-> data, mask |-> mask, offsets |-> EmptyRegion]

(* AAMaker::to_array: the regions as an array like the first one. *)
ArrayOfRegions(maker, first, shared, rows) ==
  LET width == WidthOf[first.kind]
      masked == maker.mask # NoMask
      mask == IF masked THEN Bits(shared, maker.mask[1], rows) ELSE <<>>
      like == [first EXCEPT !.masked = masked, !.mask = mask]
  IN  CASE first.kind = "text" ->
             [like EXCEPT !.data = Values(shared, maker.data, 1), !.offsets = Values(shared, maker.offsets, width)]
        [] first.kind = "boolean" ->
             [like EXCEPT !.data = Bits(shared, maker.data, rows), !.len = rows]
        [] OTHER -> [like EXCEPT !.data = Values(shared, maker.data, width)]
-----------------------------------------------------------------------------
HasMask(arrays) == \E i \in DOMAIN arrays : arrays[i].masked
RowsOf(arrays) == FoldSeq(LAMBDA a, n : Length(a) + n, 0, arrays)

(* The bytes a column takes: what the two consolidations count beforehand. *)
ColumnBytes(arrays, rows) ==
  LET width == WidthOf[arrays[1].kind]
      values == CASE arrays[1].kind = "text" ->
                       Aligned((rows + 1) * width)
                         + Aligned(FoldSeq(LAMBDA a, n : Len(a.data) + n, 0, arrays))
                  [] arrays[1].kind = "boolean" -> Aligned(MaskBytes(rows))
                  [] OTHER -> Aligned(rows * width)
  IN  values + (IF HasMask(arrays) THEN Aligned(MaskBytes(rows)) ELSE 0)

(* Codes are written as they are, whatever the dictionary of their chunk.  *)
WriteCodes(arena, arrays, rows, nulls) == WriteSlices(arena, arrays, WidthOf["categorical"], rows, nulls)
WriteColumn(arena, arrays, rows) ==
  LET width == WidthOf[arrays[1].kind]
      nulls == HasMask(arrays)
  IN  CASE arrays[1].kind = "text"        -> WriteStrings(arena, arrays, width, rows, nulls)
        [] arrays[1].kind = "boolean"     -> WriteBooleans(arena, arrays, rows, nulls)
        [] arrays[1].kind = "categorical" -> WriteCodes(arena, arrays, rows, nulls)
        [] OTHER                          -> WriteSlices(arena, arrays, width, rows, nulls)

Nothing(first) == Sliced(first, 0, 0)

(* consolidate_array_arena: one array of the chunks, with the dictionary   *)
(* of the first.  After a panic there is no array.                         *)
ConsolidatedArray(chunks) ==
  LET rows == RowsOf(chunks)
      maker == WriteColumn(ArenaOf(ColumnBytes(chunks, rows)), chunks, rows)
  IN  IF maker.arena.failed THEN Nothing(chunks[1])
      ELSE ArrayOfRegions(maker, chunks[1], Frozen(maker.arena), rows)

(* consolidate_tables_arena and Table::from_arena: column c of all tables, *)
(* for each c, in one arena; columns[c] are the arrays of column c.        *)
TablesBytes(columns, rows) == FoldSeq(LAMBDA column, n : ColumnBytes(column, rows) + n, 0, columns)
WrittenColumns(columns, rows) ==
  LET made[c \in 0..Len(columns)] ==
        IF c = 0 THEN [arena |-> ArenaOf(TablesBytes(columns, rows))]
        ELSE WriteColumn(made[c - 1].arena, columns[c], rows)
  IN  made
ColumnsFrom(made, columns, rows) ==
  LET arena == made[Len(columns)].arena
  IN  [c \in DOMAIN columns |->
         IF arena.failed THEN Nothing(columns[c][1])
         ELSE ArrayOfRegions(made[c], columns[c][1], Frozen(arena), rows)]
ConsolidatedColumns(columns, rows) == ColumnsFrom(WrittenColumns(columns, rows), columns, rows)
=============================================================================
