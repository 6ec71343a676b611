------------------------------- MODULE Columns -------------------------------
(***************************************************************************)
(* A column under the editing calls of Array (enums/array.rs and the       *)
(* collections it dispatches over), whatever its variant, next to the rows *)
(* its owner expects: want is the sequence of rows, <<>> for a null and    *)
(* <<value>> for a value, kept by what each call is documented to do.      *)
(*                                                                         *)
(* Calls whose result is known to differ from their documentation are made *)
(* only if their name is in Followed (README, "Disagreements").            *)
(***************************************************************************)
EXTENDS Arrays

CONSTANTS ValuesOf,   \* for each kind under test, the values that are pushed and set
          OthersOf,   \* for each kind, the arrays that are appended, inserted and scattered
          MaxRows,    \* bound on the rows of the column
          Reserve,    \* rows reserved by with_capacity
          Followed    \* the diverging calls the owner makes

VARIABLES col, other, want
vars == <<col, other, want>>

Kinds  == DOMAIN ValuesOf
Values == ValuesOf[col.kind]

Given(v) == << << <<col.unit, v>> >> >>

Init ==
  /\ \E kind \in Kinds, masked \in BOOLEAN, reserve \in {0, Reserve} :
       col = WithCapacity(kind, masked, reserve)
  /\ other \in OthersOf[col.kind]
  /\ want = <<>>

(* resize leaves the mask as it is, too short or with the bits of rows     *)
(* that are gone: the caller repairs it before the column is edited again, *)
(* and a mask too short before it is read.                                 *)
Covered(a) ==
  /\ a.masked => Len(a.mask) >= Length(a)
  /\ a.kind = "boolean" => Len(a.data) >= a.len
Whole(a) == Covered(a) /\ \A i \in Length(a) + 1..Len(a.mask) : a.mask[i]
HasReserve(a) ==
  \/ a.masked /\ Len(a.mask) > Length(a)
  \/ a.kind = "boolean" /\ Len(a.data) > a.len

Sound(a) ==
  /\ a.kind = "text" =>
       /\ a.offsets[1] = 0
       /\ \A i \in 1..Length(a) : Text!Start(a, i) <= Text!End(a, i)
       /\ Text!End(a, Length(a)) = Len(a.data)
  /\ a.kind = "categorical" =>
       /\ \A i \in 1..Length(a) : Cat!IsNull(a, i) \/ a.data[i] < Len(a.dict)
       /\ \A i, j \in DOMAIN a.dict : i # j => a.dict[i] # a.dict[j]

(* The fields of an array: fixed-width values are numbers, a string is its *)
(* bytes, and only decimals and datetimes are counted in another unit.     *)
AllKinds == {"number", "decimal", "datetime", "boolean", "text", "categorical"}
Byte     == 0..255
CellsOf(kind) ==
  CASE kind = "boolean"                 -> BOOLEAN
    [] kind \in {"text", "categorical"} -> Seq(Byte)
    [] OTHER                            -> Int
FieldsOf(kind) ==
  {"kind", "unit", "data", "masked", "mask"}
    \cup (CASE kind = "boolean"     -> {"len"}
            [] kind = "text"        -> {"offsets"}
            [] kind = "categorical" -> {"dict"}
            [] OTHER                -> {})
Typed(a) ==
  /\ a.kind \in AllKinds /\ DOMAIN a = FieldsOf(a.kind)
  /\ a.unit \in Nat /\ (a.unit # 0 => a.kind \in {"decimal", "datetime"})
  /\ a.masked \in BOOLEAN /\ a.mask \in Seq(BOOLEAN)
  /\ CASE a.kind = "boolean"     -> a.data \in Seq(BOOLEAN) /\ a.len \in Nat
       [] a.kind = "text"        -> a.data \in Seq(Byte) /\ a.offsets \in Seq(Nat) /\ a.offsets # <<>>
       [] a.kind = "categorical" -> a.data \in Seq(Nat) /\ a.dict \in Seq(Seq(Byte))
       [] OTHER                  -> a.data \in Seq(Int)

ASSUME ColumnsAssumption ==
  /\ MaxRows \in Nat /\ Reserve \in Nat
  /\ DOMAIN ValuesOf \subseteq AllKinds
  /\ \A kind \in DOMAIN ValuesOf :
       /\ \A v \in ValuesOf[kind] : v \in CellsOf(kind)
       /\ \A o \in OthersOf[kind] : o.kind = kind /\ Typed(o) /\ Covered(o) /\ Sound(o)

Diverges(name, when) == when => name \in Followed
Became(c, rows) ==
  /\ Len(rows) <= MaxRows
  /\ col' = c
  /\ want' = rows
  /\ IF c.kind = col.kind THEN UNCHANGED other ELSE other' \in OthersOf[c.kind]

-----------------------------------------------------------------------------
Push ==
  /\ Whole(col)
  /\ \E v \in Values :
       Became(Pick(col, Fixed!Push(col, v), Bool!Push(col, v), Text!Push(col, v), Cat!Push(col, v)),
              want \o Given(v))

PushNull ==
  /\ Whole(col)
  /\ Became(Pick(col, Fixed!PushNull(col), Bool!PushNull(col), Text!PushNull(col), Cat!PushNull(col)),
            Append(want, <<>>))

PushNulls ==
  /\ Whole(col)
  /\ \E k \in 0..2 :
       Became(Pick(col, Fixed!PushNulls(col, k), Bool!PushNulls(col, k), Text!PushNulls(col, k),
                   Cat!PushNulls(col, k)),
              want \o Fixed!All(k, <<>>))

Set ==
  /\ Whole(col)
  /\ \E i \in 1..Length(col), v \in Values :
       Became(Pick(col, Fixed!Set(col, i, v), Bool!Set(col, i, v), Text!Set(col, i, v), Cat!Set(col, i, v)),
              [want EXCEPT ![i] = Given(v)[1]])

SetNull ==
  /\ Whole(col)
  /\ \E i \in 1..Length(col) :
       Became(Fixed!SetNull(col, Length(col), i), [want EXCEPT ![i] = <<>>])

SetRange ==
  /\ Whole(col)
  /\ \E from, to \in 0..Length(col), v \in Values :
       /\ from < to
       /\ Became(Pick(col, Fixed!SetRange(col, from, to, v), Bool!SetRange(col, from, to, v),
                      Text!SetRange(col, from, to, v), Cat!SetRange(col, from, to, v)),
                 [i \in DOMAIN want |-> IF i > from /\ i <= to THEN Given(v)[1] ELSE want[i]])

SetRangeNull ==
  /\ Whole(col)
  /\ \E from, to \in 0..Length(col) :
       /\ from < to
       /\ Became(Fixed!Masked(col, Fixed!SetBits(Fixed!MaskOr(col, Length(col)), from, to, FALSE)),
                 [i \in DOMAIN want |-> IF i > from /\ i <= to THEN <<>> ELSE want[i]])

Resize ==
  /\ Whole(col)
  /\ \E n \in 0..MaxRows, v \in Values :
       /\ Diverges("resize bits", col.kind = "boolean" /\ n # Length(col))
       /\ Became(Pick(col, Fixed!Resize(col, n, v), Bool!Resize(col, n, v), Text!Resize(col, n, v),
                      Cat!Resize(col, n, v)),
                 Fixed!Fit(want, n, Given(v)[1]))

(* set_null_mask with a mask of the column's length, where the rows that   *)
(* the mask did not reach are valid.                                       *)
RepairMask ==
  /\ col.masked /\ ~Whole(col)
  /\ Became(Fixed!Masked(col, Fixed!Fit(col.mask, Length(col), TRUE)), want)

DeleteRange ==
  /\ Whole(col)
  /\ Diverges("delete reserve", col.kind = "boolean" /\ HasReserve(col))
  /\ \E from, to \in 0..Length(col) :
       /\ from <= to
       /\ Became(Deleted(col, from, to), Fixed!Without(want, from, to))

(* The owner goes on with the copy of a window of its column. *)
SliceClone ==
  /\ Whole(col)
  /\ \E offset, n \in 0..Length(col) :
       /\ offset + n <= Length(col)
       /\ Became(Sliced(col, offset, n), Fixed!Window(want, offset, n))
-----------------------------------------------------------------------------
Foreign(a, o) == a.kind = "datetime" /\ a.unit # o.unit
Refused(a, o) == Fixed!Refuses(a, o)
Behind(a, o) ==
  \/ a.masked /\ o.masked /\ Len(a.mask) > Length(a)
  \/ a.kind = "boolean" /\ Len(a.data) > a.len
OtherCodes(a, o) == a.kind = "categorical" /\ ~Cat!IsPrefix(o.dict, a.dict)

AppendDiverges ==
  /\ Diverges("append reserve", Behind(col, other))
  /\ Diverges("append unit", Foreign(col, other))
  /\ Diverges("append dictionary", OtherCodes(col, other))

(* concat_array; an array of another variant, precision or scale panics. *)
AppendArray ==
  /\ Whole(col) /\ ~Refused(col, other) /\ AppendDiverges
  /\ Became(Appended(col, other), want \o Rows(other))

AppendRange ==
  /\ Whole(col) /\ ~Refused(col, other) /\ AppendDiverges
  /\ \E offset, n \in 0..Length(other) :
       /\ offset + n <= Length(other)
       /\ Became(AppendedRange(col, other, offset, n),
                 want \o Fixed!Window(Rows(other), offset, n))

InsertRows ==
  /\ Whole(col) /\ ~Refused(col, other)
  /\ Diverges("append unit", Foreign(col, other))
  /\ \E at \in 0..Length(col), junk \in 0..1 :
       Became(InsertedRows(col, at, other, junk), Fixed!Spliced(want, at, Rows(other)))

(* concat checks the units of datetimes and merges the dictionaries; a     *)
(* null's code that it cannot translate panics.                            *)
Concat ==
  /\ Whole(col) /\ ~Refused(col, other) /\ ~Foreign(col, other)
  /\ Diverges("append reserve", Behind(col, other))
  /\ ~(col.kind = "categorical" /\ Cat!ConcatPanics(col, other))
  /\ Became(Concatenated(col, other), want \o Rows(other))

(* The owner goes on with one of the halves. *)
Split ==
  /\ Whole(col)
  /\ \E at \in 1..(Length(col) - 1), side \in 1..2 :
       /\ Diverges("split text", col.kind = "text" /\ side = 1)
       /\ Became(Halves(col, at)[side],
                 IF side = 1 THEN SubSeq(want, 1, at) ELSE Fixed!Without(want, 0, at))

(* extend_from_slice; fixed-width arrays leave the mask as resize does. *)
Extend ==
  /\ Whole(col)
  /\ \E v, w \in Values :
       Became(Pick(col, Fixed!ExtendFromSlice(col, <<v, w>>), Bool!ExtendFromSlice(col, <<v, w>>),
                   Text!ExtendFromSlice(col, <<v, w>>), Cat!ExtendFromSlice(col, <<v, w>>)),
              want \o Given(v) \o Given(w))

Fill ==
  \E v \in Values, n \in 0..2 :
     Became(Pick(col, Fixed!Filled(col, v, n), Bool!Filled(col, v, n), Text!Filled(col, v, n),
                 Cat!Filled(col, v, n)),
            Fixed!All(n, Given(v)[1]))

(* scatter_indices: rows src of the other, one after the other, to rows    *)
(* dst.  Arrays of another unit are an error.                              *)
Scattered(dst, src) ==
  [d \in DOMAIN want |->
     IF dst[2] = d THEN Rows(other)[src[2]] ELSE IF dst[1] = d THEN Rows(other)[src[1]] ELSE want[d]]

Scatter ==
  /\ Whole(col) /\ col.unit = other.unit
  /\ \E dst \in [1..2 -> 1..Length(col)], src \in [1..2 -> 1..Length(other)] :
       Became(Pick(col, Fixed!ScatterPrim(col, dst, other, src), Fixed!ScatterPrim(col, dst, other, src),
                   Text!ScatterStr(col, dst, other, src), Cat!ScatterCat(col, dst, other, src)),
              Scattered(dst, src))

(* push_bits and the negation of a boolean array. *)
PushBits ==
  /\ col.kind = "boolean" /\ Whole(col)
  /\ \E v, w \in Values : Became(Bool!PushBits(col, <<v, w>>), want \o Given(v) \o Given(w))
Not ==
  /\ col.kind = "boolean" /\ Whole(col)
  /\ Became(Bool!Not(col),
            [i \in DOMAIN want |-> IF want[i] = <<>> THEN <<>> ELSE <<<<col.unit, ~want[i][1][2]>>>>])

(* Text to categorical, with code 0 under every null, and back, with an    *)
(* empty string under every null; compact_dict.                            *)
ToCategorical ==
  /\ col.kind = "text" /\ Whole(col) /\ "categorical" \in Kinds
  /\ LET rows == [i \in 1..Length(col) |-> IF Text!IsNull(col, i) THEN <<>> ELSE <<Text!Value(col, i)[2]>>]
         dict == Cat!InternedRows(<<>>, rows)
     IN  Became([kind |-> "categorical", unit |-> col.unit, masked |-> col.masked, mask |-> col.mask,
                 dict |-> dict,
                 data |-> [i \in DOMAIN rows |-> IF rows[i] = <<>> THEN 0 ELSE Cat!Code(dict, rows[i][1])]],
                want)
ToStrings ==
  /\ col.kind = "categorical" /\ Whole(col) /\ "text" \in Kinds
  /\ LET texts == [i \in 1..Length(col) |-> IF Cat!IsNull(col, i) THEN <<>> ELSE Cat!Value(col, i)[2]]
     IN  Became([kind |-> "text", unit |-> col.unit, masked |-> col.masked, mask |-> col.mask,
                 data |-> Text!FlattenSeq(texts), offsets |-> <<0>> \o Text!EndsFrom(0, texts)],
                want)
CompactDict ==
  /\ col.kind = "categorical" /\ Whole(col)
  /\ Became(Cat!CompactDict(col), want)

(* The owner turns to another array to append, insert or scatter. *)
TakeOther ==
  /\ other' \in OthersOf[col.kind]
  /\ UNCHANGED <<col, want>>

Next ==
  \/ TakeOther
  \/ Push \/ PushNull \/ PushNulls \/ Set \/ SetNull \/ SetRange \/ SetRangeNull \/ Resize \/ RepairMask
  \/ DeleteRange \/ SliceClone \/ AppendArray \/ AppendRange \/ InsertRows \/ Concat \/ Split
  \/ Extend \/ Fill \/ Scatter \/ PushBits \/ Not \/ ToCategorical \/ ToStrings \/ CompactDict

Spec == Init /\ [][Next]_vars
-----------------------------------------------------------------------------
(* Whatever calls are made, in whatever order, and whether the column was  *)
(* made with a reserve or a mask, its rows are the ones its owner expects: *)
(* the values, and which rows are null.                                    *)
RowsAreExact == Covered(col) => Rows(col) = want

(* What readers take for granted without a check: every string starts      *)
(* where the one before it ends and the last ends with the bytes, every    *)
(* code that is not under a null has an entry, no category is there twice. *)
WellFormed == Sound(col)
=============================================================================
