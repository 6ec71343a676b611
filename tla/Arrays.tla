------------------------------- MODULE Arrays -------------------------------
(***************************************************************************)
(* Array (enums/array.rs) over the collections it is made of: each call    *)
(* goes to NumericArray, TextArray, TemporalArray or to the boolean array, *)
(* and from there to the variant.  Two arrays of different variants are    *)
(* refused: an error, or a panic of append_array.                          *)
(***************************************************************************)
EXTENDS Integers, Sequences

Fixed == INSTANCE FixedArray
Bool  == INSTANCE BooleanArray
Text  == INSTANCE StringArray
Cat   == INSTANCE CategoricalArray

Pick(a, fixed, bool, text, cat) ==
  CASE a.kind = "boolean"     -> bool
    [] a.kind = "text"        -> text
    [] a.kind = "categorical" -> cat
    [] OTHER                  -> fixed
InCollection(a, numeric, text, temporal, boolean) ==
  CASE a.kind = "boolean"                 -> boolean
    [] a.kind \in {"text", "categorical"} -> text
    [] a.kind = "datetime"                -> temporal
    [] OTHER                              -> numeric
OfText(a, text, cat) == IF a.kind = "text" THEN text ELSE cat

Length(a) == Pick(a, Fixed!Length(a), Bool!Length(a), Text!Length(a), Cat!Length(a))
Row(a, i) ==
  IF Fixed!IsNull(a, i) THEN <<>>
  ELSE <<Pick(a, Fixed!Value(a, i), Bool!Value(a, i), Text!Value(a, i), Cat!Value(a, i))>>
Rows(a) == [i \in 1..Length(a) |-> Row(a, i)]
-----------------------------------------------------------------------------
NumericDeleted(a, from, to)  == Fixed!DeleteRange(a, from, to)
TemporalDeleted(a, from, to) == Fixed!DeleteRange(a, from, to)
TextDeleted(a, from, to) == OfText(a, Text!DeleteRange(a, from, to), Cat!DeleteRange(a, from, to))
Deleted(a, from, to) ==
  InCollection(a, NumericDeleted(a, from, to), TextDeleted(a, from, to), TemporalDeleted(a, from, to),
               Bool!DeleteRange(a, from, to))

Sliced(a, offset, n) ==
  Pick(a, Fixed!SliceClone(a, offset, n), Bool!SliceClone(a, offset, n),
       Text!SliceClone(a, offset, n), Cat!SliceClone(a, offset, n))

NumericAppended(a, o)  == Fixed!AppendArray(a, o)
TemporalAppended(a, o) == Fixed!AppendArray(a, o)
TextAppended(a, o) == OfText(a, Text!AppendArray(a, o), Cat!AppendArray(a, o))
Appended(a, o) ==
  InCollection(a, NumericAppended(a, o), TextAppended(a, o), TemporalAppended(a, o), Bool!AppendArray(a, o))

NumericRange(a, o, offset, n)  == Fixed!AppendRange(a, o, offset, n)
TemporalRange(a, o, offset, n) == Fixed!AppendRange(a, o, offset, n)
TextRange(a, o, offset, n) ==
  OfText(a, Text!AppendRange(a, o, offset, n), Cat!AppendRange(a, o, offset, n))
AppendedRange(a, o, offset, n) ==
  InCollection(a, NumericRange(a, o, offset, n), TextRange(a, o, offset, n), TemporalRange(a, o, offset, n),
               Bool!AppendRange(a, o, offset, n))

NumericInserted(a, at, o)  == Fixed!InsertRows(a, at, o)
TemporalInserted(a, at, o) == Fixed!InsertRows(a, at, o)
TextInserted(a, at, o, junk) == OfText(a, Text!InsertRows(a, at, o), Cat!InsertRows(a, at, o, junk))
InsertedRows(a, at, o, junk) ==
  InCollection(a, NumericInserted(a, at, o), TextInserted(a, at, o, junk), TemporalInserted(a, at, o),
               Bool!InsertRows(a, at, o))

NumericHalves(a, at)  == Fixed!Split(a, at)
TemporalHalves(a, at) == Fixed!Split(a, at)
TextHalves(a, at) == OfText(a, Text!Split(a, at), Cat!Split(a, at))
Halves(a, at) ==
  InCollection(a, NumericHalves(a, at), TextHalves(a, at), TemporalHalves(a, at), Bool!Split(a, at))

(* concat is append_array but for categorical arrays, which merge their    *)
(* dictionaries.                                                           *)
NumericConcat(a, o)  == Fixed!AppendArray(a, o)
TemporalConcat(a, o) == Fixed!AppendArray(a, o)
TextConcat(a, o) == OfText(a, Text!AppendArray(a, o), Cat!Concat(a, o))
Concatenated(a, o) ==
  InCollection(a, NumericConcat(a, o), TextConcat(a, o), TemporalConcat(a, o), Bool!AppendArray(a, o))
-----------------------------------------------------------------------------
(* with_capacity: a mask, and the bits of a boolean array, as long as the  *)
(* reserve, all set and all clear.                                         *)
WithCapacity(kind, masked, reserve) ==
  LET common == [kind |-> kind, unit |-> 0, data |-> <<>>, masked |-> masked,
                 mask |-> IF masked THEN Fixed!All(reserve, TRUE) ELSE <<>>]
      more(f, v) == [x \in DOMAIN common \cup {f} |-> IF x = f THEN v ELSE common[x]]
  IN  CASE kind = "boolean"     -> [more("len", 0) EXCEPT !.data = Fixed!All(reserve, FALSE)]
        [] kind = "text"        -> more("offsets", <<0>>)
        [] kind = "categorical" -> more("dict", <<>>)
        [] OTHER                -> common
=============================================================================
