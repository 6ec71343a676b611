----------------------------- MODULE ArrayCasts -----------------------------
(***************************************************************************)
(* What an array becomes as another type (conversions.rs, the casts of     *)
(* Array, NumericArray, TextArray, TemporalArray and DecimalArray), what a *)
(* view reads of it (ArrayV), and how elements are compared and hashed.    *)
(*                                                                         *)
(* An array is its type, its data, its null mask (empty when it has none), *)
(* the scale of a decimal, the dtype of a datetime and the strings of a    *)
(* dictionary.  The data are what Scalars has for the type, codes for a    *)
(* Categorical; a null has a value like any other, which is not read.      *)
(***************************************************************************)
EXTENDS Scalars
LOCAL INSTANCE FiniteSets

Arr(t, data, mask) == [type |-> t, data |-> data, mask |-> mask, scale |-> 0, dtype |-> "", values |-> <<>>]
Rows(a)     == DOMAIN a.data
Valid(a, i) == a.mask = <<>> \/ a.mask[i]
All(b, n)   == [i \in 1..n |-> b]
Error       == Arr("error", <<>>, <<>>)
Panicked    == Arr("panic", <<>>, <<>>)
Expected(a) == IF a = Error THEN Panicked ELSE a

CodeHi == [Categorical8 |-> 1, Categorical16 |-> 2, Categorical32 |-> 7, Categorical64 |-> 63]
Categoricals == DOMAIN CodeHi
Strings      == Texts \cup Categoricals
Empty        == Text("other", "word", -1)
Wides        == {"Int32", "Int64", "UInt32", "UInt64"} \cup Floats

(* All rows or none. *)
Collected(t, a, out) ==
  IF \E i \in Rows(a) : out[i] = None THEN Error ELSE Arr(t, [i \in Rows(a) |-> out[i][2]], a.mask)

-----------------------------------------------------------------------------
(* conversions.rs.  The data of null rows is converted, and checked, too.  *)

IntToFloat(t, a)   == Arr(t, [i \in Rows(a) |-> ToFloat(t, a.data[i])], a.mask)
IntToInt(t, a)     == Arr(t, [i \in Rows(a) |-> Wrap(t, a.data[i])], a.mask)
IntTryInt(t, a)    == Collected(t, a, [i \in Rows(a) |-> TryFrom(t, a.data[i])])
FloatToFloat(t, a) == Arr(t, [i \in Rows(a) |-> Narrowed(t, a.data[i])], a.mask)
Whole(t, f) == Num(4 * TowardsZero(Quarters(f), 4))
FloatCast(t, a) ==  \* a mutant: what the cast made of the value is not looked at
  Collected(t, a, [i \in Rows(a) |-> IF Finite(a.data[i]) THEN Some(Truncated(t, a.data[i])) ELSE None])
FloatTryInt(t, a) ==
  Collected(t, a, [i \in Rows(a) |->
    IF Finite(a.data[i]) /\ ToFloat(a.type, Truncated(t, a.data[i])) = Whole(t, a.data[i])
    THEN Some(Truncated(t, a.data[i])) ELSE None])
BoolToInt(t, a)    == Arr(t, [i \in Rows(a) |-> Bit(a.data[i])], a.mask)
BoolToFloat(t, a)  == Arr(t, [i \in Rows(a) |-> Num(4 * Bit(a.data[i]))], a.mask)
IntToBool(a)       == Arr("Boolean", [i \in Rows(a) |-> a.data[i] # 0], a.mask)
FloatToBool(a)     == Arr("Boolean", [i \in Rows(a) |-> a.data[i] \notin {Num(0), NegZero}], a.mask)
NumericToString(a) ==
  Arr("String32", [i \in Rows(a) |-> IF a.type \in Floats THEN FloatText(a.data[i]) ELSE IntText(a.data[i])], a.mask)
BoolToString(a)    == Arr("String32", [i \in Rows(a) |-> IntText(Bit(a.data[i]))], a.mask)

(* A window of strings, by the first row of each text; codes that do not   *)
(* fit panic.  Offsets too great for u32 are left out.                     *)
FirstRows(a, from, n) == {i \in from + 1..from + n : \A j \in from + 1..i - 1 : a.data[j] # a.data[i]}
CodeOf(a, firsts, i) == Cardinality({j \in firsts : j < i /\ \A k \in firsts : a.data[k] = a.data[i] => j < k})
StringToCat(t, a, from, n) ==
  LET firsts == FirstRows(a, from, n)
      nth(k) == CHOOSE i \in firsts : Cardinality({j \in firsts : j <= i}) = k
  IN  IF from + n > Len(a.data) THEN Error
      ELSE IF Cardinality(firsts) > CodeHi[t] + 1 THEN Panicked
      ELSE [Arr(t, [k \in 1..n |-> CodeOf(a, firsts, from + k)], IF a.mask = <<>> THEN <<>> ELSE SubSeq(a.mask, from + 1, from + n))
              EXCEPT !.values = [k \in 1..Cardinality(firsts) |-> a.data[nth(k)]]]
TextAt(a, code) == IF code < Len(a.values) THEN a.values[code + 1] ELSE Empty
CatToString(t, a)    == Arr(t, [i \in Rows(a) |-> TextAt(a, a.data[i])], a.mask)
StringToString(t, a) == Arr(t, a.data, a.mask)
CatWiden(t, a)       == [a EXCEPT !.type = t]
CatNarrow(t, a)      == IF \A i \in Rows(a) : a.data[i] <= CodeHi[t] THEN [a EXCEPT !.type = t] ELSE Error

DatetimeToInt(a) == Arr(IF a.type = "Datetime32" THEN "Int32" ELSE "Int64", a.data, a.mask)
Narrower == [Time64 |-> "Time32", Duration64 |-> "Duration32", Days64 |-> "Date32",
             Date32 |-> "Date32", Time32 |-> "Time32", Duration32 |-> "Duration32"]
DatetimeNarrow(a) ==
  IF a.dtype \notin DOMAIN Narrower \/ \E i \in Rows(a) : ~(Lo["Int32"] <= a.data[i] /\ a.data[i] <= Hi["Int32"]) THEN Error
  ELSE [a EXCEPT !.type = "Datetime32", !.dtype = Narrower[a.dtype]]
Wider == [Date32 |-> "Days64", Time32 |-> "Time64", Duration32 |-> "Duration64"]
DatetimeWiden(a) ==
  [a EXCEPT !.type = "Datetime64", !.dtype = IF a.dtype \in DOMAIN Wider THEN Wider[a.dtype] ELSE a.dtype]

-----------------------------------------------------------------------------
(* DecimalArray: by value to a float, without the fraction to an integer;  *)
(* a negative scale is left off then.                                      *)

Ten(n) == 2^n
Above(n) == IF n > 0 THEN n ELSE 0
DecimalToFloat(t, a) ==
  Arr(t, [i \in Rows(a) |-> LET f == RoundTo(Mantissa[t], RoundTo(Mantissa["Float64"], 4 * a.data[i]))
                            IN  Num(IF a.scale < 0 THEN f * Ten(-a.scale) ELSE f \div Ten(a.scale))], a.mask)
DecimalToInteger(t, a) == Collected(t, a, [i \in Rows(a) |-> TryFrom(t, TowardsZero(a.data[i], Ten(Above(a.scale))))])
DecimalToBool(a) == Arr("Boolean", [i \in Rows(a) |-> a.data[i] # 0], a.mask)
DecimalToStr(a)  == Arr("String32", [i \in Rows(a) |-> DecimalText(a.data[i], a.scale)], a.mask)
ToFloat64(a) == DecimalToFloat("Float64", a)
ToFloat32(a) == DecimalToFloat("Float32", a)
ToInt64(a)   == DecimalToInteger("Int64", a)
ToInt32(a)   == DecimalToInteger("Int32", a)
ToUint64(a)  == DecimalToInteger("UInt64", a)
ToUint32(a)  == DecimalToInteger("UInt32", a)
FromIntegerArray(t, a, scale) ==
  LET r == Collected(t, a, [i \in Rows(a) |-> TryFrom(t, a.data[i] * Ten(Above(scale)))])
  IN  IF r = Error THEN Error ELSE [r EXCEPT !.scale = scale]
Rescale(a, scale) ==
  LET diff == scale - a.scale
      r == Collected(a.type, a, [i \in Rows(a) |-> TryFrom(a.type, IF diff < 0 THEN TowardsZero(a.data[i], Ten(-diff)) ELSE a.data[i] * Ten(diff))])
  IN  IF r = Error THEN Error ELSE [r EXCEPT !.scale = scale]
DecimalWiden(t, a)  == [a EXCEPT !.type = t]
DecimalNarrow(t, a) == IF \A i \in Rows(a) : InRange(t, a.data[i]) THEN [a EXCEPT !.type = t] ELSE Error

-----------------------------------------------------------------------------
(* NumericArray::try_*, each with its own list of what widens.             *)

Tries(t, widens, a) ==
  CASE a.type = t          -> a
    [] a.type \in widens   -> IntToInt(t, a)
    [] a.type \in Ints     -> IntTryInt(t, a)
    [] a.type \in Floats   -> FloatTryInt(t, a)
    [] a.type \in Decimals -> DecimalToInteger(t, a)
    [] OTHER               -> Error
Short == {"Int8", "Int16", "UInt8", "UInt16"}
TryI32Array(a) == Tries("Int32", Short, a)
TryI64Array(a) == Tries("Int64", Short \cup {"Int32", "UInt32"}, a)
TryU32Array(a) == Tries("UInt32", Short, a)
TryU64Array(a) == Tries("UInt64", Short \cup {"Int32", "UInt32"}, a)
Reals(t, a) ==
  CASE a.type \in Ints     -> IntToFloat(t, a)
    [] a.type \in Floats   -> FloatToFloat(t, a)
    [] a.type \in Decimals -> DecimalToFloat(t, a)
    [] OTHER               -> Error
TryF32Array(a) == Reals("Float32", a)
TryF64Array(a) == Reals("Float64", a)
CowIntoF64(a)  == IF a.type = "NoNumber" THEN Arr("Float64", <<>>, <<>>) ELSE Reals("Float64", a)
TryBoolArray(a) ==
  CASE a.type \in Ints -> IntToBool(a) [] a.type \in Floats -> FloatToBool(a) [] a.type \in Decimals -> DecimalToBool(a)
    [] OTHER -> Error
TryStrArray(a) ==
  CASE a.type \in Ints \cup Floats -> NumericToString(a) [] a.type \in Decimals -> DecimalToStr(a) [] OTHER -> Error
TryDec32(a)  == IF a.type = "Decimal32" THEN a ELSE Error
TryDec64(a)  == IF a.type \in {"Decimal64", "Decimal32"} THEN DecimalWiden("Decimal64", a) ELSE Error
TryDec128(a) == IF a.type \in Decimals THEN DecimalWiden("Decimal128", a) ELSE Error

(* TextArray and TemporalArray.                                            *)
AsString(t, a) ==
  CASE a.type \in Texts -> StringToString(t, a) [] a.type \in Categoricals -> CatToString(t, a) [] OTHER -> Error
TryStr32(a) == AsString("String32", a)
TryStr64(a) == AsString("String64", a)
AsCategorical(t, a) ==
  CASE a.type \in Texts -> StringToCat(t, a, 0, Len(a.data))
    [] a.type \in Categoricals -> IF CodeHi[a.type] <= CodeHi[t] THEN CatWiden(t, a) ELSE CatNarrow(t, a)
    [] OTHER -> Error
TryCat8(a)  == AsCategorical("Categorical8", a)
TryCat16(a) == AsCategorical("Categorical16", a)
TryCat32(a) == AsCategorical("Categorical32", a)
TryCat64(a) == AsCategorical("Categorical64", a)
TryDt32Array(a) == CASE a.type = "Datetime32" -> a [] a.type = "Datetime64" -> DatetimeNarrow(a) [] OTHER -> Error
TryDt64Array(a) == CASE a.type = "Datetime64" -> a [] a.type = "Datetime32" -> DatetimeWiden(a) [] OTHER -> Error

-----------------------------------------------------------------------------
(* Array::num, str, bool and dt.  Each leaves some types out, and gives an *)
(* array without rows for them; the whole null array panics.               *)

StringOf(a, i) == IF a.type \in Categoricals THEN TextAt(a, a.data[i]) ELSE a.data[i]
Read(t, a) ==
  LET out == [i \in Rows(a) |-> IF Valid(a, i) THEN ParseInt(t, StringOf(a, i)) ELSE None]
  IN  Arr(t, [i \in Rows(a) |-> out[i][2]], [i \in Rows(a) |-> out[i] # None])
ArrayNum(a) ==
  CASE a.type \in Ints \cup Floats \cup Decimals -> a
    [] a.type = "Boolean"                      -> Arr("Int32", [i \in Rows(a) |-> IF Valid(a, i) THEN Bit(a.data[i]) ELSE 0], a.mask)
    [] a.type \in Datetimes                    -> DatetimeToInt(a)
    [] a.type \in {"String64", "Categorical64"} -> Read("Int64", a)
    [] a.type \in Strings                      -> Read("Int32", a)
    [] a.type = "Null"                         -> Panicked
    [] OTHER                                   -> Arr("NoNumber", <<>>, <<>>)
TryNum(a) == IF a.type = "Null" THEN Error ELSE ArrayNum(a)

(* The nulls of booleans and datetimes become empty strings. *)
Digits(a) == [i \in Rows(a) |-> IF ~Valid(a, i) THEN Empty ELSE TryStr(<<a.type, a.data[i]>>)[2]]
IntToTextArray(a)   == Arr("String32", Digits(a), a.mask)
FloatToTextArray(a) == Arr("String32", Digits(a), a.mask)
ArrayStr(a) ==
  CASE a.type \in Strings                     -> a
    [] a.type \in {"Boolean"} \cup Datetimes  -> Arr("String32", Digits(a), <<>>)
    [] a.type \in Wides \cap Ints             -> IntToTextArray(a)
    [] a.type \in Floats                      -> FloatToTextArray(a)
    [] a.type = "Null"                        -> Panicked
    [] OTHER                                  -> Arr("NoText", <<>>, <<>>)
TryStrOf(a) == IF a.type = "Null" THEN Error ELSE ArrayStr(a)

(* A datetime is true when it is there.                                    *)
ArrayBool(a) ==
  LET n == Len(a.data)
      mask == [i \in Rows(a) |-> Valid(a, i)]
      zero(i) == IF a.type \in Floats THEN a.data[i] \in {Num(0), NegZero} ELSE a.data[i] = 0
  IN  CASE a.type = "Boolean"    -> a
        [] a.type \in Wides      -> Arr("Boolean", [i \in Rows(a) |-> mask[i] /\ ~zero(i)], mask)
        [] a.type \in Datetimes  -> Arr("Boolean", mask, mask)
        [] a.type = "String32"   -> Arr("Boolean", [i \in Rows(a) |-> mask[i] /\ a.data[i] # Empty /\ a.data[i].reads # "false"], mask)
        [] a.type = "Null"       -> Panicked
        [] OTHER                 -> Arr("Boolean", <<>>, <<>>)
TryBoolOf(a) == IF a.type = "Null" THEN Error ELSE ArrayBool(a)

(* A text that is a datetime is one of its milliseconds, [kind |-> "int"]. *)
ParseDatetimeStr(s) == IF s = Empty THEN None ELSE ParseInt("Int64", s)
ArrayDt(a) ==
  LET out == [i \in Rows(a) |-> IF Valid(a, i) THEN ParseDatetimeStr(a.data[i]) ELSE None]
      date(r) == [r EXCEPT !.dtype = "Date64"]
  IN  CASE a.type \in Datetimes -> a
        [] a.type \in Wides \cap Ints -> date(Arr("Datetime64", [i \in Rows(a) |-> Wrap("Int64", a.data[i])], a.mask))
        [] a.type \in Floats -> date(Arr("Datetime64", [i \in Rows(a) |-> Truncated("Int64", a.data[i])], a.mask))
        [] a.type = "String32" -> date(Arr("Datetime64", [i \in Rows(a) |-> out[i][2]], [i \in Rows(a) |-> out[i] # None]))
        [] a.type = "Null" -> Panicked
        [] OTHER -> Arr("NoDatetime", <<>>, <<>>)
TryDt(a) == IF a.type = "Null" THEN Error ELSE ArrayDt(a)

-----------------------------------------------------------------------------
(* Types, as an Arrow type has them: <<name>>, <<name, scale>>, or the     *)
(* dtype of a datetime.  Dates and units of 32 bits are Datetime32.        *)

Dates32 == {"Date32", "Time32", "Duration32"}
Dates64 == {"Date64", "Time64", "Duration64", "Days64", "Timestamp"}
TypeOf(a) == CASE a.type \in Decimals -> <<a.type, a.scale>> [] a.type \in Datetimes -> <<a.dtype>> [] OTHER -> <<a.type>>
Typed(a, type) ==
  CASE type[1] \in Decimals -> [a EXCEPT !.type = type[1], !.scale = type[2]]
    [] type[1] \in Dates32  -> [a EXCEPT !.type = "Datetime32", !.dtype = type[1]]
    [] type[1] \in Dates64  -> [a EXCEPT !.type = "Datetime64", !.dtype = type[1]]
    [] OTHER                -> [a EXCEPT !.type = type[1]]
Zero(t) ==
  CASE t = "Boolean" -> FALSE [] t \in Floats -> Num(0) [] t \in Texts -> Empty [] OTHER -> 0
NullArray(type, n) ==
  LET a == Arr("Null", All(Zero(type[1]), n), All(FALSE, n))
  IN  CASE type[1] \in {"Null", "Interval", "Categorical16", "Categorical64"} -> Arr("Null", <<>>, <<>>)
        [] type[1] \in Categoricals -> [Typed(a, type) EXCEPT !.values = IF n = 0 THEN <<>> ELSE <<Empty>>]
        [] OTHER -> Typed(a, type)
FromArrowDtype(type) ==
  IF type[1] \in {"Null", "Interval"} THEN Arr("Null", <<>>, <<>>) ELSE Typed(Arr("Null", <<>>, <<>>), type)
AsColumnType(a, type) ==
  LET number == a.type \in Ints \cup Floats \cup Decimals
  IN  CASE number /\ type[1] = "Int32"   -> TryI32Array(a)
        [] number /\ type[1] = "Int64"   -> TryI64Array(a)
        [] number /\ type[1] = "UInt32"  -> TryU32Array(a)
        [] number /\ type[1] = "UInt64"  -> TryU64Array(a)
        [] number /\ type[1] = "Float32" -> TryF32Array(a)
        [] number /\ type[1] = "Float64" -> TryF64Array(a)
        [] a.type \in Datetimes /\ type[1] \in Dates64 -> TryDt64Array(a)
        [] a.type \in Datetimes /\ type[1] \in Dates32 -> TryDt32Array(a)
        [] a.type = "String32" /\ type[1] = "String64" -> StringToString("String64", a)
        [] OTHER -> Error
OrNulls(r, type, n) == IF r = Error THEN NullArray(type, n) ELSE r
CheckUnifyBatchDtype(a, type) ==
  CASE Len(a.data) = 0   -> FromArrowDtype(type)
    [] TypeOf(a) = type  -> a
    [] OTHER             -> OrNulls(AsColumnType(a, type), type, Len(a.data))

-----------------------------------------------------------------------------
(* Elements: as scalars, and from scalars, where the first that is not     *)
(* null gives the type and the others go through f64.                      *)

GetStr(a, i) ==
  IF i \in Rows(a) /\ Valid(a, i) /\ a.type \in Strings THEN Some(StringOf(a, i)) ELSE None
GetStrUnchecked(a, i) == IF Valid(a, i) /\ a.type \in Strings THEN Some(StringOf(a, i)) ELSE None
GetScalar(a, i) ==
  CASE i \notin Rows(a)         -> None
    [] ~Valid(a, i)             -> Some(<<"Null", 0>>)
    [] a.type \in Categoricals  -> Some(<<"String32", StringOf(a, i)>>)
    [] a.type \in Decimals      -> Some(<<a.type, a.data[i], a.scale>>)
    [] OTHER                    -> Some(<<a.type, a.data[i]>>)
ArrayToScalar(a) == IF Len(a.data) = 1 THEN GetScalar(a, 1) ELSE None
ScalarToArray(x) ==
  CASE x[1] \in Nothings  -> Arr("Int32", <<0>>, <<>>)
    [] x[1] \in Decimals  -> [Arr(x[1], <<x[2]>>, <<>>) EXCEPT !.scale = x[3]]
    [] x[1] \in Datetimes -> Typed(Arr("Null", <<x[2]>>, <<>>), <<IF x[1] = "Datetime32" THEN "Date32" ELSE "Date64">>)
    [] OTHER              -> Arr(x[1], <<x[2]>>, <<>>)
ArrayFromValue(x, n) ==
  CASE x[1] = "Null"      -> Arr("Boolean", All(FALSE, n), All(FALSE, n))
    [] x[1] = "Interval"  -> Panicked
    [] x[1] \in Decimals  -> [Arr(x[1], All(x[2], n), <<>>) EXCEPT !.scale = x[3]]
    [] x[1] \in Datetimes -> Typed(Arr("Null", All(x[2], n), <<>>), <<IF x[1] = "Datetime32" THEN "Date32" ELSE "Date64">>)
    [] OTHER              -> Arr(x[1], All(x[2], n), <<>>)
ArrowType(x) ==
  CASE x[1] \in Decimals     -> <<x[1], x[3]>>
    [] x[1] = "Datetime32"   -> <<"Date32">>
    [] x[1] = "Datetime64"   -> <<"Date64">>
    [] OTHER                 -> <<x[1]>>

(* Numbers of other types go through f64 to a number, digit for digit to a *)
(* decimal; what else is no value of the type is zero, false or empty, and *)
(* not null.                                                               *)
TakenAs(t, x) ==
  LET f == F64(x)
  IN  CASE x[1] = t                  -> Some(x[2])
        [] t \in Texts               -> Some(IF x[1] \in Texts THEN x[2] ELSE Empty)
        [] t \in Datetimes           -> Some(0)
        [] t = "Boolean"             -> Some(FALSE)
        [] t \in Ints                -> IF f = Panic THEN Panic ELSE Some(Truncated(t, f[2]))
        [] t \in Floats              -> IF f = Panic THEN Panic ELSE Some(Narrowed(t, f[2]))
        [] t = "Decimal32"           -> I32(x)
        [] t \in Decimals            -> I64(x)
FromScalars(xs) ==
  LET given == {i \in DOMAIN xs : xs[i][1] # "Null"}
      first == xs[CHOOSE i \in given : \A j \in given : i <= j]
      mask == IF given = DOMAIN xs THEN <<>> ELSE [i \in DOMAIN xs |-> i \in given]
      out == [i \in DOMAIN xs |-> IF i \in given THEN TakenAs(first[1], xs[i]) ELSE Some(Zero(first[1]))]
  IN  CASE given = {} \/ first[1] = "Interval" -> Arr("Null", <<>>, <<>>)
        [] \E i \in DOMAIN xs : out[i] = Panic -> Panicked
        [] OTHER -> Typed(Arr("Null", [i \in DOMAIN xs |-> out[i][2]], mask), ArrowType(first))

-----------------------------------------------------------------------------
(* Order, equality and hash of elements.  Nulls come last and are equal.   *)
(* Texts are ordered by what they read as and their number, floats by      *)
(* their bits: the least NaN is not among ours.                            *)

Rank(a, i) ==
  CASE a.type = "Boolean"  -> <<Bit(a.data[i]), 0>>
    [] a.type \in Strings  -> <<IF StringOf(a, i) = Empty THEN 0 ELSE IF StringOf(a, i).kind = "word" THEN 2 ELSE 1, StringOf(a, i).n>>
    [] a.type \in Floats   -> CASE a.data[i] = NaN -> <<3, 0>> [] a.data[i] = Inf(1) -> <<2, 0>> [] a.data[i] = Inf(-1) -> <<-1, 0>>
                                [] a.data[i] = NegZero -> <<1, -1>>
                                [] OTHER -> <<1, IF a.data[i][2] < 0 THEN a.data[i][2] - 1 ELSE a.data[i][2]>>
    [] OTHER               -> <<a.data[i], 0>>
CompareAt(a, i, j) ==
  LET p == Rank(a, i)  q == Rank(a, j)
  IN  CASE ~Valid(a, i) /\ ~Valid(a, j) -> 0
        [] ~Valid(a, i) -> 1
        [] ~Valid(a, j) -> -1
        [] p = q -> 0
        [] p[1] < q[1] \/ (p[1] = q[1] /\ p[2] < q[2]) -> -1
        [] OTHER -> 1
Same(t, v, w) ==
  IF t \in Floats THEN IF v = NaN THEN w = NaN ELSE v = w \/ (Finite(v) /\ Finite(w) /\ Quarters(v) = Quarters(w))
  ELSE v = w
ValueEq(a, i, b, j) ==
  IF ~Valid(a, i) \/ ~Valid(b, j) THEN ~Valid(a, i) /\ ~Valid(b, j)
  ELSE a.type = b.type /\ (IF a.type \in Strings THEN StringOf(a, i) = StringOf(b, j) ELSE Same(a.type, a.data[i], b.data[j]))
HashElementAt(a, i) ==
  CASE ~Valid(a, i)        -> <<"null">>
    [] a.type \in Floats   -> <<"bits", IF Finite(a.data[i]) THEN Num(Quarters(a.data[i])) ELSE a.data[i]>>
    [] a.type \in Strings  -> <<"text", StringOf(a, i)>>
    [] a.type = "Boolean"  -> <<"bool", a.data[i]>>
    [] OTHER               -> <<"digits", a.data[i]>>

-----------------------------------------------------------------------------
(* ArrayV: what a view [array, off, len] reads of a row, by the `as` cast, *)
(* so that an integer wraps; the scale of a decimal is left off.           *)

Within(v, i) == 0 <= i /\ i < v.len
Reading(t, v, i, also) ==
  LET a == v.array  r == v.off + i + 1
  IN  IF a.type \notin Ints \cup Floats \cup Decimals \cup also \/ ~Valid(a, r) THEN None
      ELSE IF t \in Floats THEN Some(IF a.type \in Floats THEN Narrowed(t, a.data[r]) ELSE ToFloat(t, a.data[r]))
      ELSE Some(IF a.type \in Floats THEN Truncated(t, a.data[r]) ELSE Wrap(t, a.data[r]))
GetF64Unchecked(v, i) == Reading("Float64", v, i, {})
GetF32Unchecked(v, i) == Reading("Float32", v, i, {})
GetI64Unchecked(v, i) == Reading("Int64", v, i, Datetimes)
GetI32Unchecked(v, i) == Reading("Int32", v, i, Datetimes)
GetU64Unchecked(v, i) == Reading("UInt64", v, i, {})
GetU32Unchecked(v, i) == Reading("UInt32", v, i, {})
GetF64(v, i) == IF Within(v, i) THEN Reading("Float64", v, i, {}) ELSE None
GetF32(v, i) == IF Within(v, i) THEN Reading("Float32", v, i, {}) ELSE None
GetI64(v, i) == IF Within(v, i) THEN Reading("Int64", v, i, Datetimes) ELSE None
GetI32(v, i) == IF Within(v, i) THEN Reading("Int32", v, i, Datetimes) ELSE None
GetU64(v, i) == IF Within(v, i) THEN Reading("UInt64", v, i, {}) ELSE None
GetU32(v, i) == IF Within(v, i) THEN Reading("UInt32", v, i, {}) ELSE None
GetBool(v, i) ==
  IF Within(v, i) /\ v.array.type = "Boolean" /\ Valid(v.array, v.off + i + 1) THEN Some(v.array.data[v.off + i + 1]) ELSE None
ViewStr(v, i)          == IF Within(v, i) THEN GetStr(v.array, v.off + i + 1) ELSE None
ViewStrUnchecked(v, i) == GetStrUnchecked(v.array, v.off + i + 1)
ViewScalar(v, i)       == IF Within(v, i) THEN GetScalar(v.array, v.off + i + 1) ELSE None

(* NumCast: a float loses its fraction and is not saturated.  Rows that    *)
(* are null are taken like any other; a null boolean is zero.              *)
ToTypedVec(t, v) ==
  LET a == v.array
      cast(x) == IF t \in Floats THEN Some(IF a.type \in Floats THEN Narrowed(t, x) ELSE ToFloat(t, x))
                 ELSE IF a.type \in Floats THEN IF Finite(x) THEN TryFrom(t, TowardsZero(Quarters(x), 4)) ELSE None
                 ELSE TryFrom(t, x)
      bit(r) == Bit(Valid(a, r) /\ a.data[r])
      out == [i \in 1..v.len |-> CASE a.type = "Boolean" -> Some(IF t \in Floats THEN Num(4 * bit(v.off + i)) ELSE bit(v.off + i))
                                   [] a.type \in Ints \cup Floats \cup Decimals -> cast(a.data[v.off + i])
                                   [] OTHER -> None]
  IN  IF (a.type \notin Ints \cup Floats \cup Decimals \cup {"Boolean"}) \/ \E i \in 1..v.len : out[i] = None THEN Error
      ELSE Arr(t, [i \in 1..v.len |-> out[i][2]], <<>>)

-----------------------------------------------------------------------------
(* What casts may give.  Rows stay where they are, a null stays a null,    *)
(* and a value is the number it was, or what is left of it.                *)

CellOf(a, i) == IF a.type \in Decimals THEN <<a.type, a.data[i], a.scale>>
                ELSE IF a.type \in Strings THEN <<"String32", StringOf(a, i)>> ELSE <<a.type, a.data[i]>>
Refused(r)     == r.type \in {"error", "panic"}
SameRows(a, r) == Len(r.data) = Len(a.data) /\ \A i \in Rows(a) : Valid(r, i) = Valid(a, i)
Numbers(a)     == a.type \in Ints \cup Floats \cup Decimals
Unscaled(a)    == a.type \in Decimals /\ a.scale < 0      \* its scale is left off
LosesSign(a, t, i) == (a.type \in {"Int8", "Int16"} \/ (a.type = "Int32" /\ t = "UInt64")) /\ a.data[i] < 0
WholeOf(a, i)  == TowardsZero(Number(CellOf(a, i)), 4)
Lacks(t, a, i) == ~IsNumber(CellOf(a, i)) \/ (IF Unscaled(a) THEN ~InRange(t, a.data[i]) ELSE ~InRange(t, WholeOf(a, i)))

(* An integer array: refused when the type lacks a value, under a null     *)
(* too.  Only a sign that a widening drops, and a float that is one past   *)
(* the greatest, are not refused.                                          *)
BecomesInt(t, a, r) ==
  /\ Refused(r) => ~Numbers(a) \/ \E i \in Rows(a) : Lacks(t, a, i)
  /\ ~Refused(r) =>
       /\ SameRows(a, r) /\ r.type = t
       /\ \A i \in Rows(a) :
            \/ Unscaled(a) /\ r.data[i] = a.data[i]
            \/ r.data[i] = WholeOf(a, i)
            \/ LosesSign(a, t, i) /\ r.data[i] = Wrap(t, a.data[i])
            \/ a.type \in Floats /\ r.data[i] = Hi[t] /\ ToFloat(a.type, Hi[t]) = a.data[i]
(* A float array: the nearest, never refused.  A decimal is rounded before *)
(* its scale is taken off, and through f64.                                *)
BecomesFloat(t, a, r) ==
  IF ~Numbers(a) THEN r = Error
  ELSE /\ SameRows(a, r) /\ r.type = t
       /\ \A i \in Rows(a) :
            IF ~IsNumber(CellOf(a, i)) THEN r.data[i] = a.data[i]
            ELSE Quarters(r.data[i]) \in {RoundTo(Mantissa[t], Number(CellOf(a, i))), RoundTo(Mantissa[t], RoundTo(Mantissa["Float64"], Number(CellOf(a, i))))}
BecomesText(a, r) ==
  ~Refused(r) => SameRows(a, r) /\ \A i \in Rows(a) : r.data[i] = TryStr(CellOf(a, i))[2]
BecomesBool(a, r) ==
  ~Refused(r) => SameRows(a, r) /\ \A i \in Rows(a) : Some(r.data[i]) = TryBool(CellOf(a, i))
BecomesDecimal(t, a, r) ==
  /\ ~Refused(r) => SameRows(a, r) /\ r.scale = a.scale /\ r.data = a.data
  /\ Refused(r) => a.type \notin Decimals \/ Hi[a.type] > Hi[t]
NumericCasts(a) ==
  /\ BecomesInt("Int32", a, TryI32Array(a)) /\ BecomesInt("Int64", a, TryI64Array(a))
  /\ BecomesInt("UInt32", a, TryU32Array(a)) /\ BecomesInt("UInt64", a, TryU64Array(a))
  /\ BecomesFloat("Float32", a, TryF32Array(a)) /\ BecomesFloat("Float64", a, TryF64Array(a))
  /\ a.type # "NoNumber" => CowIntoF64(a) = TryF64Array(a)
  /\ BecomesBool(a, TryBoolArray(a)) /\ BecomesText(a, TryStrArray(a))
  /\ BecomesDecimal("Decimal32", a, TryDec32(a)) /\ BecomesDecimal("Decimal64", a, TryDec64(a))
  /\ BecomesDecimal("Decimal128", a, TryDec128(a))

(* Decimals of their own: to another scale and back, from integers, and    *)
(* between widths.                                                         *)
DecimalCasts(a) ==
  a.type \in Decimals =>
    /\ \A s \in -1..3 :
         LET r == Rescale(a, s)
         IN  /\ r = Error => \E i \in Rows(a) : ~InRange(a.type, a.data[i] * Ten(Above(s - a.scale)))
             /\ r # Error => SameRows(a, r) /\ r.scale = s
             /\ r # Error /\ s >= a.scale => \A i \in Rows(a) : Number(CellOf(r, i)) = Number(CellOf(a, i))
             /\ r # Error /\ s >= a.scale => Rescale(r, a.scale) = a
    /\ a.scale >= 0 => LET whole == ToInt64(a) back == FromIntegerArray(a.type, whole, a.scale)
                       IN  ~Refused(whole) /\ ~Refused(back) =>
                             \A i \in Rows(a) : back.data[i] = a.data[i] - (IF a.data[i] < 0 THEN -((-a.data[i]) % Ten(a.scale)) ELSE a.data[i] % Ten(a.scale))
    /\ BecomesInt("Int64", a, ToInt64(a)) /\ BecomesInt("Int32", a, ToInt32(a))
    /\ BecomesInt("UInt64", a, ToUint64(a)) /\ BecomesInt("UInt32", a, ToUint32(a))
    /\ BecomesFloat("Float64", a, ToFloat64(a)) /\ BecomesFloat("Float32", a, ToFloat32(a))
    /\ \A t \in Decimals : LET r == DecimalNarrow(t, a)
                           IN  IF r = Error THEN \E i \in Rows(a) : ~InRange(t, a.data[i]) ELSE DecimalNarrow(a.type, r) = a

(* Texts keep every string, null or not, through dictionaries and back;    *)
(* only codes that do not fit are refused.                                 *)
TextCasts(a) ==
  a.type \in Strings =>
    LET strings == [i \in Rows(a) |-> StringOf(a, i)]
        distinct == {strings[i] : i \in Rows(a)}
        kept(r) == SameRows(a, r) /\ \A i \in Rows(a) : StringOf(r, i) = strings[i]
    IN  /\ kept(TryStr32(a)) /\ kept(TryStr64(a))
        /\ \A r \in {TryCat8(a), TryCat16(a), TryCat32(a), TryCat64(a)} :
             IF Refused(r) THEN \E t \in Categoricals : Cardinality(distinct \cup {a.values[k] : k \in DOMAIN a.values}) > CodeHi[t] + 1
             ELSE kept(r)
        /\ a.type \in Texts => \A from \in 0..Len(a.data), n \in 0..Len(a.data) :
             LET r == StringToCat("Categorical64", a, from, n)
             IN  IF from + n > Len(a.data) THEN r = Error
                 ELSE Len(r.data) = n /\ \A i \in 1..n : StringOf(r, i) = strings[from + i] /\ Valid(r, i) = Valid(a, from + i)
DatetimeCasts(a) ==
  a.type \in Datetimes =>
    LET to32 == TryDt32Array(a)  to64 == TryDt64Array(a)
    IN  /\ to64.data = a.data /\ to64.mask = a.mask
        /\ a.type = "Datetime32" => TryDt32Array(to64) = a
        /\ to32 # Error => to32.data = a.data /\ SameRows(a, to32)
        /\ to32 = Error => a.dtype \in {"Date64", "Timestamp"} \/ \E i \in Rows(a) : ~InRange("Int32", a.data[i])

(* Array's own casts: the rows of a type they have are all there.          *)
AnyCasts(a) ==
  LET n == ArrayNum(a)  s == ArrayStr(a)  b == ArrayBool(a)  d == ArrayDt(a)
      wide == IF a.type \in {"String64", "Categorical64"} THEN "Int64" ELSE "Int32"
  IN  /\ TryNum(a) = Expected(n) \/ a.type = "Null"
      /\ ~Refused(n) /\ n.type # "NoNumber" =>
           /\ Len(n.data) = Len(a.data)
           /\ a.type \in Strings => \A i \in Rows(a) : Valid(n, i) <=> Valid(a, i) /\ ParseInt(wide, StringOf(a, i)) # None
           /\ a.type \notin Strings => SameRows(a, n)
           /\ \A i \in Rows(a) : Valid(n, i) => CellOf(n, i) = CellOf(a, i) \/ Number(CellOf(n, i)) = Number(CellOf(a, i))
      /\ ~Refused(s) /\ s.type # "NoText" =>
           /\ Len(s.data) = Len(a.data)
           /\ a.type \in {"Boolean"} \cup Datetimes \/ SameRows(a, s)
           /\ \A i \in Rows(a) : Valid(a, i) => Some(StringOf(s, i)) = TryStr(CellOf(a, i))
      /\ ~Refused(b) /\ Len(b.data) > 0 =>
           /\ SameRows(a, b)
           /\ \A i \in Rows(a) : Valid(b, i) /\ a.type \notin Datetimes /\ TryBool(CellOf(a, i)) # None => Some(b.data[i]) = TryBool(CellOf(a, i))
      /\ ~Refused(d) /\ d.type # "NoDatetime" =>
           /\ Len(d.data) = Len(a.data)
           /\ a.type # "String32" => SameRows(a, d)
           /\ \A i \in Rows(a) : Valid(d, i) => d.data[i] = (IF a.type \in Floats THEN Truncated("Int64", a.data[i]) ELSE Wrap("Int64", WholeOf(a, i)))
           /\ a.type \in Wides \cap Ints => ArrayNum(d).data = [i \in Rows(a) |-> Wrap("Int64", a.data[i])]

(* Unifying a batch gives every row of it, or as many nulls; the dtype of  *)
(* a datetime is the one its width has, not always the one asked for.      *)
Unifies(a, type) ==
  \A r \in {CheckUnifyBatchDtype(a, type)} :
      type[1] \notin {"Null", "Interval", "Categorical16", "Categorical64"} \/ TypeOf(a) = type =>
        /\ Len(r.data) = Len(a.data)
        /\ a.type \notin Datetimes => TypeOf(r) = type
        /\ Len(a.data) > 0 => \/ \A i \in Rows(a) : ~Valid(r, i)
                              \/ SameRows(a, r)
ArrayConverts(a) ==
  NumericCasts(a) /\ DecimalCasts(a) /\ TextCasts(a) /\ DatetimeCasts(a) /\ AnyCasts(a)

(* An array of scalars gives each scalar of its type back, and null where  *)
(* it was null.  A number of another type is the nearest the type has.     *)
ScalarsComeBack(xs) ==
  \A r \in {FromScalars(xs)} :
    ~Refused(r) /\ r.type # "Null" => \A i \in DOMAIN xs :
        \A y \in {GetScalar(r, i)[2]} :
            /\ xs[i][1] = "Null" <=> y[1] = "Null"
            /\ xs[i][1] = r.type => y[2] = xs[i][2]
            /\ xs[i][1] \in Texts /\ r.type \in Texts => y[2] = xs[i][2]
            /\ r.type \in Ints /\ xs[i][1] \in Ints \ {r.type} => y[2] = Clamp(r.type, Quarters(ToFloat("Float64", xs[i][2])) \div 4)
            /\ r.type = "Float64" /\ xs[i][1] # "Null" => Some(y[2]) = F64(xs[i])
OneScalar(x) ==
  LET a == ScalarToArray(x)
  IN  x[1] \notin Nothings =>
        /\ ArrayToScalar(a) = Some(x) /\ FromScalars(<<x>>) = a /\ TypeOf(a) = ArrowType(x)
        /\ \A n \in 0..2 : LET r == ArrayFromValue(x, n) IN Len(r.data) = n /\ \A i \in 1..n : GetScalar(r, i) = Some(x)

(* Elements are in one order, the equal ones hash alike and compare as     *)
(* equal, but for the two zeros, which the order tells apart.              *)
Elements(a, b) ==
  /\ \A i \in Rows(a), j \in Rows(a) :
       /\ CompareAt(a, i, j) = -CompareAt(a, j, i)
       /\ CompareAt(a, i, j) = 0 => ValueEq(a, i, a, j)
       /\ ValueEq(a, i, a, j) => CompareAt(a, i, j) = 0 \/ (a.type \in Floats /\ Quarters(a.data[i]) = 0)
       /\ \A k \in Rows(a) : CompareAt(a, i, j) <= 0 /\ CompareAt(a, j, k) <= 0 => CompareAt(a, i, k) <= 0
  /\ \A i \in Rows(a), j \in Rows(b) :
       /\ ValueEq(a, i, b, j) = ValueEq(b, j, a, i)
       /\ ValueEq(a, i, b, j) => HashElementAt(a, i) = HashElementAt(b, j)
       /\ a.type = b.type /\ HashElementAt(a, i) = HashElementAt(b, j) => ValueEq(a, i, b, j)

(* A view reads the rows of its window: what the array of them reads, and  *)
(* with a check what it reads without one.                                 *)
ViewReads(v) ==
  LET a == v.array
      whole == [array |-> [a EXCEPT !.data = SubSeq(a.data, v.off + 1, v.off + v.len),
                                    !.mask = IF a.mask = <<>> THEN <<>> ELSE SubSeq(a.mask, v.off + 1, v.off + v.len)],
                off |-> 0, len |-> v.len]
      ints == {<<"Int64", GetI64(v, i), i>> : i \in 0..v.len} \cup {<<"Int32", GetI32(v, i), i>> : i \in 0..v.len}
                \cup {<<"UInt64", GetU64(v, i), i>> : i \in 0..v.len} \cup {<<"UInt32", GetU32(v, i), i>> : i \in 0..v.len}
  IN  /\ \A i \in 0..v.len - 1 :
           /\ GetF64(v, i) = GetF64Unchecked(v, i) /\ GetF32(v, i) = GetF32Unchecked(v, i)
           /\ GetI64(v, i) = GetI64Unchecked(v, i) /\ GetI32(v, i) = GetI32Unchecked(v, i)
           /\ GetU64(v, i) = GetU64Unchecked(v, i) /\ GetU32(v, i) = GetU32Unchecked(v, i)
           /\ ViewStr(v, i) = ViewStrUnchecked(v, i)
           /\ GetF64(v, i) = GetF64(whole, i) /\ ViewScalar(v, i) = ViewScalar(whole, i) /\ GetBool(v, i) = GetBool(whole, i)
      /\ \A g \in ints : g[2] # None =>
           /\ g[3] < v.len /\ Valid(a, v.off + g[3] + 1)
           /\ a.type \in Floats => g[2][2] = Truncated(g[1], a.data[v.off + g[3] + 1])
           /\ a.type \notin Floats => (g[2][2] - a.data[v.off + g[3] + 1]) % (Hi[g[1]] - Lo[g[1]] + 1) = 0
      /\ GetF64(v, v.len) = None /\ ViewStr(v, v.len) = None /\ ViewScalar(v, v.len) = None /\ GetBool(v, v.len) = None
      /\ \A t \in Wides : ToTypedVec(t, v) = ToTypedVec(t, whole)
      /\ a.type \in Ints => LET r == ToTypedVec("Int64", v) IN ~Refused(r) => \A i \in 1..v.len : r.data[i] = a.data[v.off + i]
=============================================================================
