------------------------------- MODULE Scalars -------------------------------
(***************************************************************************)
(* Scalar (src/enums/scalar.rs): what a value becomes as another type, in  *)
(* the methods that panic and in the try_ methods that return None, which  *)
(* are written apart from each other, and arithmetic between two of them.  *)
(*                                                                         *)
(* A scalar is <<type, v>>, a decimal <<type, v, scale>>.  The widths are  *)
(* small, in the order of the real ones; ten is two, so that a scale       *)
(* counts halvings.  A float is <<"num", q>>, q quarters, of a mantissa of *)
(* Mantissa[type] bits, or one of the values that are no number.  A text   *)
(* is what parsing makes of it: [reads, kind, n].                          *)
(***************************************************************************)
EXTENDS Integers, Sequences

Lo == [Int8 |-> -2, Int16 |-> -4, Int32 |-> -8, Int64 |-> -64, UInt8 |-> 0, UInt16 |-> 0, UInt32 |-> 0, UInt64 |-> 0,
       Decimal32 |-> -8, Decimal64 |-> -64, Decimal128 |-> -256]
Hi == [Int8 |-> 1, Int16 |-> 3, Int32 |-> 7, Int64 |-> 63, UInt8 |-> 3, UInt16 |-> 7, UInt32 |-> 15, UInt64 |-> 127,
       Decimal32 |-> 7, Decimal64 |-> 63, Decimal128 |-> 255]
Mantissa == [Float32 |-> 3, Float64 |-> 5]

Ints      == {"Int8", "Int16", "Int32", "Int64", "UInt8", "UInt16", "UInt32", "UInt64"}
Floats    == {"Float32", "Float64"}
Decimals  == {"Decimal32", "Decimal64", "Decimal128"}
Texts     == {"String32", "String64"}
Datetimes == {"Datetime32", "Datetime64"}
Nothings  == {"Null", "Interval"}

Some(v) == <<"some", v>>
None    == <<"none", 0>>
Panic   == <<"panic", 0>>
Expect(o) == IF o = None THEN Panic ELSE o

-----------------------------------------------------------------------------
(* What Rust's own conversions do.                                         *)

InRange(t, n) == Lo[t] <= n /\ n <= Hi[t]
TryFrom(t, n) == IF InRange(t, n) THEN Some(n) ELSE None
Clamp(t, n)   == IF n < Lo[t] THEN Lo[t] ELSE IF n > Hi[t] THEN Hi[t] ELSE n
Wrap(t, n)    == Lo[t] + ((n - Lo[t]) % (Hi[t] - Lo[t] + 1))
TowardsZero(a, b) == IF a < 0 THEN -((-a) \div b) ELSE a \div b

(* To P bits, ties to even; q may be of any size. *)
Spare(P, size) == CHOOSE k \in 0..12 : size < 2^(P + k) /\ (k = 0 \/ size >= 2^(P + k - 1))   \* bits beyond P
NearestEven(size, unit) == ((2 * size + unit - (1 - ((size \div unit) % 2))) \div (2 * unit)) * unit
RoundSize(P, size) == NearestEven(size, 2^Spare(P, size))
RoundTo(P, q) == IF q < 0 THEN -RoundSize(P, -q) ELSE RoundSize(P, q)
Num(q)   == <<"num", q>>
NaN      == <<"nan", 0>>
NegZero  == <<"zero", -1>>
Inf(s)   == <<"inf", s>>
Finite(f) == f[1] \in {"num", "zero"}
Quarters(f) == IF f = NegZero THEN 0 ELSE f[2]
ToFloat(t, n) == Num(RoundTo(Mantissa[t], 4 * n))
Narrowed(t, f) == IF f[1] = "num" THEN Num(RoundTo(Mantissa[t], f[2])) ELSE f

(* The `as` cast of a float to an integer. *)
Truncated(t, f) ==
  CASE Finite(f) -> Clamp(t, TowardsZero(Quarters(f), 4))
    [] f = NaN   -> 0
    [] f = Inf(1)  -> Hi[t]
    [] f = Inf(-1) -> Lo[t]

Text(reads, kind, n) == [reads |-> reads, kind |-> kind, n |-> n]
ParseInt(t, s)   == IF s.kind = "int" /\ InRange(t, s.n \div 4) THEN Some(s.n \div 4) ELSE None
ParseFloat(t, s) == IF s.kind = "word" THEN None ELSE Some(Num(RoundTo(Mantissa[t], s.n)))
IntText(n)  == Text(IF n = 1 THEN "true" ELSE IF n = 0 THEN "false" ELSE "other", "int", 4 * n)
Bit(b) == IF b THEN 1 ELSE 0
BoolText(b) == Text(IF b THEN "true" ELSE "false", "word", Bit(b))
FloatText(f) ==
  IF ~Finite(f) THEN Text("other", "word", 0)
  ELSE IF Quarters(f) % 4 = 0 THEN IntText(Quarters(f) \div 4) ELSE Text("other", "frac", Quarters(f))

(* format_decimal_scalar: the digits with a point in them, or zeros behind *)
(* them.                                                                   *)
DecimalText(v, scale) ==
  CASE scale = 0 -> IntText(v)
    [] scale < 0 -> IntText(v * 2^(-scale))
    [] scale > 0 -> Text("other", "frac", (4 * v) \div 2^scale)

-----------------------------------------------------------------------------
(* The accessors.  A decimal gives an integer by its digits, its scale     *)
(* left off, and a float by its value.                                     *)

Reads(s) == IF s.reads = "true" THEN Some(TRUE) ELSE IF s.reads = "false" THEN Some(FALSE) ELSE None
NotZero(x) ==
  CASE x[1] = "Boolean"   -> Some(x[2])
    [] x[1] \in Nothings  -> None
    [] x[1] \in Texts     -> Reads(x[2])
    [] x[1] \in Floats    -> Some(~(x[2] \in {Num(0), NegZero}))
    [] OTHER              -> Some(x[2] # 0)
Bool(x)    == Expect(NotZero(x))
TryBool(x) == NotZero(x)

(* To 8 and 16 bits a float goes through i32. *)
Narrow(t, x) ==
  CASE x[1] \in Nothings  -> None
    [] x[1] = "Boolean"   -> Some(Bit(x[2]))
    [] x[1] \in Texts     -> ParseInt(t, x[2])
    [] x[1] \in Floats    -> TryFrom(t, Truncated("Int32", x[2]))
    [] OTHER              -> TryFrom(t, x[2])
Wide(t, x) == IF x[1] \in Floats THEN Some(Truncated(t, x[2])) ELSE Narrow(t, x)

I8(x)     == Expect(Narrow("Int8", x))
TryI8(x)  == Narrow("Int8", x)
I16(x)    == Expect(Narrow("Int16", x))
TryI16(x) == Narrow("Int16", x)
U8(x)     == Expect(Narrow("UInt8", x))
TryU8(x)  == Narrow("UInt8", x)
U16(x)    == Expect(Narrow("UInt16", x))
TryU16(x) == Narrow("UInt16", x)
I32(x)    == Expect(Wide("Int32", x))
TryI32(x) == Wide("Int32", x)
I64(x)    == Expect(Wide("Int64", x))
TryI64(x) == Wide("Int64", x)
U32(x)    == Expect(Wide("UInt32", x))
TryU32(x) == Wide("UInt32", x)

NotBelowZero(f) == (Finite(f) /\ Quarters(f) >= 0) \/ f = Inf(1)
TryU64(x) ==
  IF x[1] \in Floats THEN IF NotBelowZero(x[2]) THEN Some(Truncated("UInt64", x[2])) ELSE None
  ELSE Narrow("UInt64", x)
U64(x) == IF x[1] \in Datetimes THEN Some(Wrap("UInt64", x[2])) ELSE Expect(TryU64(x))

Real(t, x) ==
  CASE x[1] \in Nothings -> None
    [] x[1] = "Boolean"  -> Some(Num(4 * Bit(x[2])))
    [] x[1] \in Texts    -> ParseFloat(t, x[2])
    [] x[1] \in Floats   -> Some(Narrowed(t, x[2]))
    [] x[1] \in Decimals -> LET f == RoundTo(Mantissa[t], 4 * x[2])
                            IN  Some(Num(IF x[3] < 0 THEN f * 2^(-x[3]) ELSE f \div 2^x[3]))
    [] OTHER             -> Some(ToFloat(t, x[2]))
F32(x)    == Expect(Real("Float32", x))
TryF32(x) == Real("Float32", x)
F64(x)    == Expect(Real("Float64", x))
TryF64(x) == Real("Float64", x)

Shown(x) ==
  CASE x[1] \in Nothings -> None
    [] x[1] \in Texts    -> Some(x[2])
    [] x[1] = "Boolean"  -> Some(BoolText(x[2]))
    [] x[1] \in Floats   -> Some(FloatText(x[2]))
    [] x[1] \in Decimals -> Some(DecimalText(x[2], x[3]))
    [] OTHER             -> Some(IntText(x[2]))
Str(x)    == Expect(Shown(x))
TryStr(x) == Shown(x)
Display(x) == IF x[1] \in Nothings THEN Some(Text("other", "word", 0)) ELSE Shown(x)

(* dt32 and dt64 give a datetime as an unsigned count.                     *)
(* The greatest u32 is rounded to the float it is compared with. *)
FitsDt32(x) == NotBelowZero(x[2]) /\ x[2] # Inf(1) /\ Quarters(x[2]) <= RoundTo(Mantissa[x[1]], 4 * Hi["UInt32"])
TryDt32(x) ==
  CASE x[1] \in Decimals -> None
    [] x[1] \in Floats   -> IF FitsDt32(x) THEN Some(Truncated("UInt32", x[2])) ELSE None
    [] OTHER             -> Narrow("UInt32", x)
Dt32(x) ==
  IF x[1] = "Datetime64" THEN IF x[2] <= Hi["UInt32"] THEN Some(Wrap("UInt32", x[2])) ELSE Panic
  ELSE Expect(TryDt32(x))
TryDt64(x) ==
  CASE x[1] \in Decimals    -> None
    [] x[1] = "Datetime32"  -> Some(Wrap("UInt64", x[2]))
    [] x[1] \in Floats      -> TryU64(x)
    [] OTHER                -> Narrow("UInt64", x)
Dt64(x) == Expect(TryDt64(x))

-----------------------------------------------------------------------------
(* Equality and what is hashed.                                            *)

Equals(x, y) ==
  /\ x[1] = y[1]
  /\ CASE x[1] \in Nothings -> TRUE
       [] x[1] \in Floats   -> IF x[2] = NaN THEN y[2] = NaN
                               ELSE x[2] = y[2] \/ (Finite(x[2]) /\ Finite(y[2]) /\ Quarters(x[2]) = Quarters(y[2]))
       [] OTHER             -> x = y
BitsOfFloat(x) ==  \* a mutant: zeros of either sign keep their bits
  CASE x[1] \in Nothings -> <<x[1]>> [] OTHER -> x
Hashed(x) ==
  CASE x[1] \in Nothings -> <<x[1]>>
    [] x[1] \in Floats   -> <<x[1], IF Finite(x[2]) THEN Num(Quarters(x[2])) ELSE x[2]>>
    [] OTHER             -> x

-----------------------------------------------------------------------------
(* Arithmetic.  The first type of the list that either operand has is the  *)
(* type of the result, and the other operand is taken as that type.  Wide  *)
(* integers overflow: a panic or a wrapped value, as the build decides.    *)
(* Floats and texts are terms, the expression they were computed by.       *)

Overflow == <<"overflow", 0>>
Exactly(t, n)  == IF InRange(t, n) THEN <<t, n>> ELSE Overflow
Wrapping(t, n) == <<t, Wrap(t, n)>>
Small == {"Int8", "Int16", "UInt8", "UInt16"}

IntOf(t, x) ==
  CASE t = "Int8"   -> I8(x)  [] t = "Int16"  -> I16(x) [] t = "UInt8"  -> U8(x)  [] t = "UInt16" -> U16(x)
    [] t = "Int32"  -> I32(x) [] t = "Int64"  -> I64(x) [] t = "UInt32" -> U32(x) [] t = "UInt64" -> U64(x)
FloatOf(t, x) == IF t = "Float32" THEN F32(x) ELSE F64(x)

FirstOf(types, x, y) ==
  LET at == {i \in DOMAIN types : types[i] \in {x[1], y[1]}}
  IN  IF at = {} THEN "" ELSE types[CHOOSE i \in at : \A j \in at : i <= j]
Numeric == <<"Null", "Decimal32", "Decimal64", "Decimal128", "Float64", "Float32", "Int64", "Int32", "UInt64", "UInt32", "Boolean">>
LastOnes == <<"Int8", "Int16", "UInt8", "UInt16">>

Term(t, op, a, b) == IF Panic \in {a, b} THEN Panic ELSE <<t, <<op, a[2], b[2]>>>>
FloatOp(t, op, x, y) == Term(t, op, FloatOf(t, x), FloatOf(t, y))
Power(a, b) == IF b = 0 THEN 1 ELSE a^b
Applied(op, a, b) ==
  CASE op = "add" -> a + b [] op = "sub" -> a - b [] op = "mul" -> a * b [] op = "pow" -> Power(a, b)
Counted(t, op, a, b) ==
  CASE Panic \in {a, b} -> Panic
    [] t \in Small      -> Wrapping(t, Applied(op, a[2], b[2]))
    [] OTHER            -> Exactly(t, Applied(op, a[2], b[2]))
IntOp(t, op, x, y) == Counted(t, op, IntOf(t, x), IntOf(t, y))

(* Decimals end in f64, booleans in i32, a datetime stays what it is.      *)
Computed(t) == IF t \in {"Boolean", "Datetime32"} THEN "Int32" ELSE IF t = "Datetime64" THEN "Int64" ELSE t
Moment(t, r) == IF t \in Datetimes /\ r[1] \in Ints THEN <<t, r[2]>> ELSE r
Calculated(t, op, x, y) ==
  CASE t = "Null"                -> <<"Null", 0>>
    [] t = "Interval"            -> Panic
    [] t \in Decimals \cup Floats -> FloatOp(IF t \in Decimals THEN "Float64" ELSE t, op, x, y)
    [] OTHER                     -> Moment(t, IntOp(Computed(t), op, x, y))
Joined(op, t, x, y) == Term(t, op, Str(x), Str(y))
TextType(x, y) == IF {x[1], y[1]} = {"String32"} THEN "String32" ELSE "String64"

(* A number of 32 bits or more reads the text beside it; otherwise a       *)
(* String32 joins what it meets, and a String64 is read.                   *)
Add(x, y) ==
  LET t == FirstOf(Numeric, x, y)
  IN  IF t # "" THEN Calculated(t, "add", x, y)
      ELSE IF "String32" \in {x[1], y[1]} THEN Joined("join", "String32", x, y)
      ELSE IF x[1] = "String64" /\ y[1] = "String64" THEN Joined("join", "String64", x, y)
      ELSE Calculated(FirstOf(<<"Datetime32", "Datetime64", "Interval">> \o LastOnes, x, y), "add", x, y)
Sub(x, y) ==
  LET t == FirstOf(Numeric \o <<"Datetime32", "Datetime64", "Interval">> \o LastOnes, x, y)
  IN  IF t = "" THEN Joined("without", TextType(x, y), x, y) ELSE Calculated(t, "sub", x, y)
Mul(x, y) ==
  LET t == FirstOf(Numeric \o <<"Datetime32", "Datetime64", "Interval">> \o LastOnes, x, y)
  IN  IF t = "" THEN Joined("each line", TextType(x, y), x, y)
      ELSE IF t \in Datetimes THEN Panic ELSE Calculated(t, "mul", x, y)

(* The exponent of an integer is a u32, and the base keeps its type.       *)
IntPow(t, x, y) == Counted(t, "pow", IntOf(t, x), U32(y))
Pow(x, y) ==
  LET types == {x[1], y[1]}
  IN  CASE "Null" \in types                      -> <<"Null", 0>>
        [] types \cap Decimals # {}              -> FloatOp("Float64", "pow", x, y)
        [] types \cap (Datetimes \cup {"Interval"}) # {} -> Panic
        [] "Boolean" \in types                   -> IntPow("Int32", x, y)
        [] types \subseteq Texts                 -> Joined("each word", TextType(x, y), x, y)
        [] types \cap Texts # {}                 -> FloatOp("Float64", "pow", x, y)
        [] types \cap Floats # {}                -> FloatOp(FirstOf(<<"Float64", "Float32">>, x, y), "pow", x, y)
        [] OTHER                                 -> IntPow(x[1], x, y)

-----------------------------------------------------------------------------
(* What a conversion may give: the number itself when the type has it, and *)
(* otherwise nothing, or what is left without its fraction, or the nearest.*)

IsNumber(x) ==
  /\ x[1] \notin Nothings
  /\ x[1] \in Floats => Finite(x[2])
  /\ x[1] \in Texts => x[2].kind # "word"
Number(x) ==
  CASE x[1] = "Boolean"  -> 4 * Bit(x[2])
    [] x[1] \in Floats   -> Quarters(x[2])
    [] x[1] \in Texts    -> x[2].n
    [] x[1] \in Decimals -> IF x[3] < 0 THEN 4 * x[2] * 2^(-x[3]) ELSE (4 * x[2]) \div 2^x[3]
    [] OTHER             -> 4 * x[2]
TryIntOf(t, x) ==
  CASE t = "Int8"   -> TryI8(x)  [] t = "Int16"  -> TryI16(x) [] t = "UInt8"  -> TryU8(x)  [] t = "UInt16" -> TryU16(x)
    [] t = "Int32"  -> TryI32(x) [] t = "Int64"  -> TryI64(x) [] t = "UInt32" -> TryU32(x) [] t = "UInt64" -> TryU64(x)

TakesExactly(t, x, given) ==
  LET whole == TowardsZero(Number(x), 4)
      has == Number(x) = 4 * whole /\ InRange(t, whole)
      read == x[1] \in Texts => x[2].kind = "int"
  IN  IF ~IsNumber(x) THEN given # None => x[1] \in Floats /\ given[2] = Truncated(t, x[2])
      ELSE IF x[1] \in Decimals THEN given # None => given = Some(x[2])   \* the scale is left off
      ELSE /\ has /\ read => given = Some(whole)
           /\ given # None => given[2] = whole \/ (x[1] \in Floats /\ given[2] = Clamp(t, whole))

(* Below zero a datetime of the other width wraps, where try_ gives None.  *)
WrapsBelowZero(x) == x[1] \in Datetimes /\ x[2] < 0
TakenAsInt(t, x) ==
  /\ TakesExactly(t, x, TryIntOf(t, x))
  /\ (t = "UInt64" /\ WrapsBelowZero(x)) \/ IntOf(t, x) = Expect(TryIntOf(t, x))
TakenAsDatetime(x) ==
  /\ x[1] \in Decimals \/ TakesExactly("UInt32", x, TryDt32(x))
  /\ x[1] \in Decimals \/ WrapsBelowZero(x) \/ TakesExactly("UInt64", x, TryDt64(x))
  /\ WrapsBelowZero(x) \/ (Dt32(x) = Expect(TryDt32(x)) /\ Dt64(x) = Expect(TryDt64(x)))
TakenAsFloat(t, x) ==
  LET given == Real(t, x)
  IN  /\ IsNumber(x) => given # None /\ Quarters(given[2]) = RoundTo(Mantissa[t], Number(x))
      /\ ~IsNumber(x) => IF x[1] \in Floats THEN given = Some(x[2]) ELSE given = None

(* Shown and read again it is the same, and as a truth it is what its      *)
(* number is.                                                              *)
ReadBack(x) ==
  LET text == TryStr(x)
  IN  /\ x[1] \in Ints => ParseInt(x[1], text[2]) = Some(x[2])
      /\ x[1] \in Floats /\ Finite(x[2]) => ParseFloat(x[1], text[2]) = Some(Num(Quarters(x[2])))
      /\ x[1] \in Decimals => text[2].n = Number(x)
      /\ IsNumber(x) /\ x[1] \notin Texts => TryBool(x) = Some(Number(x) # 0) \/ (x[1] \in Decimals /\ Number(x) = 0)
      /\ x[1] = "Boolean" => TryBool(<<"String32", text[2]>>) = Some(x[2])
ScalarConverts(x) ==
  /\ \A t \in Ints : TakenAsInt(t, x)
  /\ \A t \in Floats : TakenAsFloat(t, x)
  /\ TakenAsDatetime(x) /\ ReadBack(x)

-----------------------------------------------------------------------------
(* What arithmetic may give.                                               *)

Operate(op, x, y) ==
  CASE op = "add" -> Add(x, y) [] op = "sub" -> Sub(x, y) [] op = "mul" -> Mul(x, y) [] op = "pow" -> Pow(x, y)
Countable == Ints \cup Datetimes \cup {"Boolean"}
Width(t) == IF t = "Datetime32" THEN "Int32" ELSE IF t = "Datetime64" THEN "Int64" ELSE t
Failed(r) == r \in {Panic, Overflow}

CountsExactly(r, op, x, y) ==
  {x[1], y[1]} \subseteq Countable /\ ~Failed(r) /\ ~(r[1] = "UInt64" /\ (WrapsBelowZero(x) \/ WrapsBelowZero(y))) =>
    /\ r[2] = Wrap(Width(r[1]), Applied(op, Number(x) \div 4, Number(y) \div 4))
    /\ r[1] \in Small \/ r[2] = Applied(op, Number(x) \div 4, Number(y) \div 4)
KeepsSides(r, op, x, y) ==
  r[1] \in Floats => r[2] = <<op, FloatOf(r[1], x)[2], FloatOf(r[1], y)[2]>>
TakesEitherOrder(r, s) == r[1] = s[1] \/ (Failed(r) /\ Failed(s))
ScalarOperates(op, x, y) ==
  \A r \in {Operate(op, x, y)} :
    /\ "Null" \in {x[1], y[1]} => r = <<"Null", 0>>
    /\ CountsExactly(r, op, x, y) /\ KeepsSides(r, op, x, y)
    /\ op \in {"add", "mul"} => TakesEitherOrder(r, Operate(op, y, x))
SameHash(x, y) == Equals(x, y) <=> Hashed(x) = Hashed(y)
=============================================================================
