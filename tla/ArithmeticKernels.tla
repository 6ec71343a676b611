-------------------------- MODULE ArithmeticKernels --------------------------
(***************************************************************************)
(* The element-wise kernels of src/kernels/arithmetic (std.rs, simd.rs and *)
(* the dispatch between them in dispatch.rs), row by row.  An integer type *)
(* is [lo, hi, exps]: its range and the largest exponent that fits u32.  A *)
(* float is a term, the expression it was computed by.                     *)
(*                                                                         *)
(* A kernel gives the sequence of what became of its rows: a value, a null *)
(* or a panic, and panics when one of them did.  A mask is a sequence of   *)
(* Booleans, the empty one when no mask was given.                         *)
(***************************************************************************)
EXTENDS Integers, Sequences

Value(v)  == <<"value", v>>
Null      == <<"null", 0>>
Panic     == <<"panic", 0>>
Undefined == <<"undefined", 0>>   \* a divisor of zero, an exponent no u32 holds
Refused   == <<"error">>          \* the Err of a call

OrNull(row)  == IF row = Undefined THEN Null ELSE row
OrPanic(row) == IF row = Undefined THEN Panic ELSE row

NoMask == <<>>
AllTrue(mask) == \A i \in DOMAIN mask : mask[i]

-----------------------------------------------------------------------------
(* Integers.                                                               *)

Wrap(t, n) == t.lo + ((n - t.lo) % (t.hi - t.lo + 1))

Magnitude(x) == IF x < 0 THEN -x ELSE x
Quotient(x, y) ==
  LET q == Magnitude(x) \div Magnitude(y) IN IF (x < 0) # (y < 0) THEN -q ELSE q
Remainder(x, y) == x - y * Quotient(x, y)

(* By squaring, every product wrapped.                                     *)
WrappingPow(t, base, exp) ==
  LET pow[b \in t.lo..t.hi, e \in 0..exp] ==
        IF e = 0 THEN 1
        ELSE Wrap(t, (IF e % 2 = 1 THEN b ELSE 1) * pow[Wrap(t, b * b), e \div 2])
  IN  pow[base, exp]

Overflows(t, x, y) == x = t.lo /\ y = -1

Floored(x, y) ==
  LET d == Quotient(x, y) IN IF Remainder(x, y) # 0 /\ (x < 0) # (y < 0) THEN d - 1 ELSE d

IntRow(t, op, x, y) ==
  CASE op = "Add"      -> Value(Wrap(t, x + y))
    [] op = "Subtract" -> Value(Wrap(t, x - y))
    [] op = "Multiply" -> Value(Wrap(t, x * y))
    [] op = "Power"    -> IF y \in 0..t.exps THEN Value(WrappingPow(t, x, y)) ELSE Undefined
    [] y = 0           -> Undefined
    [] Overflows(t, x, y) -> Panic
    [] op = "Remainder"   -> Value(Remainder(x, y))
    [] op \in {"Divide", "FloorDiv"} -> Value(Floored(x, y))

(* A lane of a vector operation: the remainder of the one division that    *)
(* overflows is zero there, where the scalar one panics.                   *)
LaneRow(t, op, x, y) ==
  IF op = "Remainder" /\ Overflows(t, x, y) THEN Value(0) ELSE IntRow(t, op, x, y)

IntDenseStd(t, op, l, r) == [i \in DOMAIN l |-> OrPanic(IntRow(t, op, l[i], r[i]))]
IntMaskedStd(t, op, l, r, mask) ==
  [i \in DOMAIN l |-> IF mask[i] THEN OrNull(IntRow(t, op, l[i], r[i])) ELSE Null]

(* The rows that fill whole vectors; the scalar code does the others.      *)
Vectorised(n, lanes) == 1..((n \div lanes) * lanes)

IntDenseSimd(t, op, l, r, lanes) ==
  [i \in DOMAIN l |-> OrPanic(IF i \in Vectorised(Len(l), lanes) THEN LaneRow(t, op, l[i], r[i])
                              ELSE IntRow(t, op, l[i], r[i]))]

(* A vector is computed whole, rows under a null included, and the null    *)
(* rows are cleared afterwards.                                            *)
OnlyTheGivenMask(row, valid) ==  \* a mutant: a division by zero in a vector stays valid
  IF row = Panic THEN Panic ELSE IF ~valid THEN Null ELSE IF row = Undefined THEN Value(0) ELSE row
MaskedLane(row, valid) ==
  IF row = Panic THEN Panic ELSE IF valid THEN OrNull(row) ELSE Null
IntMaskedSimd(t, op, l, r, mask, lanes) ==
  [i \in DOMAIN l |-> IF i \in Vectorised(Len(l), lanes) THEN MaskedLane(LaneRow(t, op, l[i], r[i]), mask[i])
                      ELSE IF mask[i] THEN OrNull(IntRow(t, op, l[i], r[i])) ELSE Null]

(* lanes is 1 where the scalar code runs: without the simd feature, or on  *)
(* slices that are not aligned.                                            *)
ApplyInt(t, op, l, r, mask, lanes) ==
  CASE Len(l) # Len(r) -> Refused
    [] mask = NoMask   -> IF lanes > 1 THEN IntDenseSimd(t, op, l, r, lanes) ELSE IntDenseStd(t, op, l, r)
    [] OTHER           -> IF lanes > 1 THEN IntMaskedSimd(t, op, l, r, mask, lanes)
                          ELSE IntMaskedStd(t, op, l, r, mask)

ApplyIntInto(t, op, l, r, mask, lanes, room, outMask) ==
  IF Len(l) # Len(r) \/ Len(l) # room \/ (mask # NoMask /\ ~outMask) THEN Refused
  ELSE ApplyInt(t, op, l, r, mask, lanes)

(* Two scalars: what would panic or be undefined is an Err beforehand.     *)
ScalarChecked(t, op, x, y) ==
  IF IF op = "Power" THEN y \notin 0..t.exps ELSE y = 0 \/ Overflows(t, x, y) THEN Refused
  ELSE IntRow(t, op, x, y)

-----------------------------------------------------------------------------
(* Floats: no row is undefined, and no lane differs from the scalar code.  *)

FloatTerm(op, x, y) ==
  CASE op \in {"Add", "Subtract", "Multiply", "Divide", "Remainder"} -> <<op, x, y>>
    [] op = "Power"    -> <<"exp", <<"Multiply", y, <<"ln", x>>>>>>
    [] op = "FloorDiv" -> <<"floor", <<"Divide", x, y>>>>

FloatDense(op, l, r) == [i \in DOMAIN l |-> Value(FloatTerm(op, l[i], r[i]))]
(* A mask without a null takes the dense code and a mask filled with true. *)
FloatMasked(op, l, r, mask) ==
  IF AllTrue(mask) THEN FloatDense(op, l, r)
  ELSE [i \in DOMAIN l |-> IF mask[i] THEN Value(FloatTerm(op, l[i], r[i])) ELSE Null]
ApplyFloat(op, l, r, mask) ==
  CASE Len(l) # Len(r) -> Refused
    [] mask = NoMask   -> FloatDense(op, l, r)
    [] OTHER           -> FloatMasked(op, l, r, mask)
ApplyFloatInto(op, l, r, mask, room, outMask) ==
  IF Len(l) # Len(r) \/ Len(l) # room \/ (mask # NoMask /\ ~outMask) THEN Refused
  ELSE ApplyFloat(op, l, r, mask)

(* One rounding with vectors, two in the scalar fallback.                  *)
FmaTerm(x, y, acc, lanes) ==
  IF lanes > 1 THEN <<"mul_add", x, y, acc>> ELSE <<"Add", <<"Multiply", x, y>>, acc>>
ApplyFma(l, r, acc, mask, lanes) ==
  IF Len(l) # Len(r) \/ Len(l) # Len(acc) THEN Refused
  ELSE [i \in DOMAIN l |-> IF mask = NoMask \/ mask[i] THEN Value(FmaTerm(l[i], r[i], acc[i], lanes)) ELSE Null]

-----------------------------------------------------------------------------
(* Datetimes: a window <<array, offset, length>> of [data, mask].          *)

Rows(w) == [i \in 1..w[3] |-> w[1].data[w[2] + i]]
MergedFrom(a, b, n) ==
  IF a.mask = NoMask /\ b.mask = NoMask THEN NoMask
  ELSE [i \in 1..n |-> (a.mask = NoMask \/ a.mask[i]) /\ (b.mask = NoMask \/ b.mask[i])]

(* The masks are merged from their first bit on, wherever the windows are. *)
ApplyDatetime(t, op, l, r, lanes) ==
  IF l[3] # r[3] THEN Refused
  ELSE ApplyInt(t, op, Rows(l), Rows(r), MergedFrom(l[1], r[1], l[3]), lanes)

-----------------------------------------------------------------------------
(* Decimals (decimal.rs).  An array is [data, mask, precision, scale] over *)
(* an integer type [lo, hi, digits], whose digits are the precision its    *)
(* width can hold; row i is data[i] / 10^scale.  A call gives              *)
(* [rows, precision, scale]: it returns the rows, or the error or the panic*)
(* of the first row that met one.                                          *)

Failed == <<"error", 0>>   \* an overflow that a checked operation reported
Above(a, b) == IF a >= b THEN a ELSE b
Below(a, b) == IF a <= b THEN a ELSE b

Checked(t, n) == IF n \in t.lo..t.hi THEN Value(n) ELSE Failed
CheckedPow10(t, exp) ==
  IF exp >= 0 /\ \A e \in 0..exp : 10^e <= t.hi THEN Value(10^exp) ELSE Failed

IsMaskedNull(mask, i) == mask # NoMask /\ ~mask[i]
MergedMask(l, r) == MergedFrom(l, r, Len(l.data))

(* Both operands at the finer scale; the multiplication is checked.        *)
Raised(t, n, factor) == IF factor = Failed THEN Failed ELSE Checked(t, n * factor[2])
Rescaled(t, l, r, i) ==
  IF l.scale < r.scale THEN <<Raised(t, l.data[i], CheckedPow10(t, r.scale - l.scale)), Value(r.data[i])>>
  ELSE IF l.scale > r.scale THEN <<Value(l.data[i]), Raised(t, r.data[i], CheckedPow10(t, l.scale - r.scale))>>
  ELSE <<Value(l.data[i]), Value(r.data[i])>>

Result(rows, precision, scale) == [rows |-> rows, precision |-> precision, scale |-> scale]
Refusal == Result(<<>>, -1, 0)   \* the Err of a call that looks at no row

DecimalAddSub(t, op, l, r) ==
  Result([i \in DOMAIN l.data |->
            LET pair == Rescaled(t, l, r, i)
            IN  IF IsMaskedNull(MergedMask(l, r), i) THEN Null
                ELSE IF Failed \in {pair[1], pair[2]} THEN Failed
                ELSE Checked(t, IF op = "Add" THEN pair[1][2] + pair[2][2] ELSE pair[1][2] - pair[2][2])],
         Below(Above(l.precision, r.precision) + 1, t.digits), Above(l.scale, r.scale))

DecimalMultiply(t, l, r) ==
  Result([i \in DOMAIN l.data |->
            IF IsMaskedNull(MergedMask(l, r), i) THEN Null ELSE Checked(t, l.data[i] * r.data[i])],
         Below(l.precision + r.precision, t.digits), l.scale + r.scale)

(* The numerator is scaled up; the quotient is truncated, for FloorDiv too.*)
ExtraScale(l, r) == Above(l.scale, r.scale) - l.scale + r.scale
DecimalDivide(t, l, r) ==
  LET up == CheckedPow10(t, ExtraScale(l, r))
  IN  IF up = Failed THEN Refusal
      ELSE Result([i \in DOMAIN l.data |->
                     LET n == l.data[i] * up[2]
                     IN  CASE IsMaskedNull(MergedMask(l, r), i) \/ r.data[i] = 0 -> Null
                           [] Checked(t, n) = Failed         -> Failed
                           [] Overflows(t, n, r.data[i])     -> Panic
                           [] OTHER                          -> Value(Quotient(n, r.data[i]))],
                  Below(Above(l.precision, r.precision), t.digits), Above(l.scale, r.scale))

DecimalRemainder(t, l, r) ==
  Result([i \in DOMAIN l.data |->
            LET pair == Rescaled(t, l, r, i)
            IN  CASE IsMaskedNull(MergedMask(l, r), i) -> Null
                  [] Failed \in {pair[1], pair[2]}     -> Failed
                  [] pair[2][2] = 0                    -> Null
                  [] Overflows(t, pair[1][2], pair[2][2]) -> Panic
                  [] OTHER -> Value(Remainder(pair[1][2], pair[2][2]))],
         Below(Above(l.precision, r.precision), t.digits), Above(l.scale, r.scale))

(* The factor between the scales must fit before any row is looked at.     *)
FactorFits(t, l, r) ==
  CheckedPow10(t, Above(l.scale, r.scale) - Below(l.scale, r.scale)) # Failed

DecimalBinary(t, op, l, r) ==
  CASE Len(l.data) # Len(r.data) \/ op = "Power" -> Refusal
    [] op \in {"Add", "Subtract", "Remainder"} /\ ~FactorFits(t, l, r) -> Refusal
    [] op \in {"Add", "Subtract"}    -> DecimalAddSub(t, op, l, r)
    [] op = "Multiply"               -> DecimalMultiply(t, l, r)
    [] op \in {"Divide", "FloorDiv"} -> DecimalDivide(t, l, r)
    [] op = "Remainder"              -> DecimalRemainder(t, l, r)

-----------------------------------------------------------------------------
Unary(a, Row(_), scale) ==
  Result([i \in DOMAIN a.data |-> IF IsMaskedNull(a.mask, i) THEN Null ELSE Row(a.data[i])], a.precision, scale)

DecimalNegate(t, a) == Unary(a, LAMBDA n : Checked(t, -n), a.scale)
DecimalAbs(t, a)    == Unary(a, LAMBDA n : Checked(t, Magnitude(n)), a.scale)

DecimalRescale(t, a, scale) ==
  LET factor == CheckedPow10(t, Above(a.scale, scale) - Below(a.scale, scale))
  IN  IF factor = Failed THEN Refusal
      ELSE Unary(a, LAMBDA n : IF scale >= a.scale THEN Checked(t, n * factor[2]) ELSE Value(Quotient(n, factor[2])),
                 scale)

(* A negative scale leaves the factor at one.                              *)
IntegerToDecimal(t, data, mask, precision, scale) ==
  LET factor == IF scale > 0 THEN CheckedPow10(t, scale) ELSE Value(1)
  IN  IF factor = Failed THEN Refusal
      ELSE Result([i \in DOMAIN data |-> IF IsMaskedNull(mask, i) THEN Null ELSE Checked(t, data[i] * factor[2])],
                  precision, scale)

(* Null rows compare as false, and nothing tells them from rows that are.  *)
DecimalCompare(t, op, l, r) ==
  IF Len(l.data) # Len(r.data) \/ ~FactorFits(t, l, r) THEN Refused
  ELSE <<"bits", [i \in DOMAIN l.data |->
          LET pair == Rescaled(t, l, r, i)  a == pair[1][2]  b == pair[2][2]
          IN  IF IsMaskedNull(l.mask, i) \/ IsMaskedNull(r.mask, i) THEN Value(FALSE)
              ELSE IF Failed \in {pair[1], pair[2]} THEN Failed
              ELSE Value(CASE op = "Equals"        -> a = b
                           [] op = "NotEquals"     -> a # b
                           [] op = "LessThan"      -> a < b
                           [] op = "LessThanOrEqualTo"    -> a <= b
                           [] op = "GreaterThan"          -> a > b
                           [] op = "GreaterThanOrEqualTo" -> a >= b)]>>

-----------------------------------------------------------------------------
(***************************************************************************)
(* Which kernel the types of two operands choose, what the operands are    *)
(* converted to, and which rows it pairs: arithmetic_dispatch for arrays   *)
(* and scalar_arithmetic for scalars (src/kernels/routing/arithmetic.rs).  *)
(*                                                                         *)
(* An array operand is [type, cells, nulls, off, len]: a window of len     *)
(* cells from off on of a whole array, nulls the set of its null rows.     *)
(***************************************************************************)

Unsupported == <<"error">>

Integral  == {"Int32", "Int64", "UInt32", "UInt64"}
Floating  == {"Float32", "Float64"}
Decimal   == {"Decimal32", "Decimal64", "Decimal128"}
Textual   == {"String32", "String64"}
Width(t)  == IF t = "Decimal32" THEN 32 ELSE IF t = "Decimal64" THEN 64 ELSE 128

InWindow(a) == SubSeq(a.cells, a.off + 1, a.off + a.len)

(* Rows of two sequences paired by a kernel, <<"cell", c>> a cell as it is *)
(* and <<"as", type, c>> one that was converted.                           *)
Cell(c)      == <<"cell", c>>
As(type, c)  == <<"as", type, c>>
Converted(type, s) == [i \in DOMAIN s |-> As(type, Cell(s[i]))]
Plainly(s)         == [i \in DOMAIN s |-> Cell(s[i])]
Paired(type, op, l, r) ==
  IF Len(l) # Len(r) THEN Unsupported ELSE <<type, [i \in DOMAIN l |-> <<op, l[i], r[i]>>]>>

SameType(op, l, r) == Paired(l.type, op, Plainly(InWindow(l)), Plainly(InWindow(r)))

IntegerAndFloat(op, l, r) ==
  LET type == IF "Float64" \in {l.type, r.type} THEN "Float64" ELSE "Float32"
  IN  Paired(type, op, Converted(type, InWindow(l)), Converted(type, InWindow(r)))

(* Text and decimals are taken whole: the window of the view is not used.  *)
Texts(op, l, r) ==
  IF op # "Add" THEN Unsupported ELSE Paired(l.type, op, Plainly(l.cells), Plainly(r.cells))

Wider(l, r) == IF Width(l.type) >= Width(r.type) THEN l.type ELSE r.type
Decimals(op, l, r) ==
  IF op = "Power" THEN Unsupported
  ELSE Paired(Wider(l, r), op, Converted(Wider(l, r), l.cells), Converted(Wider(l, r), r.cells))

(* The integer side is windowed, the decimal side is not.                  *)
IntegerMeetsDecimal(a, b) ==
  <<a.type, b.type>> \in {<<"Int32", "Decimal32">>, <<"Int64", "Decimal64">>,
                          <<"Int32", "Decimal128">>, <<"Int64", "Decimal128">>}
IntegerAndDecimal(op, l, r) ==
  LET type == IF l.type \in Decimal THEN l.type ELSE r.type
      side(a) == Converted(type, IF a.type \in Decimal THEN a.cells ELSE InWindow(a))
  IN  IF op = "Power" THEN Unsupported ELSE Paired(type, op, side(l), side(r))

FloatAndDecimal(op, l, r) ==
  LET side(a) == Converted("Float64", IF a.type \in Decimal THEN a.cells ELSE InWindow(a))
  IN  Paired("Float64", op, side(l), side(r))

ArithmeticDispatch(op, l, r) ==
  CASE l.len # r.len -> Unsupported
    [] l.type = r.type /\ l.type \in Integral \cup Floating -> SameType(op, l, r)
    [] {l.type, r.type} \in {{"Int32", "Float64"}, {"Int32", "Float32"}} -> IntegerAndFloat(op, l, r)
    [] l.type = r.type /\ l.type \in Textual          -> Texts(op, l, r)
    [] l.type \in Decimal /\ r.type \in Decimal       -> Decimals(op, l, r)
    [] IntegerMeetsDecimal(l, r) \/ IntegerMeetsDecimal(r, l) -> IntegerAndDecimal(op, l, r)
    [] \/ l.type \in Floating /\ r.type \in Decimal
       \/ l.type \in Decimal /\ r.type \in Floating -> FloatAndDecimal(op, l, r)
    [] OTHER -> Unsupported

-----------------------------------------------------------------------------
(* Scalars are <<type, cell>>, decimals <<type, cell, scale>>.             *)

ScalarInts == {"Int8", "Int16", "UInt8", "UInt16"} \cup Integral

ScalarSame(op, t, l, r) ==
  CASE t \in ScalarInts /\ op = "Divide" -> <<"Float64", <<op, As("Float64", l), As("Float64", r)>>>>
    [] t \in ScalarInts \cup Floating    -> <<t, <<op, l, r>>>>
    [] t \in Textual \cup {"Boolean"} /\ op = "Add" -> <<t, <<op, l, r>>>>
    [] t \in {"Datetime32", "Datetime64"} /\ op \in {"Add", "Subtract"} -> <<t, <<op, l, r>>>>
    [] OTHER -> Unsupported

ScalarDecimals(op, t, l, r) ==
  IF \/ op \in {"Add", "Subtract"} /\ l[3] = r[3]
     \/ op = "Multiply"
  THEN <<t, <<op, Cell(l[2]), Cell(r[2])>>>> ELSE Unsupported

(* Two types that meet in a third, both converted and the call made again. *)
Meeting(a, b) ==
  CASE {a, b} = {"Int32", "Float32"} -> "Float32"
    [] {a, b} = {"Int64", "Float64"} -> "Float64"
    [] {a, b} \in {{"Int8", "Int32"}, {"Int16", "Int32"}}     -> "Int32"
    [] {a, b} \in {{"UInt8", "UInt32"}, {"UInt16", "UInt32"}} -> "UInt32"
    [] OTHER -> "none"

(* Both orders of a decimal and a float share an arm that puts the decimal *)
(* on the left.                                                            *)
ScalarArithmetic(op, l, r) ==
  LET a == l[1]  b == r[1]
  IN  CASE a = b /\ a \in Decimal -> ScalarDecimals(op, a, l, r)
        [] a = b /\ a # "Null"    -> ScalarSame(op, a, Cell(l[2]), Cell(r[2]))
        [] Meeting(a, b) # "none" ->
             ScalarSame(op, Meeting(a, b), As(Meeting(a, b), Cell(l[2])), As(Meeting(a, b), Cell(r[2])))
        [] {a, b} = Textual /\ op = "Add" -> <<"String64", <<op, Cell(l[2]), Cell(r[2])>>>>
        [] a \in Decimal /\ b = "Float64" -> <<"Float64", <<op, As("Float64", Cell(l[2])), Cell(r[2])>>>>
        [] a = "Float64" /\ b \in Decimal -> <<"Float64", <<op, As("Float64", Cell(r[2])), Cell(l[2])>>>>
        [] OTHER -> Unsupported
-----------------------------------------------------------------------------
(* What the arithmetic kernels mean, on the integers and on exact decimal  *)
(* fractions, and the departures the code takes from it, by name.          *)
Ops == {"Add", "Subtract", "Multiply", "Divide", "Remainder", "Power", "FloorDiv"}

(* The value of one row, by a property of the result and not by a way to   *)
(* compute it.                                                             *)
Means(t, op, x, y, v) ==
  LET size == t.hi - t.lo + 1
      same(n) == v \in t.lo..t.hi /\ (v - n) % size = 0
  IN  CASE op = "Add"      -> same(x + y)
        [] op = "Subtract" -> same(x - y)
        [] op = "Multiply" -> same(x * y)
        [] op = "Power"    -> same(IF y = 0 THEN 1 ELSE x^y)
        [] op = "Remainder" -> /\ Magnitude(v) < Magnitude(y) /\ v * x >= 0
                               /\ (x - v) % Magnitude(y) = 0
        [] op \in {"Divide", "FloorDiv"} ->   \* the largest v with v <= x / y
             IF y > 0 THEN v * y <= x /\ x < (v + 1) * y ELSE v * y >= x /\ x > (v + 1) * y
HasNoValue(t, op, x, y) ==
  IF op = "Power" THEN y \notin 0..t.exps ELSE op \in {"Divide", "FloorDiv", "Remainder"} /\ y = 0

(* Every row is what it means; undefined rows are null under a mask and    *)
(* panic without one.  The division that overflows is left to the code.    *)
IntsAreExact(t, op, l, r, mask, lanes) ==
  LET out == ApplyInt(t, op, l, r, mask, lanes)
  IN  IF Len(l) # Len(r) THEN out = Refused
      ELSE \A i \in DOMAIN l :
             \/ op \in {"Divide", "FloorDiv", "Remainder"} /\ Overflows(t, l[i], r[i])
             \/ /\ mask # NoMask /\ ~mask[i]
                /\ out[i] = Null
             \/ /\ mask = NoMask \/ mask[i]
                /\ IF HasNoValue(t, op, l[i], r[i]) THEN out[i] = (IF mask = NoMask THEN Panic ELSE Null)
                   ELSE out[i][1] = "value" /\ Means(t, op, l[i], r[i], out[i][2])

(* Scalars of the same operators give an error where arrays give a null or *)
(* a panic, and the value they mean everywhere else.                       *)
ScalarsAgree(t, op, x, y) ==
  LET out == ScalarChecked(t, op, x, y)
  IN  op \in {"Remainder", "Power", "FloorDiv"} =>
        IF out[1] = "error" THEN HasNoValue(t, op, x, y) \/ Overflows(t, x, y)
        ELSE out[1] = "value" /\ Means(t, op, x, y, out[2])

(* The masks of datetime arrays are merged from the first bit of the       *)
(* arrays, whatever the offsets of the windows.                            *)
MasksFromTheStart(l, r) == \E w \in {l, r} : w[1].mask # NoMask /\ w[2] > 0
DatetimesAreExact(t, op, l, r, lanes) ==
  LET bits(w) == [i \in 1..w[3] |-> w[1].mask = NoMask \/ w[1].mask[w[2] + i]]
      whole   == l[1].mask = NoMask /\ r[1].mask = NoMask
  IN  \/ MasksFromTheStart(l, r)
      \/ l[3] # r[3] /\ ApplyDatetime(t, op, l, r, lanes) = Refused
      \/ /\ l[3] = r[3]
         /\ ApplyDatetime(t, op, l, r, lanes)
              = ApplyInt(t, op, Rows(l), Rows(r),
                         IF whole THEN NoMask ELSE [i \in 1..l[3] |-> bits(l)[i] /\ bits(r)[i]], lanes)

(* A null row stays null and every other is computed from its own operands.*)
FloatsFollow(op, l, r, mask) ==
  \A i \in DOMAIN l :
    /\ ApplyFloat(op, l, r, mask)[i]
         = IF mask = NoMask \/ mask[i] THEN Value(FloatTerm(op, l[i], r[i])) ELSE Null
    /\ \A lanes \in {1, 2} : ApplyFma(l, r, l, mask, lanes)[i][1] = IF mask = NoMask \/ mask[i] THEN "value" ELSE "null"

-----------------------------------------------------------------------------
(* n at scale s, as an integer over 10^k.                                  *)
At(n, s, k) == n * 10^(k - s)

FloorDivKeepsFraction(op) == op = "FloorDiv"
NegativeScaleIsLost(scale) == scale < 0

DecimalMeans(op, l, r, i, v, scale) ==
  LET k == Above(Above(l.scale, r.scale), scale)
      exp == scale - l.scale - r.scale
      x == At(l.data[i], l.scale, k)  y == At(r.data[i], r.scale, k)  z == At(v, scale, k)
  IN  CASE op = "Add"      -> z = x + y
        [] op = "Subtract" -> z = x - y
        [] op = "Multiply" -> IF exp >= 0 THEN v = l.data[i] * r.data[i] * 10^exp
                              ELSE v * 10^(-exp) = l.data[i] * r.data[i]
        [] op = "Remainder" -> Magnitude(z) < Magnitude(y) /\ z * x >= 0 /\ (x - z) % Magnitude(y) = 0
        [] op = "Divide" ->  \* truncated to the scale of the result
             LET q == Magnitude(v) * Magnitude(y)  unit == Magnitude(y)  n == At(Magnitude(x), 0, scale)
             IN  q <= n /\ n < q + unit /\ v * x * y >= 0

(* No decimal call gives a wrong row: it is exact, or null where an        *)
(* operand is or the divisor is zero, or the call reports an error.        *)
DecimalsAreExact(t, op, l, r) ==
  LET out == DecimalBinary(t, op, l, r)
      null(i) == \/ IsMaskedNull(l.mask, i) \/ IsMaskedNull(r.mask, i)
                 \/ op \in {"Divide", "Remainder"} /\ r.data[i] = 0
  IN  \/ FloorDivKeepsFraction(op) \/ out = Refusal
      \/ \A i \in DOMAIN l.data :
           CASE out.rows[i][1] = "value" -> ~null(i) /\ DecimalMeans(op, l, r, i, out.rows[i][2], out.scale)
             [] out.rows[i] = Null       -> null(i)
             [] out.rows[i] = Panic      -> l.data[i] < 0 /\ r.data[i] < 0
             [] OTHER                    -> TRUE

RescalesAreExact(t, a, scale) ==
  LET out == DecimalRescale(t, a, scale)  k == Above(a.scale, scale) + 1
  IN  out # Refusal =>
        \A i \in DOMAIN a.data :
          out.rows[i][1] = "value" =>
            LET lost == At(a.data[i], a.scale, k) - At(out.rows[i][2], scale, k)
            IN  Magnitude(lost) < 10^(k - scale) /\ lost * a.data[i] >= 0 /\ (scale >= a.scale => lost = 0)
ConversionsAreExact(t, a) ==
  LET out == IntegerToDecimal(t, a.data, a.mask, a.precision, a.scale)
  IN  \/ NegativeScaleIsLost(a.scale) \/ out = Refusal
      \/ \A i \in DOMAIN a.data :
           out.rows[i][1] = "value" => out.rows[i][2] = At(a.data[i], 0, a.scale)

ComparesExactly(t, l, r) ==
  LET x(i) == At(l.data[i], l.scale, 4)  y(i) == At(r.data[i], r.scale, 4)
      says(op, i) == DecimalCompare(t, op, l, r)[2][i]
      live(i) == ~IsMaskedNull(l.mask, i) /\ ~IsMaskedNull(r.mask, i)
  IN  \/ DecimalCompare(t, "Equals", l, r) = Refused
      \/ \A i \in DOMAIN l.data :
           \/ says("Equals", i)[1] = "error"
           \/ /\ says("Equals", i)[2]       = (live(i) /\ x(i) = y(i))
              /\ says("LessThan", i)[2]     = (live(i) /\ x(i) < y(i))
              /\ says("GreaterThanOrEqualTo", i)[2] = (live(i) /\ x(i) >= y(i))
              /\ says("NotEquals", i)[2]    = (live(i) /\ x(i) # y(i))

-----------------------------------------------------------------------------
Whole(a) == a.off = 0 /\ a.len = Len(a.cells)
Taken(a) == a.type \in Textual \cup Decimal   \* the types whose window arithmetic_dispatch does not use
WindowIsIgnored(l, r) == \E a \in {l, r} : Taken(a) /\ ~Whole(a)

(* The cell a term was converted from.                                     *)
Origin(term) == IF term[1] = "cell" THEN term[2] ELSE term[3][2]
Origins(term) == IF term[1] = "as" /\ term[3][1] = "as" THEN term[3][3][2] ELSE Origin(term)

(* Row i of one window meets row i of the other, each on its own side.     *)
RowsStayPaired(op, l, r) ==
  LET out == ArithmeticDispatch(op, l, r)
  IN  \/ WindowIsIgnored(l, r) \/ out = Unsupported
      \/ /\ Len(out[2]) = l.len
         /\ \A i \in 1..l.len :
              out[2][i][1] = op /\ Origin(out[2][i][2]) = InWindow(l)[i] /\ Origin(out[2][i][3]) = InWindow(r)[i]

DecimalTakesTheLeft(l, r) == l[1] = "Float64" /\ r[1] \in Decimal
ScalarsStayPaired(op, l, r) ==
  LET out == ScalarArithmetic(op, l, r)
  IN  \/ out = Unsupported \/ DecimalTakesTheLeft(l, r)
      \/ out[2][1] = op /\ Origins(out[2][2]) = l[2] /\ Origins(out[2][3]) = r[2]
(* Two orders of one pair of types are either both supported or neither.   *)
BothOrders(op, l, r) == (ScalarArithmetic(op, l, r) = Unsupported) = (ScalarArithmetic(op, r, l) = Unsupported)
=============================================================================
