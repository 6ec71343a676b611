------------------------------ MODULE MCCompute ------------------------------
(* Cells are named by side, table, column and row; a cell outside a window *)
(* has a row below one.  Chunks and batches are cut in every way up to     *)
(* three rows, so that some operands agree, some stretch and some misfit.  *)
EXTENDS Compute

Cells(s, i, c, from, n) == [k \in 1..n |-> <<s, i, c, from + k>>]
Hidden(s, i, c, from, n, w) ==
  [k \in 1..(n + w + 1) |-> <<s, i, c, IF k \in w + 1..w + n THEN from + k - w ELSE -k>>]
Column(s, i, c, from, n)    == <<"array", Cells(s, i, c, from, n)>>
Window(s, i, c, from, n, w) == <<"arrayview", Hidden(s, i, c, from, n, w), w, n>>
TableOf(s, i, m, from, n)   == <<"table", [c \in 1..m |-> Column(s, i, c, from, n)]>>
TableWindow(s, i, m, from, n, w) == <<"tableview", [c \in 1..m |-> Window(s, i, c, from, n, w)], w, n>>

Cuts == {<<1>>, <<2>>, <<3>>, <<1, 1>>, <<2, 1>>}
Start(cut, i) == IF i = 1 THEN 0 ELSE cut[1]
Rows(cut) == IF Len(cut) = 1 THEN cut[1] ELSE cut[1] + cut[2]
Lens == 1..3

Plain(s) ==
  {<<"scalar", <<s, 1, 1, 1>>, t>> : t \in {"Int64", "UInt32", "Null"}}
  \cup {Column(s, 1, 1, 0, n) : n \in Lens} \cup {<<"field", Cells(s, 1, 1, 0, n)>> : n \in Lens}
  \cup {Window(s, 1, 1, 0, n, w) : n \in Lens, w \in 0..1}
  \cup {<<"superarray", [i \in DOMAIN cut |-> Column(s, 1, 1, Start(cut, i), cut[i])]>> : cut \in Cuts}
  \cup {<<"superarrayview", [i \in DOMAIN cut |-> Window(s, 1, 1, Start(cut, i), cut[i], 1)]>> : cut \in Cuts}
  \cup {TableOf(s, 1, m, 0, n) : m \in 1..2, n \in Lens}
  \cup {TableWindow(s, 1, m, 0, n, w) : m \in 1..2, n \in Lens, w \in 0..1}
  \cup {<<"supertable", [i \in DOMAIN cut |-> TableOf(s, 1, m, Start(cut, i), cut[i])]>> : cut \in Cuts, m \in 1..2}
  \cup {<<"supertableview", [i \in DOMAIN cut |-> TableWindow(s, 1, m, Start(cut, i), cut[i], 1)], Rows(cut)>> :
          cut \in Cuts, m \in 1..2}
  \cup {<<"cube", [i \in 1..2 |-> TableOf(s, i, m, 0, n)]>> : m \in 1..2, n \in Lens}

Nested(s) ==
  LET parts == <<Column(s, 1, 1, 0, 2), Column(s, 2, 1, 0, 1), Column(s, 3, 1, 0, 2)>>
      tables == <<TableOf(s, 1, 1, 0, 2), TableOf(s, 2, 2, 0, 2)>>
  IN  {<<"tuple", [i \in 1..n |-> parts[i]]>> : n \in 2..3}
        \cup {<<"tuple", tables>>, <<"vec", tables>>, <<"vec", <<parts[1]>>>>,
              <<"arc", parts[1]>>, <<"box", tables[2]>>, <<"arc", <<"vec", tables>>>>}
Views(s) == {<<kind, Hidden(s, 1, 1, 0, n, w), w, n>> : kind \in {"numeric", "text", "temporal"}, n \in Lens, w \in 0..1}
TypedMeets(v) == v[1] \in {"scalar", "supertable", "cube"}
Unfinished == {<<"matrix">>, <<"ndarray">>, <<"custom">>}

MCPairings ==
  LET l == Plain("l")  r == Plain("r")
  IN  l \X r \cup Nested("l") \X (r \cup Nested("r")) \cup l \X Nested("r")
        \cup Views("l") \X {v \in r : TypedMeets(v)} \cup {v \in l : TypedMeets(v)} \X Views("r")
        \cup Unfinished \X {<<"scalar", <<"r", 1, 1, 1>>, "Int64">>, Column("r", 1, 1, 0, 2)}

Types ==
  {<<t>> : t \in {"Null", "Boolean", "Int8", "UInt8", "Int16", "UInt16", "Int32", "UInt32", "Int64", "UInt64",
                  "Float32", "Float64", "String", "LargeString", "Utf8View", "Date32", "Date64"}}
  \cup {<<t, u>> : t \in {"Time32", "Time64", "Duration32", "Duration64"},
                   u \in {"Seconds", "Milliseconds", "Microseconds", "Nanoseconds", "Days"}}
  \cup {<<"Interval", u>> : u \in {"YearMonth", "DaysTime", "MonthDaysNs"}}
  \cup {<<"Dictionary", k>> : k \in {"UInt8", "UInt16", "UInt32", "UInt64"}}
  \cup {<<"Timestamp", u, z>> : u \in {"Seconds", "Milliseconds", "Microseconds", "Nanoseconds", "Days"},
                                z \in {"none", "", "UTC"}}
  \cup {<<t, p, s>> : t \in {"Decimal32", "Decimal64", "Decimal128"}, p \in {"5", "9"}, s \in {"0", "-2"}}
MCFields == [dtype : Types, nullable : BOOLEAN, metadata : {{}, {"k"}}]

-----------------------------------------------------------------------------
(* Three rows over vectors of two, so that the last is left to scalar code;*)
(* one row takes every pair of values, on either side of that border.      *)
Signed   == [lo |-> -4, hi |-> 3, exps |-> 3]
Unsigned == [lo |-> 0, hi |-> 7, exps |-> 3]
Masks == {A!NoMask, <<TRUE, TRUE, TRUE>>, <<FALSE, TRUE, TRUE>>, <<TRUE, TRUE, FALSE>>}
With(i, x) == [k \in 1..3 |-> IF k = i THEN x ELSE k]
IntCalls(t) == {<<"ints", t, op, With(i, x), With(i, y), m, lanes>> :
                  op \in A!Ops, x \in t.lo..t.hi, y \in t.lo..t.hi, i \in {1, 3}, m \in Masks, lanes \in {1, 2}}
LongData == <<1, -4, 3, 2>>
Arrays == {[data |-> LongData, mask |-> m] : m \in {A!NoMask, <<TRUE, FALSE, TRUE, FALSE>>}}
DatetimeCalls == {<<"datetimes", Signed, op, <<a, i, n>>, <<b, j, k>>, 2>> :
                    op \in {"Add", "Remainder"}, a \in Arrays, b \in Arrays, i \in 0..1, j \in 0..1, n \in 2..3, k \in 3..3}
FloatCalls == {<<"floats", op, <<"a", "b", "c">>, <<"x", "y", "z">>, m>> : op \in A!Ops, m \in Masks}

DecimalType == [lo |-> -128, hi |-> 127, digits |-> 2]
Decimals == {[data |-> <<x, 3>>, mask |-> m, precision |-> 2, scale |-> s] :
               x \in {-128, -13, -1, 0, 1, 7, 12, 127}, m \in {A!NoMask, <<FALSE, TRUE>>}, s \in {-1, 0, 1, 3}}
DecimalCalls == {<<"decimals", DecimalType, op, l, r>> : op \in A!Ops, l \in Decimals, r \in Decimals}
RescaleCalls == {<<"rescale", DecimalType, l, s>> : l \in Decimals, s \in -1..3}

TypesOfArrays == A!Integral \cup A!Floating \cup A!Decimal \cup A!Textual \cup {"Boolean"}
Operand(side) == {[type |-> t, cells |-> [i \in 1..3 |-> <<side, i>>], off |-> o, len |-> n] :
                    t \in TypesOfArrays, o \in 0..1, n \in 2..3}
TypedCalls == {<<"typed", op, l, r>> : op \in {"Add", "Divide", "Power"},
                 l \in {x \in Operand("l") : x.off + x.len <= 3}, r \in {x \in Operand("r") : x.off + x.len <= 3}}
ScalarTypes == A!ScalarInts \cup A!Floating \cup A!Textual \cup {"Boolean", "Null", "Datetime32", "Datetime64"}
Scalars(side) == {<<t, side>> : t \in ScalarTypes} \cup {<<t, side, s>> : t \in A!Decimal, s \in {0, 2}}
ScalarCalls == {<<"scalars", op, l, r>> : op \in {"Add", "Subtract", "Divide"}, l \in Scalars("l"), r \in Scalars("r")}

-----------------------------------------------------------------------------
(* Texts of up to two characters: a letter of one byte and one of two,     *)
(* blanks, and a parenthesis that no expression compiles from.             *)
Words == {<<>>, <<97>>, <<97, 97>>, <<233, 97>>, <<97, 32>>}
Patterns == {<<>>, <<97>>, <<233, 97>>}
TwoMasks == {X!NoMask, <<TRUE, FALSE>>, <<FALSE, TRUE>>}
StringArrays(W) == {X!Strings(<<s, t>>, m) : s \in W, t \in W, m \in TwoMasks}
CodeArrays == {X!Categories(<<<<97>>, <<65>>, <<97, 32>>>>, <<i, j>>, m) : i \in 0..2, j \in 0..2, m \in TwoMasks}
Windows(these) == {[arr |-> a, off |-> o, len |-> n] : a \in these, o \in 0..1, n \in 1..2}
Inside(W) == {w \in W : w.off + w.len <= 2}
Left  == Inside(Windows(StringArrays({<<>>, <<97, 97>>, <<233, 97>>}))) \cup Inside(Windows(CodeArrays))
Right == Inside(Windows(StringArrays(Patterns))) \cup Inside(Windows(CodeArrays))
Long  == {[arr |-> X!Categories(<<<<97>>, <<97, 233, 97>>, <<97, 97>>>>, <<1, 0, 1, 1>>, m), off |-> 0, len |-> 4] :
            m \in {X!NoMask, <<TRUE, TRUE, FALSE, TRUE>>}}
Even  == {[arr |-> X!Strings(<<s, <<97>>, <<97>>, s>>, m), off |-> 0, len |-> 4] :
            s \in Patterns, m \in {X!NoMask, <<TRUE, TRUE, TRUE, FALSE>>}}
TextCalls   == {<<"text", w, p, q, n>> : w \in Inside(Windows(StringArrays(Words))) \cup Inside(Windows(CodeArrays)),
                                         p \in Patterns \cup {<<40>>}, q \in {<<>>, <<97>>}, n \in 0..3}
TextPairs   == {<<"texts", l, r>> : l \in Left, r \in Right} \cup {<<"texts", l, r>> : l \in Long, r \in Even \cup Long}
NumberCalls == {<<"textnumber", w, <<i, 2>>, op>> : w \in {v \in Left : v.len = 2}, i \in {-1, 0, 1}, op \in X!TextOps}
Labels == {X!None, X!Some(<<97>>), X!Some(<<233>>)}
Tables(n) == [1..n -> Labels]
CrossCalls  == UNION {{<<"crosstab", x, y>> : x \in Tables(n), y \in Tables(n)} : n \in 1..4}
                 \cup {<<"crosstab", <<X!None>>, <<X!None, X!None>>>>}

-----------------------------------------------------------------------------
(* Days around the ends of months, years, leap years, eras and the         *)
(* calendar; seconds and parts of them around days and the epoch.          *)
Dtype(kind, unit) == [kind |-> kind, unit |-> unit, tz |-> ""]
Days == {D!MinDay - 1, D!MinDay, D!MinDay + 3, -719529, -719528, -719500, -719469, -719468, -25509, -25508, -1, 0, 1, 30, 58, 59,
         11015, 11016, 11017, 11321, 11322, 18627, 19781, D!MaxDay, D!MaxDay + 1}
Seconds == {-31700000, -15897600, -86401, -86400, -1, 0, 59, 3600, 86399, 86400, 2678399, 5097600, 31536000}
Ticks(per) == {-864001 * per, -86400 * per - 1, -per - 1, -per, -1, 0, 1, per - 1, per, 61 * per, 3601 * per + 1, 777600 * per + 5}
Stamps(dtype, V, W) == {[dtype |-> dtype, data |-> <<x, y>>, mask |-> m] :
                          x \in V, y \in W, m \in {D!NoMask, <<TRUE, FALSE>>, <<FALSE, TRUE>>}}
Thin(dtype, V) == {a \in Stamps(dtype, V, {-1, 58}) : a.mask = D!NoMask \/ a.data[1] \in {-1, 0}}
DateArrays   == Thin(Dtype("Date32", "Days"), Days)
SecondArrays == Thin(Dtype("Time32", "Seconds"), Seconds) \cup Thin(Dtype("Timestamp", "Seconds"), Seconds)
MilliArrays  == Thin(Dtype("Date64", ""), Ticks(10))
MicroArrays  == Thin(Dtype("Duration64", "Microseconds"), Ticks(100))
NanoArrays   == Thin(Dtype("Timestamp", "Nanoseconds"), Ticks(1000))
Periods == {"year", "month", "week", "day", "hour", "minute", "second", "millisecond", "microsecond"}
Finer(p) == IF p \in {"year", "month"} THEN "day" ELSE IF p \in {"week", "day"} THEN "hour" ELSE "microsecond"
TruncateCalls ==
  {<<"truncate", a, p, Finer(p)>> : a \in DateArrays \cup SecondArrays \cup MilliArrays, p \in Periods}
    \cup {<<"truncate", a, p, Finer(p)>> : a \in MicroArrays \cup NanoArrays, p \in Periods \ {"year", "month"}}
MonthCalls == {<<"months", a, n>> : a \in DateArrays, n \in {-24012, -24001, -13, -1, 0, 1, 12, 25}}
                \cup {<<"months", a, n>> : a \in SecondArrays, n \in {-13, -1, 0, 1, 12, 25}}
DurationCalls == {<<"duration", a, d>> : a \in DateArrays \cup SecondArrays \cup MilliArrays,
                                         d \in {-86400000, -1500, -1, 0, 999, 1001, 172800000, 172899999}}
PartCalls == {<<"parts", a>> : a \in DateArrays \cup SecondArrays \cup MilliArrays \cup NanoArrays}
Near(dtype, V) == {a \in Stamps(dtype, V, V) : a.mask # <<FALSE, TRUE>>}
Ordinary == {Near(Dtype("Date32", "Days"), {-1, 0, 1}), Near(Dtype("Time32", "Seconds"), {-86400, -1, 0, 86399}),
             Near(Dtype("Date64", ""), {-1, 0, 10}), Near(Dtype("Timestamp", "Nanoseconds"), {-1, 0, 1001, 1000}),
             {D!NullArray}, {[dtype |-> Dtype("Time32", "Seconds"), data |-> <<5>>, mask |-> D!NoMask]}}
OrderCalls == {<<"order", a, b>> : a \in UNION Ordinary, b \in UNION Ordinary}
CastCalls == {<<"cast", a, u>> : a \in MilliArrays \cup NanoArrays \cup DateArrays,
                                 u \in {"Days", "Seconds", "Milliseconds", "Nanoseconds"}}
Clock == [year : {1969, 1970, 2000}, month : {1, 2, 12}, day : {1, 2, 23, 31}, hour : {0, 23}, minute : {59}, second : {0, 60},
          digits : {D!None, <<<<5>>>>, <<<<0, 0, 1, 9>>>>}, zone : {<<"">>, <<"+", 10, 30>>, <<"-", 23, 59>>}]
Broken(x) == {[x EXCEPT !.year = -1], [x EXCEPT !.month = 0], [x EXCEPT !.month = 13], [x EXCEPT !.day = 0], [x EXCEPT !.day = 32],
              [x EXCEPT !.hour = 24], [x EXCEPT !.minute = 60], [x EXCEPT !.second = 61], [x EXCEPT !.digits = <<<<>>>>],
              [x EXCEPT !.zone = <<"Z">>], [x EXCEPT !.zone = <<"+", 24, 0>>], [x EXCEPT !.zone = <<"+", 0, 60>>]}
ParseCalls == {<<"parse", x>> : x \in Clock}
                \cup {<<"parse", x>> : x \in UNION {Broken(y) : y \in {z \in Clock : z.year = 1970 /\ z.day = 2}}}
DateCalls == <<TruncateCalls, MonthCalls, DurationCalls, PartCalls, OrderCalls, CastCalls, ParseCalls>>

MCKernels == <<IntCalls(Signed), IntCalls(Unsigned), DatetimeCalls, FloatCalls, DecimalCalls, RescaleCalls,
               TypedCalls, ScalarCalls, TextCalls, TextPairs, NumberCalls, CrossCalls>> \o DateCalls

-----------------------------------------------------------------------------
(* Scalars at the borders of each type, floats around what the mantissas   *)
(* hold, texts of every kind; arrays of two rows with a null in either.    *)
Quarter(t) == {q \in {0, 1, 2, 4, 6, 12, 13, 28, 32, 60, 62, 64, 124, 128, 248, 256, 512, 1024, -1, -4, -6, -36, -256, -288} :
                 C!RoundTo(C!Mantissa[t], q) = q}
FloatsOf(t) == {C!Num(q) : q \in Quarter(t)} \cup {C!NaN, C!NegZero, C!Inf(1), C!Inf(-1)}
TextValues == {C!Text("true", "int", 4), C!Text("false", "int", 0), C!Text("other", "int", 8), C!Text("other", "int", -4),
               C!Text("other", "int", 64), C!Text("other", "frac", 6), C!Text("true", "word", 1), C!Text("other", "word", 2)}
Within(t, S) == {n \in S : C!InRange(t, n)}
Whole(t) == IF t = "Datetime32" THEN "Int32" ELSE IF t = "Datetime64" THEN "Int64" ELSE t
OneOf(t, ints) ==
  CASE t \in C!Ints \cup C!Datetimes -> {<<t, v>> : v \in Within(Whole(t), ints)}
    [] t \in C!Decimals -> {<<t, v, s>> : v \in Within(t, ints), s \in -1..2}
    [] t \in C!Floats   -> {<<t, f>> : f \in FloatsOf(t)}
    [] t \in C!Texts    -> {<<t, x>> : x \in TextValues}
    [] t = "Boolean"    -> {<<t, b>> : b \in BOOLEAN}
    [] OTHER            -> {<<t, 0>>}
EveryType == <<"Null", "Interval", "Boolean", "Int8", "Int16", "Int32", "Int64", "UInt8", "UInt16", "UInt32", "UInt64",
               "Float32", "Float64", "Decimal32", "Decimal64", "Decimal128", "String32", "String64", "Datetime32", "Datetime64">>
Borders == {-64, -9, -8, -1, 0, 1, 3, 4, 7, 8, 15, 16, 31, 32, 63, 127, 255}
Few(t) == IF t \in C!Floats THEN {<<t, C!Num(6)>>, <<t, C!Num(-4)>>, <<t, C!NaN>>, <<t, C!NegZero>>, <<t, C!Num(0)>>}
          ELSE IF t \in C!Decimals THEN {<<t, 3, 1>>} ELSE OneOf(t, {-2, 1, 3, 63})
Operations == {"add", "sub", "mul", "pow"}
Raised(x) == LET n == C!U32(x) IN n = C!Panic \/ n[2] <= 3   \* what TLC can compute
OperationCalls(t, u) == {c \in {<<"operation", op, x, y>> : op \in Operations, x \in Few(t), y \in Few(u)} :
                           c[2] = "pow" => Raised(c[4])}
CollectCalls(t, u) == {<<"collect", <<x, y, z>>>> : x \in Few(t) \cup {<<"Null", 0>>}, y \in Few(u), z \in {<<"Null", 0>>}}

Data(t) == {x[2] : x \in IF t \in C!Floats THEN OneOf(t, {}) ELSE IF t \in C!Decimals THEN OneOf(t, {-8, -1, 0, 3, 8, 63, 255}) ELSE Few(t)}
             \cup IF t \in C!Ints THEN {C!Lo[t], 0, C!Hi[t]} ELSE IF t \in C!Texts THEN {C!Empty} ELSE {}
NullMask == {<<>>, <<TRUE, FALSE>>, <<FALSE, TRUE>>}
Scales(t) == IF t \in C!Decimals THEN -1..2 ELSE {0}
Dtypes(t) == IF t = "Datetime32" THEN C!Dates32 ELSE IF t = "Datetime64" THEN C!Dates64 ELSE {""}
Filled(t, V) ==
  CASE t \in C!Nothings -> {C!Arr(u, <<>>, <<>>) : u \in {"NoNumber", "NoText", "Null"}}
    [] t \in C!Texts -> {C!Arr(t, <<x, y, z>>, m) : x \in V, y \in V, z \in V, m \in {<<>>, <<FALSE, TRUE, TRUE>>}}
    [] OTHER -> {[C!Arr(t, <<x, y>>, m) EXCEPT !.scale = s, !.dtype = d] :
                   x \in V, y \in V, m \in NullMask, s \in Scales(t), d \in Dtypes(t)}
ArraysOf(t) == Filled(t, Data(t))
Coded(t) == {[C!Arr(t, <<x, y, z>>, m) EXCEPT !.values = <<C!Text("true", "int", 4), C!Empty, C!Text("other", "word", 2)>>] :
               x \in 0..2, y \in 0..2, z \in 0..1, m \in {<<>>, <<TRUE, FALSE, TRUE>>}}
DataTypes == {<<t>> : t \in C!Ints \cup C!Floats \cup C!Strings \cup C!Dates32 \cup C!Dates64 \cup {"Null", "Interval", "Boolean"}}
               \cup {<<t, 1>> : t \in C!Decimals}
Sampled(S) == {a \in S : Len(a.data) > 0 /\ a.mask # <<FALSE, TRUE>> /\ (Len(a.data) = 3 => a.data[2] = a.data[3])}
CallsOn(S) == {<<"array", a>> : a \in S}
UnifyCalls(S) == {<<"unify", a, type>> : a \in Sampled(S), type \in DataTypes}
ViewCalls(S) == {<<"view", [array |-> a, off |-> o, len |-> 1]>> : a \in Sampled(S), o \in 0..1}
TextArrays == {C!Arr("String32", <<x, y>>, m) : x \in TextValues, y \in TextValues, m \in NullMask}
TextElements == {<<"elements", a, b>> : a \in TextArrays, b \in {c \in Coded("Categorical32") : c.mask # <<>>}}

(* A value of every variant, of several kinds, with and without rows and   *)
(* nulls: what it becomes, its slices, and two or three put together.      *)
Ints  == Val!Arr("Int", <<1, 2, 3>>, 1)
Holes == Val!Arr("Int", <<4, Val!Null, 6>>, 2)
Letters == Val!Arr("Text", <<5, Val!Word + 1, 7>>, 3)
Bits  == Val!Arr("Bool", <<0, Val!Null, 1>>, 4)
Floats == Val!Arr("Float", <<8, 9, 10>>, 5)
Times == Val!Arr("Time", <<11>>, 6)
Bare  == Val!Made("Int", <<>>)
Tabled(name, names, arrays) == Val!Tab(name, [c \in DOMAIN arrays |-> Val!Named(names[c], arrays[c])])
TwoInts == Tabled("t", <<"a", "b">>, <<Ints, Floats>>)
Swapped == Tabled("s", <<"b", "a">>, <<Floats, Ints>>)
OneInt  == Tabled("o", <<"a">>, <<Ints>>)
OneHole == Tabled("h", <<"a">>, <<Holes>>)
Mixed   == Tabled("m", <<"a", "b">>, <<Letters, Ints>>)
NoRows  == Tabled("n", <<"a", "b">>, <<Bare, Val!Made("Float", <<>>)>>)
Tabs == {TwoInts, Swapped, OneInt, OneHole, Mixed, NoRows, Val!NoTable}
Wide == [Val!TabV(TwoInts, 1, 2) EXCEPT !.picked = <<<<2>>>>]
TabVs == {Val!TabV(t, o, 1) : t \in {TwoInts, OneInt, OneHole}, o \in 0..1} \cup {Wide, Val!TabV(TwoInts, 0, 1), Val!TabV(NoRows, 0, 0)}
Arrs == {Ints, Holes, Letters, Bits, Floats, Times, Bare, Val!NoArray}
ArrViews == {Val!View(a, o, n) : a \in {Ints, Holes, Bits, Floats}, o \in 0..1, n \in 0..2} \cup {Val!Whole(Letters), Val!View(Times, 0, 1)}
FieldOf(name, a) == <<Val!Field(name, a.kind, TRUE)>>
Chunked == {[field |-> <<>>, chunks |-> <<>>], [field |-> <<>>, chunks |-> <<Ints, Bare, Holes>>], [field |-> FieldOf("f", Ints), chunks |-> <<Holes, Ints>>],
            [field |-> FieldOf("g", Letters), chunks |-> <<Letters>>], [field |-> <<>>, chunks |-> <<Bare>>]}
Sliced == {Val!SuperViewOf(x) : x \in Chunked} \cup
          {[field |-> <<>>, slices |-> <<Val!View(Ints, 0, 1), Val!View(Ints, 1, 2)>>], [field |-> <<>>, slices |-> <<Val!View(Ints, 0, 2), Val!View(Holes, 2, 1)>>],
           [field |-> FieldOf("f", Ints), slices |-> <<Val!View(Ints, 2, 1), Val!View(Holes, 0, 2)>>], [field |-> FieldOf("f", Ints), slices |-> <<>>],
           [field |-> <<>>, slices |-> <<Val!View(Ints, 1, 1), Val!View(Ints, 2, 1)>>]}
Batched(ts) == Val!BatchesOf(ts)[1]
Batches == {Batched(<<>>), Batched(<<TwoInts, NoRows, TwoInts>>), Batched(<<OneInt, OneInt>>), Batched(<<NoRows>>), Batched(<<Mixed>>)}
BatchViews == {Val!ViewsOfBatches(x) : x \in Batches} \cup {<<Val!TabV(TwoInts, 2, 1), Val!TabV(TwoInts, 0, 2)>>, <<Wide, Wide>>}
Mats == {Val!Nd(2, 3, <<<<1, 2, 3>>, <<4, 5, 6>>>>), Val!Nd(2, 2, <<<<7, 8>>>>), Val!Nd(2, 0, <<<<>>, <<>>>>)}
Nds  == Mats \cup {Val!Nd(1, 3, <<<<1, 2, 3>>>>), Val!Nd(1, 0, <<<<>>>>), Val!Nd(2, 2, <<<<Val!NaN, 2>>>>)}
NdViews(S) == {Val!WindowNd(x, o, n) : x \in {y \in S : y.rows > 1}, o \in {1}, n \in 0..1} \cup {Val!WholeNd(x) : x \in S}
Runs(S) == {<<x, y>> : x \in S, y \in {z \in S : z.rows < 3}}
SuperNds == {s \in {<<x>> : x \in Nds} \cup Runs(Nds) : s[1].rank = s[Len(s)].rank /\ Len(s[1].cols) = Len(s[Len(s)].cols)}
Windowed(s) == [i \in DOMAIN s |-> Val!WindowNd(s[i], s[i].rows \div 2, s[i].rows - (s[i].rows \div 2))]
Labelled == {[nd |-> x, labels |-> SubSeq(<<"x", "y">>, 1, Len(x.cols))] : x \in Nds} \cup {[nd |-> Val!Nd(2, 1, <<<<3>>>>), labels |-> <<"z">>]}
Cubes == {Val!EmptyCube, Val!CubeOf(<<TwoInts, NoRows>>), Val!CubeOf(<<OneInt, OneInt>>), Val!CubeOf(<<TwoInts, Swapped>>), Val!CubeOf(<<OneHole>>),
          Val!FromTable(TwoInts, "a")[1], Val!CubeOf(<<Swapped>>)}
Singles == {[kind |-> k, cell |-> 3] : k \in {"Int", "Float", "Bool", "Time", "Decimal"}}
             \cup {[kind |-> "Text", cell |-> 5], [kind |-> "Null", cell |-> Val!Null]}
Tagged(variant, S) == {<<variant, x>> : x \in S}
Leaves == <<Tagged("Scalar", Singles), Tagged("Array", Arrs), Tagged("ArrayView", ArrViews), Tagged("FieldArray", {t.cols[1] : t \in Tabs \ {Val!NoTable}}),
            Tagged("Table", Tabs), Tagged("TableView", TabVs), Tagged("SuperArray", Chunked), Tagged("SuperArrayView", Sliced),
            Tagged("SuperTable", Batches), Tagged("SuperTableView", BatchViews), Tagged("Matrix", Mats), Tagged("MatrixView", NdViews(Mats)),
            Tagged("NdArray", Nds), Tagged("NdArrayView", NdViews(Nds)), Tagged("SuperNdArray", SuperNds),
            Tagged("SuperNdArrayView", {Windowed(s) : s \in SuperNds}), Tagged("XArray", Labelled), Tagged("Cube", Cubes)>>
RECURSIVE Take(_, _)
Take(S, n) == IF n = 0 \/ S = {} THEN {} ELSE LET x == CHOOSE x \in S : TRUE IN {x} \cup Take(S \ {x}, n - 1)
Together(S) == Take({v \in S : Val!LenOf(v) > 0 /\ ~Val!TakenForOne(v)}, 4)
Lists(S) == {<<"VecValue", <<v>>>> : v \in S} \cup {<<"VecValue", <<v, w>>>> : v \in S, w \in S}
              \cup {<<"VecValue", <<v, w, v>>>> : v \in Take(S, 2), w \in S}
Boxed(S)  == {<<b, v>> : b \in {"BoxValue", "ArcValue"}, v \in Together(S)} \cup {<<"ArcValue", l>> : l \in Take(Lists(Together(S)), 3)}
Sorts == <<<<"Scalar", [kind |-> "Int", cell |-> 3]>>, <<"Array", Ints>>, <<"TableView", Wide>>, <<"Scalar", [kind |-> "Null", cell |-> Val!Null]>>,
           <<"BoxValue", <<"Table", OneInt>>>>, <<"XArray", [nd |-> Val!Nd(1, 3, <<<<1, 2, 3>>>>), labels |-> <<"x">>]>>>>
TupleOf(n) == <<Val!TupleName[n], SubSeq(Sorts, 1, n)>>
OtherTuple(n) == <<Val!TupleName[n], [i \in 1..n |-> Sorts[IF i = n THEN 1 ELSE i]]>>
Gathered == {TupleOf(n) : n \in 2..6} \cup {OtherTuple(n) : n \in 2..6} \cup {<<"VecValue", SubSeq(Sorts, 1, n)>> : n \in 0..6}
              \cup {<<"BoxValue", TupleOf(2)>>, <<"Custom", <<>>>>, <<"VecValue", <<<<"VecValue", <<Sorts[1]>>>>, <<"VecValue", <<Sorts[1]>>>>>>>>}
ValueSets == Leaves \o [i \in DOMAIN Leaves |-> Lists(Together(Leaves[i]))] \o [i \in DOMAIN Leaves |-> Boxed(Leaves[i])] \o <<Gathered>>
Targets == <<"Array", "Table", "Scalar", "FieldArray", "ArrayView", "TableView", "SuperArray", "SuperArrayView", "SuperTable", "SuperTableView",
             "Cube", "Matrix", "MatrixView", "NdArray", "NdArrayView", "SuperNdArray", "SuperNdArrayView", "XArray", "VecValue",
             "Tuple2", "Tuple3", "Tuple4", "Tuple5", "Tuple6">>
BecomeCalls(S) == {<<"value", Targets[t], v>> : t \in DOMAIN Targets, v \in S} \cup {<<"said", v>> : v \in S}
Sliceable(S) == {v \in S : v[1] \notin {"Cube", "VecValue", "Custom"} \cup Val!Tuples /\ Val!Opened(v)[1] \notin {"Cube", "VecValue"} \cup Val!Tuples}
SliceCalls(S) == {c \in {<<"slice", v, o, n, o2, n2>> : v \in Sliceable(S), o \in 0..1, n \in 0..2, o2 \in 0..1, n2 \in 0..1} :
                    /\ c[3] + c[4] <= Val!LenOf(c[2])
                    /\ c[5] + c[6] <= c[4]
                    /\ Val!Opened(c[2])[1] = "Scalar" => c[4] = 1}
JoinCalls(S) == {<<"concat", v, w>> : v \in S, w \in S}
Three(S) == UNION {[1..n -> Take(S, 3)] : n \in 0..3}
TogetherCalls(S) == {<<"consolidate", s>> : s \in Three(Together(S))}
ArrayRuns == UNION {[1..n -> {<<"ArrayView", Val!View(a, o, 1)>> : a \in {Ints, Holes}, o \in 0..2}] : n \in 1..3}
TableRuns == UNION {[1..n -> {<<"TableView", Val!TabV(t, o, 1)>> : t \in {TwoInts, OneInt}, o \in 0..2}] : n \in 1..3}
Renaming(t, name) == [t EXCEPT !.name = name]
CubeOps == {<<"add", TwoInts>>, <<"add", Renaming(OneInt, "t")>>, <<"add", Swapped>>, <<"removeAt", 1>>, <<"removeAt", 2>>, <<"remove", "t">>,
            <<"remove", "s">>, <<"clear", "">>, <<"rebuild", "">>, <<"rename", "u">>, <<"dropCol", "a">>, <<"dropColAt", 1>>, <<"slice", 1>>, <<"select", {"b"}>>}
Starts == {Val!EmptyCube, Val!CubeOf(<<TwoInts, Swapped>>), Val!NewCube(TwoInts, <<"a">>)[1], Val!NewCube(TwoInts, <<>>)[1]}
CubeCalls(n) == {<<"cube", c, ops, names>> : c \in Starts, ops \in [1..n -> CubeOps], names \in {{"a"}, {"b", "z"}}}
Keyed(kind, keys) == {Tabled("k", <<"key", "b">>, <<Val!Made(kind, k), Ints>>) : k \in [1..3 -> keys]}
                       \cup {Tabled("k", <<"key">>, <<Val!Made(kind, k)>>) : k \in [1..3 -> keys]}
GroupCalls == {<<"group", t, name>> : t \in Keyed("Int", {1, 2, Val!Null}) \cup Keyed("Text", {5, Val!NullWord, Val!Null}), name \in {"key", "b"}}
ValueCalls(sets, n) ==
  [i \in DOMAIN sets |-> BecomeCalls(sets[i])]
    \o [i \in DOMAIN sets |-> SliceCalls(sets[i])]
    \o [i \in DOMAIN sets |-> JoinCalls(sets[i])]
    \o [i \in DOMAIN sets |-> TogetherCalls(sets[i])]
    \o <<{<<"consolidate", s>> : s \in ArrayRuns}, {<<"consolidate", s>> : s \in TableRuns}>>
    \o [k \in 1..n |-> CubeCalls(k)] \o <<GroupCalls>>

(* One set of calls for each type, or for each two.                        *)
CallsWith(k, S) == CASE k = 0 -> CallsOn(S) [] k = 1 -> UnifyCalls(S) [] k = 2 -> ViewCalls(S)
CallsBetween(k, t, u) == IF k = 0 THEN OperationCalls(t, u) ELSE CollectCalls(t, u)
Kinds == Len(EveryType)
T(i) == EveryType[1 + (i % Kinds)]
MCConversions ==
  [i \in 1..Kinds |-> {<<"scalar", x>> : x \in OneOf(T(i), Borders)}]
    \o [i \in 1..3 * Kinds |-> CallsWith(i % 3, ArraysOf(T(i \div 3)))]
    \o [i \in 1..2 * Kinds^2 |-> CallsBetween(i % 2, T(i \div 2), T(i \div (2 * Kinds)))]
    \o [i \in 1..9 |-> CallsWith((i - 1) % 3, Coded(<<"Categorical16", "Categorical32", "Categorical64">>[1 + ((i - 1) \div 3)]))]
    \o <<TextElements>> \o ValueCalls(ValueSets, 2)
=============================================================================
