------------------------------- MODULE Compute -------------------------------
(***************************************************************************)
(* The calls of the library that keep no state, each made once with every  *)
(* input of a small set: what broadcast_value pairs, what a field is after *)
(* its schema was exported and imported, what the arithmetic kernels give. *)
(***************************************************************************)
EXTENDS Integers, Sequences

CONSTANTS Operators,   \* of the arithmetic that is broadcast
          Pairings,    \* the values it is broadcast over, as <<left, right>>
          Fields,      \* that are exported, as [dtype, nullable, metadata]
          Kernels,     \* calls of the kernels: sets of <<area, arguments>>
          Conversions  \* calls that convert scalars, arrays and views: likewise

B == INSTANCE Broadcast
F == INSTANCE ArrowFormat
A == INSTANCE ArithmeticKernels
C == INSTANCE ArrayCasts
X == INSTANCE Text
D == INSTANCE Dates
Val == INSTANCE Values

VARIABLE call
vars == <<call>>

Init == call = <<"none">>

Broadcasts == \E op \in Operators, p \in Pairings : call' = <<"broadcast", op, p[1], p[2]>>
Exports    == \E f \in Fields, way \in F!Ways : call' = <<"export", f, way>>
Computes   == \E i \in DOMAIN Kernels : \E c \in Kernels[i] : call' = c
Converts   == \E calls \in {Conversions} : \E i \in DOMAIN calls : \E c \in calls[i] : call' = c

Next == call = <<"none">> /\ (Broadcasts \/ Exports \/ Computes \/ Converts)
Spec == Init /\ [][Next]_vars

-----------------------------------------------------------------------------
(* Operands keep their sides, rows and columns under the operator of the   *)
(* call, whatever containers they come in (broadcast_value).               *)
OperandsKeepTheirPlaces ==
  call[1] = "broadcast" =>
    /\ B!Keeps(call[2], call[3], call[4])
    /\ B!KeepsKind(call[2], call[3], call[4])
    /\ call[2] = "add" => B!KeepsAdding(call[3], call[4])

(* A field survives the C schema it is exported as (fmt_c and              *)
(* parse_arrow_format, which are written apart from each other).           *)
FieldsSurviveExport == call[1] = "export" => F!Survives(call[2], call[3])

(* Every row of a kernel is its operation on the operands of that row,     *)
(* exactly: in vectors as in scalar code, under nulls, between scales and  *)
(* between types (kernels/arithmetic, routing/arithmetic.rs), and whether  *)
(* text is stored as it is or by code (kernels/string.rs); dates and times *)
(* are those of the calendar (kernels/datetime.rs, variants/datetime).     *)
KernelsAreExact ==
  /\ call[1] = "ints" => /\ A!IntsAreExact(call[2], call[3], call[4], call[5], call[6], call[7])
                         /\ A!ScalarsAgree(call[2], call[3], call[4][1], call[5][1])
  /\ call[1] = "datetimes" => A!DatetimesAreExact(call[2], call[3], call[4], call[5], call[6])
  /\ call[1] = "floats" => A!FloatsFollow(call[2], call[3], call[4], call[5])
  /\ call[1] = "decimals" =>
       /\ A!DecimalsAreExact(call[2], call[3], call[4], call[5])
       /\ A!ComparesExactly(call[2], call[4], call[5])
  /\ call[1] = "rescale" => A!RescalesAreExact(call[2], call[3], call[4]) /\ A!ConversionsAreExact(call[2], call[3])
  /\ call[1] = "typed" => A!RowsStayPaired(call[2], call[3], call[4])
  /\ call[1] = "scalars" => A!ScalarsStayPaired(call[2], call[3], call[4]) /\ A!BothOrders(call[2], call[3], call[4])
  /\ call[1] = "text"     => X!OneText(call[2], call[3], call[4], call[5])
  /\ call[1] = "texts"    => X!TwoTexts(call[2], call[3])
  /\ call[1] = "textnumber" => X!TextAndNumber(call[2], call[3], call[4])
  /\ call[1] = "crosstab" => X!Tabulates(call[2], call[3])
  /\ call[1] = "truncate" => D!TruncatesToStart(call[2], call[3], call[4])
  /\ call[1] = "months"   => D!MonthsAreKept(call[2], call[3])
  /\ call[1] = "duration" => D!DurationsAreKept(call[2], call[3])
  /\ call[1] = "parts"    => D!PartsAgree(call[2])
  /\ call[1] = "order"    => D!OrderAgrees(call[2], call[3])
  /\ call[1] = "cast"     => D!CastsHold(call[2], call[3])
  /\ call[1] = "parse"    => D!ParsesToItsFields(call[2])

(* A conversion gives the value itself, or what its type can hold of it, or*)
(* says that it has none: scalars by methods that panic and by others that *)
(* do not, arrays row by row with their nulls, elements one by one, and    *)
(* views their windows (scalar.rs, conversions.rs, array.rs, array_view.rs)*)
ConversionsAreExact ==
  /\ call[1] = "scalar"    => C!ScalarConverts(call[2]) /\ C!OneScalar(call[2])
  /\ call[1] = "operation" => C!ScalarOperates(call[2], call[3], call[4]) /\ C!SameHash(call[3], call[4])
  /\ call[1] = "array"     => C!ArrayConverts(call[2]) /\ C!Elements(call[2], call[2])
  /\ call[1] = "elements"  => C!Elements(call[2], call[3])
  /\ call[1] = "unify"     => C!Unifies(call[2], call[3])
  /\ call[1] = "view"      => C!ViewReads(call[2])
  /\ call[1] = "collect"   => C!ScalarsComeBack(call[2])
  /\ call[1] = "value"       => Val!ConvertsExactly(call[2], call[3]) /\ Val!OpensAlone(call[2], call[3])
  /\ call[1] = "said"        => Val!SpeaksTruly(call[2]) /\ Val!TypedViews(call[2])
  /\ call[1] = "slice"       => Val!SlicesHold(call[2], call[3], call[4], call[5], call[6])
  /\ call[1] = "concat"      => Val!Appends(call[2], call[3]) /\ Val!EqualHoldSame(call[2], call[3])
  /\ call[1] = "consolidate" => Val!ConsolidatesAll(call[2])
  /\ call[1] = "cube"        => Val!CubeHoldsItsTables(call[2], call[3], call[4]) /\ Val!SameOrderAfter(call[2], call[3])
  /\ call[1] = "group"       => Val!GroupsRows(call[2], call[3])
=============================================================================
