----------------------------- MODULE ArrowFormat -----------------------------
(***************************************************************************)
(* What an exported schema says of a field, and what an importer reads in  *)
(* it (ffi/arrow_c_ffi.rs): format strings, flags, metadata, dictionary.   *)
(*                                                                         *)
(* A type is a tuple of its name and parameters, a format the tuple of the *)
(* parts of its string.  <<"panic">> is a call that panics.                *)
(***************************************************************************)
EXTENDS Integers, Sequences, TLC

Panic == <<"panic">>

(* fmt_c: the formats without a parameter. *)
Letter == [Null |-> "n", Boolean |-> "b", Int8 |-> "c", UInt8 |-> "C", Int16 |-> "s", UInt16 |-> "S",
           Int32 |-> "i", UInt32 |-> "I", Int64 |-> "l", UInt64 |-> "L", Float32 |-> "f",
           Float64 |-> "g", String |-> "u", LargeString |-> "U", Utf8View |-> "vu",
           Date32 |-> "tdD", Date64 |-> "tdm"]

Lettered == [Time32     |-> [Seconds |-> "tts", Milliseconds |-> "ttm"],
             Time64     |-> [Microseconds |-> "ttu", Nanoseconds |-> "ttn"],
             Duration32 |-> [Seconds |-> "tDs", Milliseconds |-> "tDm"],
             Duration64 |-> [Microseconds |-> "tDu", Nanoseconds |-> "tDn"],
             Interval   |-> [YearMonth |-> "tiM", DaysTime |-> "tiD", MonthDaysNs |-> "tin"],
             Dictionary |-> [UInt8 |-> "C", UInt16 |-> "S", UInt32 |-> "I", UInt64 |-> "L"]]

TimestampPrefix == [Seconds |-> "tss:", Milliseconds |-> "tsm:",
                    Microseconds |-> "tsu:", Nanoseconds |-> "tsn:"]

DecimalSuffix == [Decimal32 |-> <<"32">>, Decimal64 |-> <<"64">>, Decimal128 |-> <<>>]

NoZone == "none"

FmtC(t) ==
  CASE t[1] \in DOMAIN Letter        -> <<Letter[t[1]]>>
    [] t[1] \in DOMAIN Lettered      -> IF t[2] \in DOMAIN Lettered[t[1]]
                                        THEN <<Lettered[t[1]][t[2]]>> ELSE Panic
    [] t[1] = "Timestamp"            -> IF t[2] \in DOMAIN TimestampPrefix
                                        THEN <<TimestampPrefix[t[2]], IF t[3] = NoZone THEN "" ELSE t[3]>>
                                        ELSE Panic
    [] t[1] \in DOMAIN DecimalSuffix -> <<"d:", t[2], t[3]>> \o DecimalSuffix[t[1]]

(* parse_arrow_format *)
Plain == [n |-> <<"Null">>, b |-> <<"Boolean">>, c |-> <<"Int8">>, C |-> <<"UInt8">>,
          s |-> <<"Int16">>, S |-> <<"UInt16">>, i |-> <<"Int32">>, I |-> <<"UInt32">>,
          l |-> <<"Int64">>, L |-> <<"UInt64">>, f |-> <<"Float32">>, g |-> <<"Float64">>,
          u |-> <<"String">>, U |-> <<"LargeString">>, vu |-> <<"Utf8View">>,
          tdD |-> <<"Date32">>, tdm |-> <<"Date64">>,
          tts |-> <<"Time32", "Seconds">>, ttm |-> <<"Time32", "Milliseconds">>,
          ttu |-> <<"Time64", "Microseconds">>, ttn |-> <<"Time64", "Nanoseconds">>,
          tDs |-> <<"Duration32", "Seconds">>, tDm |-> <<"Duration32", "Milliseconds">>,
          tDu |-> <<"Duration64", "Microseconds">>, tDn |-> <<"Duration64", "Nanoseconds">>,
          tiM |-> <<"Interval", "YearMonth">>, tiD |-> <<"Interval", "DaysTime">>,
          tin |-> <<"Interval", "MonthDaysNs">>]

Zoned == ("tss:" :> "Seconds") @@ ("tsm:" :> "Milliseconds")
           @@ ("tsu:" :> "Microseconds") @@ ("tsn:" :> "Nanoseconds")

WidthIgnored(parts) ==  \* a mutant: the third part of the format is not read
  IF Len(parts) \in 2..3 THEN <<"Decimal128", parts[1], parts[2]>> ELSE Panic
ParseDecimalFormat(parts) ==
  CASE Len(parts) = 2 -> <<"Decimal128">> \o parts
    [] Len(parts) = 3 /\ parts[3] = "32"  -> <<"Decimal32", parts[1], parts[2]>>
    [] Len(parts) = 3 /\ parts[3] = "64"  -> <<"Decimal64", parts[1], parts[2]>>
    [] Len(parts) = 3 /\ parts[3] = "128" -> <<"Decimal128", parts[1], parts[2]>>
    [] OTHER -> Panic

ParseArrowFormat(fmt) ==
  CASE fmt[1] \in DOMAIN Plain -> Plain[fmt[1]]
    [] fmt[1] = "d:"           -> ParseDecimalFormat(Tail(fmt))
    [] fmt[1] \in DOMAIN Zoned -> <<"Timestamp", Zoned[fmt[1]], IF fmt[2] = "" THEN NoZone ELSE fmt[2]>>
    [] OTHER -> Panic

-----------------------------------------------------------------------------
(* Schemas.  A field is [dtype, nullable, metadata]; names are carried     *)
(* along by every export.                                                  *)

Encoded(f) == f.metadata

(* create_arrow_export and export_categorical_array_to_c: the flag written *)
(* is 1, and only these exports give a dictionary schema.                  *)
PairSchema(f) == [format |-> FmtC(f.dtype), flags |-> IF f.nullable THEN 1 ELSE 0,
                  metadata |-> Encoded(f), dictionary |-> f.dtype[1] = "Dictionary"]

(* The schema of a stream of batches, one child for every column. *)
BatchSchema(f) == [format |-> FmtC(f.dtype), flags |-> IF f.nullable THEN 2 ELSE 0,
                   metadata |-> Encoded(f), dictionary |-> FALSE]
RbStreamGetSchema(fields) == [c \in DOMAIN fields |-> BatchSchema(fields[c])]
RbProducerStreamGetSchema(fields) == [c \in DOMAIN fields |-> BatchSchema(fields[c])]
RbViewStreamGetSchema(fields) == [c \in DOMAIN fields |-> BatchSchema(fields[c])]

(* The schema of a stream of arrays leaves the metadata out. *)
ArrStreamGetSchema(f) == [BatchSchema(f) EXCEPT !.metadata = {}]
ArrViewStreamGetSchema(f) == [BatchSchema(f) EXCEPT !.metadata = {}]

(* field_from_c_schema *)
IndexTypes == [c |-> "UInt8", C |-> "UInt8", s |-> "UInt16", S |-> "UInt16",
               i |-> "UInt32", I |-> "UInt32", l |-> "UInt64", L |-> "UInt64"]
FieldFromCSchema(schema) ==
  [dtype    |-> IF ~schema.dictionary THEN ParseArrowFormat(schema.format)
                ELSE IF schema.format[1] \in DOMAIN IndexTypes
                THEN <<"Dictionary", IndexTypes[schema.format[1]]>> ELSE Panic,
   nullable |-> (schema.flags \div 2) % 2 = 1,
   metadata |-> schema.metadata]

(* A text view arrives as text. *)
ImportedField(schema) ==
  LET f == FieldFromCSchema(schema)
  IN  [f EXCEPT !.dtype = IF @ = <<"Utf8View">> THEN <<"String">> ELSE @]

(* The array under the schema says that it is a categorical one. *)
ImportedArray(schema, categorical) ==
  LET dtype == FieldFromCSchema(schema).dtype
  IN  IF ~categorical THEN dtype
      ELSE IF dtype[1] = "Dictionary" THEN dtype
      ELSE CASE dtype[1] \in {"Int8", "UInt8"}   -> <<"Dictionary", "UInt8">>
             [] dtype[1] \in {"Int16", "UInt16"} -> <<"Dictionary", "UInt16">>
             [] dtype[1] \in {"Int32", "UInt32"} -> <<"Dictionary", "UInt32">>
             [] dtype[1] \in {"Int64", "UInt64"} -> <<"Dictionary", "UInt64">>
             [] OTHER -> Panic

Ways == {"pair", "batches", "producer", "batch views", "chunks", "chunk views"}
SchemaOf(f, way) == CASE way = "pair"        -> PairSchema(f)
                      [] way = "batches"     -> RbStreamGetSchema(<<f>>)[1]
                      [] way = "producer"    -> RbProducerStreamGetSchema(<<f>>)[1]
                      [] way = "batch views" -> RbViewStreamGetSchema(<<f>>)[1]
                      [] way = "chunks"      -> ArrStreamGetSchema(f)
                      [] way = "chunk views" -> ArrViewStreamGetSchema(f)

-----------------------------------------------------------------------------
(* A type that can be exported is imported as itself by every way, except  *)
(* that an empty time zone is none, and that the field (not the array) of  *)
(* a categorical column comes out of a stream as its index type; nothing   *)
(* else of the field is lost but the metadata of chunks and the nullable   *)
(* flag of single arrays.                                                  *)
Normal(t) == CASE t = <<"Utf8View">> -> <<"String">>
               [] t[1] = "Timestamp" -> [t EXCEPT ![3] = IF @ = "" THEN NoZone ELSE @]
               [] OTHER -> t

Survives(f, way) ==
  LET schema == SchemaOf(f, way)
      got == ImportedField(schema)
      categorical == f.dtype[1] = "Dictionary"
  IN  FmtC(f.dtype) # Panic =>
        /\ IF categorical /\ way # "pair" THEN got.dtype = <<f.dtype[2]>> ELSE got.dtype = Normal(f.dtype)
        /\ categorical => ImportedArray(schema, TRUE) = f.dtype
        /\ got.nullable = (f.nullable /\ way # "pair")
        /\ way \notin {"chunks", "chunk views"} => got.metadata = f.metadata
=============================================================================
