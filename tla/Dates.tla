------------------------------- MODULE Dates -------------------------------
(***************************************************************************)
(* Datetime arrays: kernels/datetime.rs, structs/variants/datetime/ and    *)
(* the enumeration and the views over them.  An array is                   *)
(* [dtype, data, mask], its dtype [kind, unit, tz].  Days and years are    *)
(* those of the calendar.  A second has Step^3 nanoseconds, where the code *)
(* has 1,000^3, and 32-bit storage ends at Limit32, so that it can be met. *)
(***************************************************************************)
EXTENDS Integers, Sequences, FiniteSets
LOCAL INSTANCE SequencesExt

Step    == 10
Limit32 == 32000000
Limit64 == 2147483647
SecondsPerDay == 86400

Some(x) == <<x>>
None    == <<>>
NoMask  == <<>>
Refused == <<>>
Quot(m, n) == IF m < 0 THEN -((-m) \div n) ELSE m \div n   \* towards zero
Rem(m, n)  == m - n * Quot(m, n)

NullArray == [dtype |-> [kind |-> "Null", unit |-> "Days", tz |-> ""], data |-> <<>>, mask |-> NoMask]
TimeUnit(dtype) ==
  CASE dtype.kind = "Date32" -> "Days"
    [] dtype.kind = "Date64" -> "Milliseconds"
    [] OTHER                 -> dtype.unit
Width(dtype) ==
  CASE dtype.kind \in {"Date32", "Time32", "Duration32"}              -> 32
    [] dtype.kind \in {"Date64", "Time64", "Duration64", "Timestamp"} -> 64
    [] OTHER                                                          -> 0
IsNull(a, i)    == a.mask # NoMask /\ ~a.mask[i]
Fits(a, v)      == Width(a.dtype) = 32 => v \in -Limit32..Limit32 - 1
Stored(a, v)    == IF Fits(a, v) THEN Some(v) ELSE None
PerSecond(unit) ==
  CASE unit = "Seconds"      -> 1
    [] unit = "Milliseconds" -> Step
    [] unit = "Microseconds" -> Step * Step
    [] unit = "Nanoseconds"  -> Step * Step * Step
Nano == PerSecond("Nanoseconds")
Values(a) == [i \in DOMAIN a.data |-> IF IsNull(a, i) THEN None ELSE Some(a.data[i])]

-----------------------------------------------------------------------------
(* The calendar, and instants in it, of the time crate (external).         *)
EpochJulian == 2440588
MinDay == -1930999 - EpochJulian
MaxDay == 5373484 - EpochJulian
Leap(y) == (y % 4 = 0 /\ y % 100 # 0) \/ y % 400 = 0
MonthLength(y, m) == IF m = 2 /\ Leap(y) THEN 29 ELSE <<31, 28, 31, 30, 31, 30, 31, 31, 30, 31, 30, 31>>[m]
YearStart(y) == 365 * (y - 1970) + ((y - 1) \div 4) - ((y - 1) \div 100) + ((y - 1) \div 400) - 477
MonthStart(y, m) ==
  YearStart(y) + <<0, 31, 59, 90, 120, 151, 181, 212, 243, 273, 304, 334>>[m] + (IF m > 2 /\ Leap(y) THEN 1 ELSE 0)
YearNear(day, near) == CHOOSE y \in near - 1..near + 1 : YearStart(y) <= day /\ day < YearStart(y + 1)
YearOf(day)  == YearNear(day, 1970 + ((400 * day) \div 146097))
MonthIn(y, day) == CHOOSE m \in 1..12 : MonthStart(y, m) <= day /\ day < MonthStart(y, m) + MonthLength(y, m)
MonthOf(day) == MonthIn(YearOf(day), day)
DayIn(y, day) == day - MonthStart(y, MonthIn(y, day)) + 1
DayOf(day)   == DayIn(YearOf(day), day)
WeekDay(day) == ((day + 4) % 7) + 1   \* from Sunday on
Thursday(day) == day - ((day + 3) % 7) + 3
IsoWeek(day) == LET t == Thursday(day) IN ((t - YearStart(YearOf(t))) \div 7) + 1

At(day, second, sub) == [day |-> day, second |-> second, sub |-> sub]
Timestamp(t) == SecondsPerDay * t.day + t.second
Earlier(t, u) == \/ t.day < u.day
                 \/ t.day = u.day /\ t.second < u.second
                 \/ t.day = u.day /\ t.second = u.second /\ t.sub < u.sub
Elapsed(t, u) ==   \* seconds and nanoseconds, of one sign
  LET s == SecondsPerDay * (t.day - u.day) + (t.second - u.second)  n == t.sub - u.sub
  IN  CASE s > 0 /\ n < 0 -> [s |-> s - 1, n |-> n + Nano]
        [] s < 0 /\ n > 0 -> [s |-> s + 1, n |-> n - Nano]
        [] OTHER          -> [s |-> s, n |-> n]
Whole(d, unit) ==
  IF unit = "Days" THEN Quot(d.s, SecondsPerDay)
  ELSE PerSecond(unit) * d.s + Quot(d.n * PerSecond(unit), Nano)
Part(t, field) ==
  CASE field = "year"        -> YearOf(t.day)
    [] field = "month"       -> MonthOf(t.day)
    [] field = "day"         -> DayOf(t.day)
    [] field = "hour"        -> t.second \div 3600
    [] field = "minute"      -> (t.second % 3600) \div 60
    [] field = "second"      -> t.second % 60
    [] field = "weekday"     -> WeekDay(t.day)
    [] field = "day_of_year" -> t.day - YearStart(YearOf(t.day)) + 1
    [] field = "iso_week"    -> IsoWeek(t.day)
PlainParts == {"year", "month", "day", "hour", "minute", "second", "weekday", "day_of_year", "iso_week"}
Parts == PlainParts \cup {"quarter", "week_of_year"}

-----------------------------------------------------------------------------
(* From stored values to instants and back.  Days are divided out of the   *)
(* seconds of the instant, towards zero.                                   *)
InCalendar(day, second, sub) == IF day \in MinDay..MaxDay THEN Some(At(day, second, sub)) ELSE None
AfterEpoch(seconds, sub) == InCalendar(seconds \div SecondsPerDay, seconds % SecondsPerDay, sub)
FromTicks(v, per) == AfterEpoch(v \div per, (v % per) * (Nano \div per))
FromValue(v, unit) == IF unit = "Days" THEN InCalendar(v, 0, 0) ELSE FromTicks(v, PerSecond(unit))
ToValue(t, unit) ==
  IF unit = "Days" THEN IF t.day < 0 /\ t.second > 0 THEN t.day + 1 ELSE t.day
  ELSE PerSecond(unit) * Timestamp(t) + (t.sub * PerSecond(unit)) \div Nano
DatetimeAt(a, i) == IF IsNull(a, i) \/ i > Len(a.data) THEN None ELSE FromValue(a.data[i], TimeUnit(a.dtype))
Raw(a, i)        == FromValue(a.data[i], TimeUnit(a.dtype))   \* whether or not it is null

AsDatetime(a, i) == IF i > Len(a.data) \/ IsNull(a, i) THEN None ELSE FromValue(a.data[i], TimeUnit(a.dtype))
TupleDt(a, i) ==
  LET t == AsDatetime(a, i)
  IN  IF t = None THEN None
      ELSE Some([year |-> Part(t[1], "year"), month |-> Part(t[1], "month"), day |-> Part(t[1], "day"),
                 hour |-> Part(t[1], "hour"), minute |-> Part(t[1], "minute"), second |-> Part(t[1], "second"),
                 millisecond |-> (t[1].sub * Step) \div Nano, nanosecond |-> t[1].sub])
Tz(a, zone) == [a EXCEPT !.dtype = [kind |-> "Timestamp", unit |-> TimeUnit(a.dtype), tz |-> zone]]

(* What a kernel writes for computed rows: the old value where it has none.*)
Written(a, off, rows, mask) ==
  [out  |-> [i \in DOMAIN rows |-> IF rows[i] = None THEN a.data[off + i] ELSE rows[i][1]],
   mask |-> IF mask = NoMask THEN NoMask ELSE [i \in DOMAIN rows |-> rows[i] # None]]
Judged(rows, mask, blank) ==   \* predicates and differences: masks are only cleared
  [out  |-> [i \in DOMAIN rows |-> IF rows[i] = None THEN blank ELSE rows[i][1]],
   mask |-> IF mask = NoMask THEN NoMask ELSE [i \in DOMAIN rows |-> mask[i] /\ rows[i] # None]]
MaskOf(a)    == IF a.mask = NoMask THEN [i \in DOMAIN a.data |-> TRUE] ELSE a.mask
HasCleared(mask) == \E i \in DOMAIN mask : ~mask[i]
Kept(needed, mask) == IF needed \/ HasCleared(mask) THEN mask ELSE NoMask
Rebuilt(a, w) == [a EXCEPT !.data = w.out, !.mask = Kept(a.mask # NoMask, w.mask)]

-----------------------------------------------------------------------------
(* Truncation: to the day in a calendar that begins in March, so that the  *)
(* leap day ends its year; below the day, of the second of the day.        *)
EraShift == (((-(MinDay + 719468)) \div 146097) + 1) * 146097
YearAndMonthStart(day) ==
  LET doe   == (day + 719468 + EraShift) % 146097
      yoe   == (doe - (doe \div 1460) + (doe \div 36524) - (doe \div 146096)) \div 365
      doy   == doe - (365 * yoe + (yoe \div 4) - (yoe \div 100))
      month == (5 * doy + 2) \div 153
      leap  == IF yoe % 4 = 0 /\ (yoe % 100 # 0 \/ yoe = 0) THEN 1 ELSE 0
  IN  [year  |-> IF month >= 10 THEN day - (doy - 306) ELSE day - doy - 59 - leap,
       month |-> day - (doy - ((153 * month + 2) \div 5))]
FloorCalendar(v, period, unit) ==
  LET seconds == v \div PerSecond(unit)
      day     == IF unit = "Days" THEN v ELSE seconds \div SecondsPerDay
      second  == IF unit = "Days" THEN 0 ELSE seconds % SecondsPerDay
      week    == day - ((day + 4) % 7)
      Scaled(d, s) == IF unit = "Days" THEN Some(d) ELSE Some((SecondsPerDay * d + s) * PerSecond(unit))
  IN  CASE day \notin MinDay..MaxDay -> None
        [] period = "year"           -> Scaled(YearAndMonthStart(day).year, 0)
        [] period = "month"          -> Scaled(YearAndMonthStart(day).month, 0)
        [] period = "week"           -> IF week < MinDay THEN None ELSE Scaled(week, 0)
        [] period = "day"            -> Scaled(day, 0)
        [] period = "hour"           -> Scaled(day, second - (second % 3600))
        [] period = "minute"         -> Scaled(day, second - (second % 60))
        [] period = "second"         -> Scaled(day, second)
SubSecond == {"millisecond", "microsecond"}
Divisor(period, unit) ==
  CASE period = "microsecond" /\ unit = "Nanoseconds"  -> Step
    [] period = "millisecond" /\ unit = "Nanoseconds"  -> Step * Step
    [] period = "millisecond" /\ unit = "Microseconds" -> Step
    [] OTHER                                           -> 1
TruncateInto(a, off, n, period, mask) ==
  LET unit == TimeUnit(a.dtype)
      Floor(v) == IF period \in SubSecond THEN Some((v \div Divisor(period, unit)) * Divisor(period, unit))
                  ELSE FloorCalendar(v, period, unit)
      Row(i) == LET v == Floor(a.data[i]) IN IF IsNull(a, i) \/ v = None THEN None ELSE Stored(a, v[1])
  IN  Written(a, off, [i \in 1..n |-> Row(off + i)], mask)
Truncate(a, period) == Rebuilt(a, TruncateInto(a, 0, Len(a.data), period, MaskOf(a)))
Shorthands == [us |-> "microsecond", ms |-> "millisecond", sec |-> "second",
               min |-> "minute", hr |-> "hour", week |-> "week"]
Truncated(a, name) == Truncate(a, Shorthands[name])

(* Durations, in nanoseconds, are first cut to the unit of the array.      *)
AddDurationInto(a, off, n, duration, mask) ==
  LET unit == TimeUnit(a.dtype)
      by == IF unit = "Days" THEN Quot(duration, SecondsPerDay * Nano) ELSE Quot(duration, Nano \div PerSecond(unit))
  IN  Written(a, off, [i \in 1..n |-> IF IsNull(a, off + i) THEN None ELSE Stored(a, a.data[off + i] + by)], mask)
AddDuration(a, duration) == Rebuilt(a, AddDurationInto(a, 0, Len(a.data), duration, MaskOf(a)))
SubDuration(a, duration) == AddDuration(a, -duration)
AddDays(a, days) == AddDuration(a, days * SecondsPerDay * Nano)

(* Months, from year 0 on: a month counted back across it is none.         *)
Shifted(t, months) ==
  LET total == 12 * YearOf(t.day) + MonthOf(t.day) - 1 + months
      y == Quot(total, 12)  m == Rem(total, 12) + 1
      Smaller(p, q) == IF p < q THEN p ELSE q
  IN  IF m < 1 \/ y \notin YearOf(MinDay)..YearOf(MaxDay) THEN None
      ELSE Some(At(MonthStart(y, m) + Smaller(DayOf(t.day), MonthLength(y, m)) - 1, t.second, t.sub))
AddMonthsInto(a, off, n, months, mask) ==
  LET Row(i) == LET t == DatetimeAt(a, i)  u == Shifted(t[1], months)
                IN  IF t = None THEN None ELSE IF u = None THEN None ELSE Stored(a, ToValue(u[1], TimeUnit(a.dtype)))
  IN  Written(a, off, [i \in 1..n |-> Row(off + i)], mask)
AddMonths(a, months) == Rebuilt(a, AddMonthsInto(a, 0, Len(a.data), months, MaskOf(a)))
AddYears(a, years)   == AddMonths(a, 12 * years)

-----------------------------------------------------------------------------
(* Fields of the instants: by kernels, by methods, and by windows.         *)
Field(t, field) ==
  CASE field = "quarter"      -> ((Part(t, "month") - 1) \div 3) + 1
    [] field = "week_of_year" -> (Part(t, "day_of_year") + 7 - Part(t, "weekday")) \div 7
    [] OTHER                  -> Part(t, field)
ExtractI32Into(a, off, n, field, mask) ==
  LET rows == [i \in 1..n |-> LET t == DatetimeAt(a, off + i) IN IF t = None THEN None ELSE Some(Field(t[1], field))]
  IN  [out  |-> [i \in 1..n |-> IF rows[i] = None THEN 0 ELSE rows[i][1]],
       mask |-> IF mask = NoMask THEN NoMask ELSE [i \in 1..n |-> rows[i] # None]]
PlainPart(a, field) ==
  [i \in DOMAIN a.data |-> LET t == DatetimeAt(a, i) IN IF t = None THEN None ELSE Some(Part(t[1], field))]
Quarter(a) ==
  [i \in DOMAIN a.data |->
     LET t == DatetimeAt(a, i) IN IF t = None THEN None ELSE Some(((Part(t[1], "month") - 1) \div 3) + 1)]
WeekOfYear(a) ==
  [i \in DOMAIN a.data |->
     LET t == DatetimeAt(a, i)
     IN  IF t = None THEN None ELSE Some((Part(t[1], "day_of_year") + 7 - Part(t[1], "weekday")) \div 7)]
PartOf(a, field) ==
  CASE field = "quarter" -> Quarter(a) [] field = "week_of_year" -> WeekOfYear(a) [] OTHER -> PlainPart(a, field)

Holds(t, test) ==
  LET y == YearOf(t.day)  m == MonthOf(t.day)  d == DayOf(t.day)
  IN  CASE test = "is_leap_year"   -> Leap(y)
        [] test = "is_month_start" -> d = 1
        [] test = "is_month_end"   -> d = MonthLength(y, m)
        [] test = "is_year_start"  -> m = 1 /\ d = 1
        [] test = "is_year_end"    -> m = 12 /\ d = 31
Tests == {"is_leap_year", "is_month_start", "is_month_end", "is_year_start", "is_year_end"}
ExtractBoolInto(a, off, n, test, mask) ==
  Judged([i \in 1..n |-> LET t == Raw(a, off + i) IN IF t = None THEN None ELSE Some(Holds(t[1], test))], mask, FALSE)
IsLeapYear(a) ==
  LET w == ExtractBoolInto(a, 0, Len(a.data), "is_leap_year", MaskOf(a))
  IN  [data |-> w.out, mask |-> Kept(a.mask # NoMask, w.mask)]

-----------------------------------------------------------------------------
(* Two arrays, each read in its own unit.                                  *)
Ordered(t, u, test) == IF test = "before" THEN Earlier(t, u) ELSE Earlier(u, t)
BinaryBoolInto(l, lo, r, ro, n, test, mask) ==
  LET Row(t, u) == IF t = None \/ u = None THEN None ELSE Some(Ordered(t[1], u[1], test))
  IN  Judged([i \in 1..n |-> Row(Raw(l, lo + i), Raw(r, ro + i))], mask, FALSE)
IsBeforeInto(l, lo, r, ro, n, mask) == BinaryBoolInto(l, lo, r, ro, n, "before", mask)
IsAfterInto(l, lo, r, ro, n, mask)  == BinaryBoolInto(l, lo, r, ro, n, "after", mask)
BetweenInto(v, vo, s, so, e, eo, n, mask) ==
  LET Row(t, u, w) == IF None \in {t, u, w} THEN None ELSE Some(~Earlier(t[1], u[1]) /\ ~Earlier(w[1], t[1]))
  IN  Judged([i \in 1..n |-> Row(Raw(v, vo + i), Raw(s, so + i), Raw(e, eo + i))], mask, FALSE)
DiffInto(l, lo, r, ro, n, unit, mask) ==
  LET Row(t, u) == IF t = None \/ u = None THEN None ELSE Some(Whole(Elapsed(t[1], u[1]), unit))
  IN  Judged([i \in 1..n |-> Row(Raw(l, lo + i), Raw(r, ro + i))], mask, 0)

Both(a, b) == [i \in DOMAIN a.data |-> MaskOf(a)[i] /\ MaskOf(b)[i]]
Diff(a, b, unit) ==
  IF Len(a.data) # Len(b.data) THEN Refused
  ELSE LET w == DiffInto(a, 0, b, 0, Len(a.data), unit, Both(a, b))
       IN  Some(Values([data |-> w.out, mask |-> Kept(a.mask # NoMask \/ b.mask # NoMask, w.mask)]))
AbsDiff(a, b, unit) ==
  LET rows == Diff(a, b, unit)
      Positive(row) == IF row = None THEN None ELSE IF row[1] < 0 THEN Some(-row[1]) ELSE row
  IN  IF rows = Refused THEN Refused ELSE Some([i \in DOMAIN rows[1] |-> Positive(rows[1][i])])
Compared(a, b, test) ==
  LET Row(t, u) == IF t = None \/ u = None THEN None ELSE Some(Ordered(t[1], u[1], test))
  IN  IF Len(a.data) # Len(b.data) THEN Refused
      ELSE Some([i \in DOMAIN a.data |-> Row(DatetimeAt(a, i), DatetimeAt(b, i))])
IsBefore(a, b) == Compared(a, b, "before")
IsAfter(a, b)  == Compared(a, b, "after")
Between(a, s, e) ==
  LET Row(t, u, w) == IF None \in {t, u, w} THEN None ELSE Some(~Earlier(t[1], u[1]) /\ ~Earlier(w[1], t[1]))
  IN  IF {Len(s.data), Len(e.data)} # {Len(a.data)} THEN Refused
      ELSE Some([i \in DOMAIN a.data |-> Row(DatetimeAt(a, i), DatetimeAt(s, i), DatetimeAt(e, i))])

(* Another unit: of a date only where its type has one.                    *)
CastDtype(dtype, unit) ==
  CASE dtype.kind = "Date32" -> IF unit = "Days" THEN Some(dtype) ELSE None
    [] dtype.kind = "Date64" -> IF unit = "Milliseconds" THEN Some(dtype)
                                ELSE Some([kind |-> "Timestamp", unit |-> unit, tz |-> ""])
    [] OTHER                 -> Some([dtype EXCEPT !.unit = unit])
CastTimeUnit(a, unit) ==
  LET dtype == CastDtype(a.dtype, unit)
      Row(t) == IF t = None THEN None ELSE Stored(a, ToValue(t[1], unit))
  IN  IF dtype = None THEN Refused
      ELSE <<dtype[1], [i \in DOMAIN a.data |-> Row(DatetimeAt(a, i))]>>

-----------------------------------------------------------------------------
(* The enumeration: of two widths, or of nothing.                          *)
IsNothing(a) == a.dtype.kind = "Null"
Matched(arrays) == Cardinality({Width(a.dtype) : a \in arrays}) = 1   \* of one variant
TemporalPart(a, field) == IF IsNothing(a) THEN <<>> ELSE PartOf(a, field)
TemporalAdd(a, kind, n) ==
  CASE IsNothing(a)     -> Refused
    [] kind = "add"     -> AddDuration(a, n)
    [] kind = "sub"     -> SubDuration(a, n)
    [] kind = "days"    -> AddDays(a, n)
    [] kind = "months"  -> AddMonths(a, n)
    [] kind = "years"   -> AddYears(a, n)
TemporalDiff(a, b, unit)    == IF IsNothing(a) \/ IsNothing(b) \/ ~Matched({a, b}) THEN Refused ELSE Diff(a, b, unit)
TemporalAbsDiff(a, b, unit) == IF IsNothing(a) \/ IsNothing(b) \/ ~Matched({a, b}) THEN Refused ELSE AbsDiff(a, b, unit)
TemporalIsBefore(a, b)      == IF IsNothing(a) \/ IsNothing(b) \/ ~Matched({a, b}) THEN Refused ELSE IsBefore(a, b)
TemporalIsAfter(a, b)       == IF IsNothing(a) \/ IsNothing(b) \/ ~Matched({a, b}) THEN Refused ELSE IsAfter(a, b)
TemporalBetween(a, s, e) ==
  IF NullArray \in {a, s, e} \/ ~Matched({a, s, e}) THEN Refused ELSE Between(a, s, e)
TemporalTruncate(a, period) == IF IsNothing(a) THEN NullArray ELSE Truncate(a, period)
TemporalTruncated(a, name)  == IF IsNothing(a) THEN NullArray ELSE Truncated(a, name)
TemporalCast(a, unit)       == IF IsNothing(a) THEN Refused ELSE CastTimeUnit(a, unit)

(* Its windows [arr, off, len]: fields are read in place, all else is done *)
(* to a copy of the window.                                                *)
ToTemporalArray(w) ==
  [w.arr EXCEPT !.data = SubSeq(@, w.off + 1, w.off + w.len),
                !.mask = IF @ = NoMask THEN NoMask ELSE SubSeq(@, w.off + 1, w.off + w.len)]
Slice(w, off, len) == IF off + len > w.len THEN Refused ELSE [w EXCEPT !.off = @ + off, !.len = len]
GetI64(w, i) == IF i > w.len THEN None ELSE Values(w.arr)[w.off + i]
GetI32(w, i) == IF i > w.len \/ Width(w.arr.dtype) # 32 THEN None ELSE Values(w.arr)[w.off + i]
NullCount(w) == Cardinality({i \in 1..w.len : IsNull(w.arr, w.off + i)})
WindowedRows(w) == [i \in 1..w.len |-> DatetimeAt(w.arr, w.off + i)]
WindowedComponent(w, field) ==
  [i \in 1..w.len |-> LET t == WindowedRows(w)[i] IN IF t = None THEN None ELSE Some(Field(t[1], field))]
IsLeapYearWindowed(w) ==
  [i \in 1..w.len |->
     LET t == DatetimeAt(w.arr, w.off + i) IN IF t = None THEN None ELSE Some(Leap(YearOf(t[1].day)))]
WindowedAdd(w, kind, n)        == TemporalAdd(ToTemporalArray(w), kind, n)
WindowedTruncate(w, period)    == TemporalTruncate(ToTemporalArray(w), period)
WindowedCast(w, unit)          == TemporalCast(ToTemporalArray(w), unit)
WindowedDiff(v, w, unit)       == TemporalDiff(ToTemporalArray(v), ToTemporalArray(w), unit)
WindowedCompare(v, w, test) ==
  IF test = "before" THEN TemporalIsBefore(ToTemporalArray(v), ToTemporalArray(w))
  ELSE TemporalIsAfter(ToTemporalArray(v), ToTemporalArray(w))
WindowedBetween(w, s, e) == TemporalBetween(ToTemporalArray(w), ToTemporalArray(s), ToTemporalArray(e))

(* Windows put together: of the type of the first.                         *)
Consolidate(ws) ==
  LET masked == \E k \in DOMAIN ws : ws[k].arr.mask # NoMask
  IN  [dtype |-> ws[1].arr.dtype,
       data  |-> FlattenSeq([k \in DOMAIN ws |-> ToTemporalArray(ws[k]).data]),
       mask  |-> IF masked THEN FlattenSeq([k \in DOMAIN ws |-> MaskOf(ToTemporalArray(ws[k]))]) ELSE NoMask]

-----------------------------------------------------------------------------
(* Texts of instants, [year, month, day, hour, minute, second, digits,     *)
(* zone]: digits after a point (None without one), a zone <<sign, hours,   *)
(* minutes>>, <<"Z">> or <<"">>.  A field that is not of digits is -1.     *)
DaysFromCivil(year, month, day) ==
  LET y   == IF month <= 2 THEN year - 1 ELSE year
      era == y \div 400
      yoe == y - era * 400
      mp  == IF month > 2 THEN month - 3 ELSE month + 9
      doy == ((153 * mp + 2) \div 5) + day - 1
      doe == yoe * 365 + (yoe \div 4) - (yoe \div 100) + doy
  IN  era * 146097 + doe - 719468
DaysInMonth(year, month) ==
  CASE month \in {1, 3, 5, 7, 8, 10, 12} -> 31
    [] month \in {4, 6, 9, 11}           -> 30
    [] OTHER -> IF (year % 4 = 0 /\ year % 100 # 0) \/ year % 400 = 0 THEN 29 ELSE 28
Precision == 3   \* digits of a nanosecond, nine in the code
Fraction(digits) ==   \* as nanoseconds, finer digits cut off
  LET d(k) == IF k \in DOMAIN digits THEN digits[k] ELSE 0
      f[k \in 0..Precision] == IF k = 0 THEN 0 ELSE Step * f[k - 1] + d(k)
  IN  f[Precision]
ParseIso8601Ns(x) ==
  LET zoned   == Len(x.zone) = 3
      offset  == IF ~zoned THEN 0 ELSE (IF x.zone[1] = "-" THEN -1 ELSE 1) * (3600 * x.zone[2] + 60 * x.zone[3])
      seconds == SecondsPerDay * DaysFromCivil(x.year, x.month, x.day) + 3600 * x.hour + 60 * x.minute + x.second - offset
      frac    == IF x.digits = None THEN 0 ELSE Fraction(x.digits[1])
  IN  CASE x.year < 0 \/ x.month \notin 1..12                       -> None
        [] x.day \notin 1..DaysInMonth(x.year, x.month)             -> None
        [] x.hour \notin 0..23 \/ x.minute \notin 0..59              -> None
        [] x.second \notin 0..60                                     -> None   \* 60 is a leap second
        [] x.digits = <<<<>>>>                                       -> None
        [] zoned /\ (x.zone[2] \notin 0..23 \/ x.zone[3] \notin 0..59) -> None
        [] seconds \notin -(Limit64 \div Nano)..(Limit64 \div Nano)    -> None
        [] seconds * Nano > Limit64 - frac                           -> None
        [] OTHER                                                     -> Some(seconds * Nano + frac)
ParseIso8601(x, unit) ==
  LET ns == ParseIso8601Ns(x)
  IN  IF ns = None THEN None
      ELSE Some(Quot(ns[1], IF unit = "Days" THEN SecondsPerDay * Nano ELSE Nano \div PerSecond(unit)))

-----------------------------------------------------------------------------
(* A row truncated is the first instant of its period by the calendar, or  *)
(* null where the type cannot hold that; twice, or by a finer period first,*)
(* changes nothing, and windows are truncated as they stand.               *)
First(t, period) ==
  CASE period = "year"   -> At(YearStart(YearOf(t.day)), 0, 0)
    [] period = "month"  -> At(MonthStart(YearOf(t.day), MonthOf(t.day)), 0, 0)
    [] period = "week"   -> At(t.day - WeekDay(t.day) + 1, 0, 0)
    [] period = "day"    -> At(t.day, 0, 0)
    [] period = "hour"   -> At(t.day, t.second - (t.second % 3600), 0)
    [] period = "minute" -> At(t.day, t.second - (t.second % 60), 0)
    [] period = "second" -> At(t.day, t.second, 0)
    [] period = "millisecond" -> At(t.day, t.second, t.sub - (t.sub % (Step * Step)))
    [] period = "microsecond" -> At(t.day, t.second, t.sub - (t.sub % Step))
Start(a, i, period) ==
  LET t == Raw(a, i)
  IN  CASE IsNull(a, i)                           -> None
        [] t = None                               -> IF period \in SubSecond THEN Some(a.data[i]) ELSE None
        [] First(t[1], period).day < MinDay       -> None
        [] OTHER                                  -> Stored(a, ToValue(First(t[1], period), TimeUnit(a.dtype)))
TruncatesToStart(a, period, finer) ==
  \A r \in {Truncate(a, period)} :
    /\ Values(r) = [i \in DOMAIN a.data |-> Start(a, i, period)]
    /\ \A i \in DOMAIN a.data : IsNull(r, i) => r.data[i] = a.data[i]
    /\ Values(Truncate(r, period)) = Values(r)
    /\ LET via == Values(Truncate(Truncate(a, finer), period))
       IN  \A i \in DOMAIN a.data : via[i] \in {None, Values(r)[i]}
    /\ \A i \in 0..Len(a.data) - 1 :
         LET w == [arr |-> a, off |-> i, len |-> Len(a.data) - i]  k == TruncateInto(a, i, w.len, period, NoMask)
         IN  /\ Values(WindowedTruncate(w, period)) = SubSeq(Values(r), i + 1, Len(a.data))
             /\ k.out = SubSeq(r.data, i + 1, Len(a.data))
    /\ \A name \in DOMAIN Shorthands : Shorthands[name] = period => TemporalTruncated(a, name) = r

(* Months on, the day is the same or the last of its month, and the time   *)
(* is the same; what the calendar or the type cannot hold is null.         *)
MonthsOn(a, i, n) ==
  LET t == DatetimeAt(a, i)
      total == 12 * YearOf(t[1].day) + MonthOf(t[1].day) - 1 + n
      y == total \div 12  m == (total % 12) + 1
      last == MonthStart(y, m) + MonthLength(y, m) - 1
      day == MonthStart(y, m) + DayOf(t[1].day) - 1
  IN  IF t = None THEN None
      ELSE IF (total < 0 /\ m # 1) \/ y \notin -9999..9999 THEN None
      ELSE Stored(a, ToValue(At(IF day > last THEN last ELSE day, t[1].second, t[1].sub), TimeUnit(a.dtype)))
MonthsAreKept(a, n) ==
  \A r \in {AddMonths(a, n)} :
    /\ Values(r) = [i \in DOMAIN a.data |-> MonthsOn(a, i, n)]
    /\ \A i \in DOMAIN a.data : IsNull(r, i) => r.data[i] = a.data[i]
    /\ TemporalAdd(a, "months", n) = r
    /\ n % 12 = 0 => TemporalAdd(a, "years", n \div 12) = r
    /\ \A i \in 0..Len(a.data) - 1 :
         Values(WindowedAdd([arr |-> a, off |-> i, len |-> Len(a.data) - i], "months", n))
           = SubSeq(Values(r), i + 1, Len(a.data))

(* A duration moves every row by its whole units, and back.                *)
DurationsAreKept(a, d) ==
  \A r \in {AddDuration(a, d)} :
    LET unit == TimeUnit(a.dtype)
        units == Whole([s |-> Quot(d, Nano), n |-> Rem(d, Nano)], unit)
    IN  /\ \A i \in DOMAIN a.data :
             IF ~IsNull(a, i) /\ Fits(a, a.data[i] + units) THEN Values(r)[i] = Some(a.data[i] + units)
             ELSE Values(r)[i] = None /\ r.data[i] = a.data[i]
        /\ \A i \in DOMAIN a.data : ~IsNull(r, i) => Values(SubDuration(r, d))[i] = Values(a)[i]
        /\ TemporalAdd(a, "add", d) = r /\ TemporalAdd(a, "sub", -d) = r
        /\ d % (SecondsPerDay * Nano) = 0 => TemporalAdd(a, "days", d \div (SecondsPerDay * Nano)) = r
        /\ \A i \in 0..Len(a.data) - 1 :
             Values(WindowedAdd([arr |-> a, off |-> i, len |-> Len(a.data) - i], "add", d))
               = SubSeq(Values(r), i + 1, Len(a.data))

(* The fields of a row are those of one day and one second of that day, for*)
(* kernels, methods, tuples and windows.                                   *)
Sundays(day) == Cardinality({d \in YearStart(YearOf(day))..day : WeekDay(d) = 1})
FieldsAreOfOneDay(t) ==
  LET f(field) == Field(t, field)
      ym(day) == YearAndMonthStart(day)
  IN  /\ DaysFromCivil(f("year"), f("month"), f("day")) = t.day
      /\ f("day") <= DaysInMonth(f("year"), f("month"))
      /\ 3600 * f("hour") + 60 * f("minute") + f("second") = t.second
      /\ f("month") \in 3 * f("quarter") - 2..3 * f("quarter")
      /\ f("week_of_year") = Sundays(t.day)
      /\ ym(t.day).year = t.day - f("day_of_year") + 1
      /\ Holds(t, "is_month_start") = (ym(t.day).month = t.day)
      /\ Holds(t, "is_year_start")  = (ym(t.day).year = t.day)
      /\ t.day < MaxDay => /\ Holds(t, "is_month_end") = (ym(t.day + 1).month = t.day + 1)
                           /\ Holds(t, "is_year_end")  = (ym(t.day + 1).year = t.day + 1)
      /\ Holds(t, "is_leap_year") = (DaysFromCivil(f("year") + 1, 1, 1) - DaysFromCivil(f("year"), 1, 1) = 366)
PartsAgree(a) ==
  LET n == Len(a.data)
  IN  /\ \A i \in 1..n : LET t == DatetimeAt(a, i)
                        IN  /\ t # None => FieldsAreOfOneDay(t[1])
                            /\ TupleDt(a, i) = None <=> t = None
                            /\ t # None => \A f \in {"year", "month", "day", "hour", "minute", "second"} :
                                            TupleDt(a, i)[1][f] = Part(t[1], f)
      /\ \A f \in Parts, off \in 0..n - 1 :
           LET w == [arr |-> a, off |-> off, len |-> n - off]
               k == ExtractI32Into(a, off, n - off, f, SubSeq(MaskOf(a), off + 1, n))
               part == SubSeq(TemporalPart(a, f), off + 1, n)
           IN  /\ WindowedComponent(w, f) = part
               /\ Values([data |-> k.out, mask |-> k.mask]) = part
      /\ \A off \in 0..n - 1 :
           LET w == [arr |-> a, off |-> off, len |-> n - off]
           IN  /\ IsLeapYearWindowed(w) = SubSeq(Values(IsLeapYear(a)), off + 1, n)
               /\ Cardinality({i \in 1..w.len : GetI64(w, i) = None}) = NullCount(w)
               /\ Width(a.dtype) = 32 => \A i \in 1..w.len + 1 : GetI32(w, i) = GetI64(w, i)
               /\ \A k \in 0..w.len : ToTemporalArray(Slice(w, k, w.len - k)).data = SubSeq(a.data, off + k + 1, n)
      /\ TemporalPart(NullArray, "year") = <<>>
      /\ Width(a.dtype) = 64 => \A f \in Parts : PartOf(Tz(a, "zone"), f) = PartOf(a, f)

(* Whatever their units, two instants have one order: before is after the  *)
(* other way, a difference has its sign, between is neither side out; and a*)
(* null on either side is null.                                            *)
KernelsSeeTheirWindows(v, w) ==   \* as the methods do on copies of the windows
  LET mask == Both(ToTemporalArray(v), ToTemporalArray(w))
      Rows(k) == Some(Values([data |-> k.out, mask |-> k.mask]))
  IN  /\ Rows(IsBeforeInto(v.arr, v.off, w.arr, w.off, v.len, mask)) = WindowedCompare(v, w, "before")
      /\ Rows(IsAfterInto(v.arr, v.off, w.arr, w.off, v.len, mask)) = WindowedCompare(v, w, "after")
      /\ Rows(BetweenInto(v.arr, v.off, w.arr, w.off, v.arr, v.off, v.len, mask)) = WindowedBetween(v, w, v)
      /\ Rows(DiffInto(v.arr, v.off, w.arr, w.off, v.len, "Seconds", mask)) = WindowedDiff(v, w, "Seconds")
Compares(a, b, n, before, after, within, ns) ==
  /\ Some(after) = TemporalIsBefore(b, a)
  /\ \A i \in 1..n :
       IF DatetimeAt(a, i) = None \/ DatetimeAt(b, i) = None
       THEN before[i] = None /\ after[i] = None /\ within[i] = None /\ ns[i] = None
       ELSE /\ before[i] = Some(ns[i][1] < 0) /\ after[i] = Some(ns[i][1] > 0) /\ within[i] = Some(ns[i][1] = 0)
            /\ \A unit \in {"Days", "Seconds", "Milliseconds"} :
                 /\ TemporalDiff(a, b, unit)[1][i]
                      = Some(Quot(ns[i][1], IF unit = "Days" THEN SecondsPerDay * Nano ELSE Nano \div PerSecond(unit)))
                 /\ TemporalAbsDiff(a, b, unit)[1][i] = TemporalAbsDiff(b, a, unit)[1][i]
  /\ \A off \in 0..n - 1 :
     \A v \in {[arr |-> a, off |-> off, len |-> n - off]} : \A w \in {[v EXCEPT !.arr = b]} :
                    /\ WindowedCompare(v, w, "before") = Some(SubSeq(before, off + 1, n))
                    /\ WindowedCompare(v, w, "after") = Some(SubSeq(after, off + 1, n))
                    /\ WindowedBetween(v, w, w) = Some(SubSeq(within, off + 1, n))
                    /\ WindowedDiff(v, w, "Nanoseconds") = Some(SubSeq(ns, off + 1, n))
                    /\ KernelsSeeTheirWindows(v, [w EXCEPT !.off = 0])
  /\ \A joined \in {Consolidate(<<[arr |-> a, off |-> n - 1, len |-> 1], [arr |-> b, off |-> 0, len |-> n]>>)} :
       /\ joined.data = <<a.data[n]>> \o b.data /\ joined.dtype = a.dtype
       /\ Values(joined) = <<Values(a)[n]>> \o Values(b)
OrderAgrees(a, b) ==
  \A rs \in {<<TemporalIsBefore(a, b), TemporalIsAfter(a, b), TemporalBetween(a, b, b), TemporalDiff(a, b, "Nanoseconds")>>} :
    IF IsNothing(a) \/ Width(a.dtype) # Width(b.dtype) \/ Len(a.data) # Len(b.data)
    THEN \A k \in DOMAIN rs : rs[k] = Refused
    ELSE Compares(a, b, Len(a.data), rs[1][1], rs[2][1], rs[3][1], rs[4][1])

(* A cast is the last value of the unit not after the instant, or not      *)
(* before it for the days before the epoch; what the type cannot hold is   *)
(* null, and a finer unit loses nothing.                                   *)
CastsHold(a, unit) ==
  LET r == TemporalCast(a, unit)  given == TimeUnit(a.dtype)
  IN  IF a.dtype.kind = "Date32" /\ unit # "Days" THEN r = Refused
      ELSE /\ TimeUnit(r[1]) = unit /\ Width(r[1]) = Width(a.dtype)
           /\ r[1].kind = a.dtype.kind \/ a.dtype.kind = "Date64"
           /\ WindowedCast([arr |-> a, off |-> 0, len |-> Len(a.data)], unit) = r
           /\ \A i \in DOMAIN a.data :
                LET t == DatetimeAt(a, i)  exact == ToValue(t[1], unit)  u == FromValue(exact, unit)[1]
                    next == FromValue(exact + 1, unit)  last == FromValue(exact - 1, unit)
                IN  IF t = None \/ ~Fits(a, exact) THEN r[2][i] = None
                    ELSE /\ r[2][i] = Some(exact)
                         /\ IF unit = "Days" /\ t[1].day < 0 THEN ~Earlier(u, t[1]) /\ (last = None \/ Earlier(last[1], t[1]))
                            ELSE ~Earlier(t[1], u) /\ (next = None \/ Earlier(t[1], next[1]))
                         /\ (unit # "Days" /\ PerSecond(unit) >= PerSecond(given)) => ToValue(u, given) = a.data[i]

(* A text is of the instant its fields are at its zone, cut to the unit    *)
(* towards zero, and none where a field is out of its range.               *)
ParsesToItsFields(x) ==
  \A ns \in {ParseIso8601Ns(x)} :
    IF ns = None
    THEN \/ x.month \notin 1..12 \/ x.day \notin 1..31 \/ x.year < 0 \/ x.second > 60 \/ x.second < 0
         \/ x.digits = <<<<>>>> \/ x.day > MonthLength(x.year, x.month)
         \/ x.hour \notin 0..23 \/ x.minute \notin 0..59
         \/ (Len(x.zone) = 3 /\ (x.zone[2] > 23 \/ x.zone[3] > 59))
         \/ MonthStart(x.year, x.month) + x.day - 1 \notin -24..23
    ELSE LET t == FromValue(ns[1], "Nanoseconds")[1]
             ahead == IF Len(x.zone) < 3 THEN 0 ELSE (IF x.zone[1] = "-" THEN -1 ELSE 1) * (3600 * x.zone[2] + 60 * x.zone[3])
             leap == IF x.second = 60 THEN 1 ELSE 0
             local == FromValue(Timestamp(t) + ahead - leap, "Seconds")[1]
         IN  /\ <<YearOf(local.day), MonthOf(local.day), DayOf(local.day)>> = <<x.year, x.month, x.day>>
             /\ local.second = 3600 * x.hour + 60 * x.minute + x.second - leap
             /\ x.digits = None => t.sub = 0
             /\ x.digits # None => t.sub \div (Step * Step) = x.digits[1][1]
             /\ ParseIso8601(x, "Nanoseconds") = ns
             /\ \A unit \in {"Seconds", "Milliseconds", "Microseconds"} :
                  LET v == ParseIso8601(x, unit)[1]
                  IN  IF ns[1] >= 0 THEN v = ToValue(t, unit) ELSE v \in {ToValue(t, unit), ToValue(t, unit) + 1}
=============================================================================
