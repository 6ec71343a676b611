----------------------------- MODULE FixedArray -----------------------------
(***************************************************************************)
(* Arrays of fixed-width values: IntegerArray, FloatArray and              *)
(* DatetimeArray (the macros of macros.rs) and DecimalArray.               *)
(* An array is [kind, unit, data, masked, mask]; unit is the time unit or  *)
(* the scale of its values.                                                *)
(***************************************************************************)
EXTENDS NullMasks

Zero == 0

Length(a) == Len(a.data)
Value(a, i) == <<a.unit, a.data[i]>>

Push(a, v) == ValidAt([a EXCEPT !.data = Append(@, v)], Length(a) + 1)
PushNull(a) == NullTo(Push(a, Zero), Length(a) + 1, 1)
PushNulls(a, k) == NullTo([a EXCEPT !.data = @ \o All(k, Zero)], Length(a) + k, k)
Set(a, i, v) == ValidAt([a EXCEPT !.data[i] = v], i)
SetRange(a, from, to, v) ==
  OnMask([a EXCEPT !.data = [i \in DOMAIN @ |-> IF i > from /\ i <= to THEN v ELSE @[i]]],
         SetBits(a.mask, from, to, TRUE))

(* The mask is left to the caller. *)
Resize(a, n, v) == [a EXCEPT !.data = Fit(@, n, v)]

DeleteRange(a, from, to) ==
  OnMask([a EXCEPT !.data = Without(@, from, to)], Without(a.mask, from, to))
SliceClone(a, offset, n) ==
  OnMask([a EXCEPT !.data = Window(@, offset, n)], Window(a.mask, offset, n))

(* An array of decimals refuses one of another precision or scale; a       *)
(* datetime array takes what it is given.                                  *)
Refuses(a, o) == a.kind = "decimal" /\ a.unit # o.unit

(* Rows of an array without a mask have their bits set one by one: a mask  *)
(* that is longer than the rows keeps its length.                          *)
AppendArray(a, o) ==
  LET n == Length(a)
      k == Length(o)
      joined == [a EXCEPT !.data = @ \o o.data]
  IN  IF k # 0 /\ a.masked /\ ~o.masked
      THEN Masked(joined, SetBits(a.mask, n, n + k, TRUE))
      ELSE Extended(joined, n, o.masked, RowBits(a, o, k), k)
AppendRange(a, o, offset, n) ==
  Extended([a EXCEPT !.data = @ \o Window(o.data, offset, n)], Length(a),
         o.masked, Window(o.mask, offset, n), n)
InsertRows(a, at, o) ==
  Inserted([a EXCEPT !.data = Spliced(@, at, o.data)], Length(a), at, o.masked, o.mask, Length(o))

Split(a, at) == <<SliceClone(a, 0, at), DeleteRange(a, 0, at)>>

(* The values are marked valid without a bound: the mask keeps its length. *)
ExtendFromSlice(a, vs) ==
  OnMask([a EXCEPT !.data = @ \o vs],
         [i \in DOMAIN a.mask |-> a.mask[i] \/ (i > Length(a) /\ i <= Length(a) + Len(vs))])
Filled(a, v, n) == Unmasked([a EXCEPT !.data = All(n, v)])

(* scatter_indices: row src[i] of o to row dst[i], the last write stays. *)
ScatterPrim(a, dst, o, src) ==
  LET last(d) == CHOOSE i \in DOMAIN dst : dst[i] = d /\ \A j \in DOMAIN dst : dst[j] = d => j <= i
      hit == {dst[i] : i \in DOMAIN dst}
      bits(m) == [d \in DOMAIN m |-> IF d \notin hit THEN m[d]
                                     ELSE ~o.masked \/ o.mask[src[last(d)]]]
      moved == [a EXCEPT !.data = [d \in DOMAIN @ |-> IF d \in hit THEN o.data[src[last(d)]] ELSE @[d]]]
  IN  IF o.masked \/ a.masked THEN Masked(moved, bits(MaskOr(a, Length(a)))) ELSE moved
=============================================================================
