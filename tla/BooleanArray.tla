---------------------------- MODULE BooleanArray ----------------------------
(***************************************************************************)
(* BooleanArray (structs/variants/boolean.rs): a packed bitmask, a row     *)
(* count beside it, and a null mask.  The bitmask may be longer than the   *)
(* rows: with_capacity reserves bits, and resize grows the bits only.      *)
(* An array is [kind, unit, data, len, masked, mask].                      *)
(***************************************************************************)
EXTENDS NullMasks

Length(a) == a.len
Value(a, i) == <<a.unit, a.data[i]>>

Bools(a, data, n) == [a EXCEPT !.data = data, !.len = n]

Push(a, v)     == ValidAt(Bools(a, SetBit(a.data, a.len + 1, v), a.len + 1), a.len + 1)
PushNull(a)    == NullTo(Push(a, FALSE), a.len + 1, 1)
PushNulls(a, k) == NullTo(Bools(a, Fit(a.data, a.len + k, FALSE), a.len + k), a.len + k, k)
Set(a, i, v)   == ValidAt([a EXCEPT !.data = SetBit(@, i, v)], i)
SetRange(a, from, to, v) ==
  OnMask([a EXCEPT !.data = SetBits(@, from, to, v)], SetBits(a.mask, from, to, TRUE))
Resize(a, n, v) == [a EXCEPT !.data = Fit(@, n, v)]

DeleteRange(a, from, to) ==
  LET kept == Without(a.data, from, to)
  IN  OnMask(Bools(a, kept, Len(kept)), Without(a.mask, from, to))
SliceClone(a, offset, n) ==
  OnMask(Bools(a, Window(a.data, offset, n), n), Window(a.mask, offset, n))

(* The other's bits go behind the bitmask, wherever it ends. *)
AppendArray(a, o) ==
  Extended(Bools(a, a.data \o SubSeq(o.data, 1, o.len), a.len + o.len), a.len,
           o.masked, RowBits(a, o, o.len), o.len)
AppendRange(a, o, offset, n) ==
  Extended(Bools(a, a.data \o Window(o.data, offset, n), a.len + n), a.len,
         o.masked, Window(o.mask, offset, n), n)
(* The bits are built anew, but for an empty array. *)
InsertRows(a, at, o) ==
  IF o.len = 0 THEN a
  ELSE Inserted(Bools(a, Spliced(SubSeq(a.data, 1, a.len), at, SubSeq(o.data, 1, o.len)), a.len + o.len),
                a.len, at, o.masked, o.mask, o.len)
Split(a, at) ==
  <<OnMask(Bools(a, SubSeq(a.data, 1, at), at), SubSeq(a.mask, 1, at)),
    OnMask(Bools(a, Without(a.data, 0, at), a.len - at), Without(a.mask, 0, at))>>

ExtendFromSlice(a, vs) ==
  LET n == a.len + Len(vs)
  IN  OnMask(Bools(a, SubSeq(a.data, 1, a.len) \o vs, n), Fit(a.mask, n, TRUE))
Filled(a, v, n) == Unmasked(Bools(a, All(n, v), n))

(* set_bits_chunk and push_bits: a run of bits from a word. *)
PushBits(a, vs) ==
  LET n == a.len + Len(vs)
  IN  OnMask(Bools(a, Fit(SubSeq(a.data, 1, a.len) \o vs \o Without(a.data, 0, n), IF n > Len(a.data) THEN n ELSE Len(a.data), FALSE), n),
             SetBits(a.mask, a.len, n, TRUE))
Not(a) == [a EXCEPT !.data = [i \in DOMAIN @ |-> ~@[i]]]
=============================================================================
