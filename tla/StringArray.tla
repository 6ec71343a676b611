----------------------------- MODULE StringArray -----------------------------
(***************************************************************************)
(* StringArray (structs/variants/string.rs): the bytes of all strings, one *)
(* after the other, and the offsets where each starts, with one more where *)
(* the last ends.  An array is [kind, unit, data, offsets, masked, mask];  *)
(* a string is the sequence of its bytes.                                  *)
(***************************************************************************)
EXTENDS NullMasks, SequencesExt

Length(a) == Len(a.offsets) - 1
Start(a, i) == a.offsets[i]
End(a, i) == a.offsets[i + 1]
Value(a, i) == <<a.unit, SubSeq(a.data, Start(a, i) + 1, End(a, i))>>

Ends(offsets) == offsets[Len(offsets)]
Shifted(offsets, by) == [i \in DOMAIN offsets |-> offsets[i] + by]
Strings(a, data, offsets) == [a EXCEPT !.data = data, !.offsets = offsets]

(* Offsets of strings laid out from a byte on: where each of them ends. *)
EndsFrom(base, vs) ==
  LET endOf[i \in 0..Len(vs)] == IF i = 0 THEN base ELSE endOf[i - 1] + Len(vs[i])
  IN  [i \in 1..Len(vs) |-> endOf[i]]

(* The new end is counted from the bytes. *)
Push(a, v) ==
  ValidAt(Strings(a, a.data \o v, Append(a.offsets, Len(a.data) + Len(v))), Length(a) + 1)
(* A null repeats the last offset. *)
PushNulls(a, k) ==
  NullTo(Strings(a, a.data, a.offsets \o All(k, Ends(a.offsets))), Length(a) + k, k)
PushNull(a) == PushNulls(a, 1)

(* The bytes are replaced, and the later offsets moved by the difference. *)
Set(a, i, v) ==
  LET by == Len(v) - (End(a, i) - Start(a, i))
  IN  ValidAt(Strings(a, SubSeq(a.data, 1, Start(a, i)) \o v \o SubSeq(a.data, End(a, i) + 1, Len(a.data)),
                      [j \in DOMAIN a.offsets |-> IF j > i THEN a.offsets[j] + by ELSE a.offsets[j]]), i)
SetRange(a, from, to, v) ==
  LET upTo[i \in from..to] == IF i = from THEN a ELSE Set(upTo[i - 1], i, v) IN upTo[to]

Resize(a, n, v) ==
  IF n > Length(a)
  THEN LET more == All(n - Length(a), v)
       IN  Strings(a, a.data \o FlattenSeq(more), a.offsets \o EndsFrom(Ends(a.offsets), more))
  ELSE Strings(a, SubSeq(a.data, 1, Start(a, n + 1)), SubSeq(a.offsets, 1, n + 1))

DeleteRange(a, from, to) ==
  IF from = to THEN a
  ELSE LET first == Start(a, from + 1)
           last == Start(a, to + 1)
       IN  OnMask(Strings(a, Without(a.data, first, last),
                          SubSeq(a.offsets, 1, from)
                            \o Shifted(SubSeq(a.offsets, to + 1, Len(a.offsets)), first - last)),
                  Without(a.mask, from, to))

SliceClone(a, offset, n) ==
  LET base == Start(a, offset + 1)
  IN  OnMask(Strings(a, SubSeq(a.data, base + 1, Start(a, offset + n + 1)),
                     Shifted(SubSeq(a.offsets, offset + 1, offset + n + 1), -base)),
             Window(a.mask, offset, n))

(* All bytes of the other go over, its offsets from the first on. *)
AppendArray(a, o) ==
  Extended(Strings(a, a.data \o o.data,
                 a.offsets \o Shifted(Tail(o.offsets), Ends(a.offsets) - o.offsets[1])),
         Length(a), o.masked, o.mask, Length(o))
AppendRange(a, o, offset, n) ==
  LET base == Start(o, offset + 1)
  IN  Extended(Strings(a, a.data \o SubSeq(o.data, base + 1, Start(o, offset + n + 1)),
                     a.offsets \o Shifted(Window(o.offsets, offset + 1, n), Ends(a.offsets) - base)),
             Length(a), o.masked, Window(o.mask, offset, n), n)
InsertRows(a, at, o) ==
  LET byte == Start(a, at + 1)
  IN  Inserted(Strings(a, Spliced(a.data, byte, o.data),
                     SubSeq(a.offsets, 1, at + 1)
                       \o Shifted(Tail(o.offsets), byte - o.offsets[1])
                       \o Shifted(SubSeq(a.offsets, at + 2, Len(a.offsets)), Len(o.data))),
             Length(a), at, o.masked, o.mask, Length(o))

(* The offsets are cut before the one both halves need: the first half     *)
(* keeps the starts of its strings and loses the end of the last.          *)
Split(a, at) ==
  LET byte == Start(a, at + 1)
  IN  <<OnMask(Strings(a, SubSeq(a.data, 1, byte), SubSeq(a.offsets, 1, at)), SubSeq(a.mask, 1, at)),
        OnMask(Strings(a, Without(a.data, 0, byte),
                       Shifted(SubSeq(a.offsets, at + 1, Len(a.offsets)), -byte)),
               Without(a.mask, 0, at))>>

ExtendFromSlice(a, vs) ==
  OnMask(Strings(a, a.data \o FlattenSeq(vs),
                 SubSeq(a.offsets, 1, Length(a)) \o <<Len(a.data)>> \o EndsFrom(Len(a.data), vs)),
         Fit(a.mask, Length(a) + Len(vs), TRUE))
Filled(a, v, n) ==
  Unmasked(Strings(a, FlattenSeq(All(n, v)), [i \in 1..n + 1 |-> (i - 1) * Len(v)]))

(* scatter_indices rebuilds the array, null rows as empty strings; its     *)
(* mask is made for the first null and covers every row.                   *)
ScatterStr(a, dst, o, src) ==
  LET last(d) == CHOOSE i \in DOMAIN dst : dst[i] = d /\ \A j \in DOMAIN dst : dst[j] = d => j <= i
      read(x, i) == IF IsNull(x, i) THEN <<>> ELSE <<Value(x, i)[2]>>
      row(d) == IF \E i \in DOMAIN dst : dst[i] = d THEN read(o, src[last(d)]) ELSE read(a, d)
      values == [d \in 1..Length(a) |-> IF row(d) = <<>> THEN <<>> ELSE row(d)[1]]
      built == Unmasked(Strings(a, FlattenSeq(values), <<0>> \o EndsFrom(0, values)))
      valid == [d \in 1..Length(a) |-> row(d) # <<>>]
  IN  IF \A d \in DOMAIN valid : valid[d] THEN built ELSE Masked(built, valid)
=============================================================================
