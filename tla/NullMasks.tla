------------------------------ MODULE NullMasks ------------------------------
(***************************************************************************)
(* The null mask every array variant carries and the methods of            *)
(* traits/masked_array.rs that all variants share.                         *)
(*                                                                         *)
(* An array is a record with, among others, the fields masked (whether it  *)
(* has a null mask) and mask (one Boolean for each row, TRUE for a value). *)
(* Rows are numbered from 1, positions between rows from 0, so that        *)
(* delete_range(s, e) of the code takes out the rows s + 1 to e.  The bits *)
(* of a mask behind the bytes of it are Bitmask.tla's subject.             *)
(***************************************************************************)
EXTENDS Integers, Sequences

All(n, v) == [i \in 1..n |-> v]

Without(s, from, to) == SubSeq(s, 1, from) \o SubSeq(s, to + 1, Len(s))
Window(s, offset, n) == SubSeq(s, offset + 1, offset + n)
Spliced(s, at, t)    == SubSeq(s, 1, at) \o t \o SubSeq(s, at + 1, Len(s))
Fit(s, n, v)         == IF n <= Len(s) THEN SubSeq(s, 1, n) ELSE s \o All(n - Len(s), v)

(* Bitmask::set and set_range grow the mask with cleared bits; resize      *)
(* grows it with the bits it is given.                                     *)
SetBits(m, from, to, v) ==
  LET grown == IF to > Len(m) THEN Fit(m, to, FALSE) ELSE m
  IN  [i \in 1..Len(grown) |-> IF i > from /\ i <= to THEN v ELSE grown[i]]
SetBit(m, i, v) == SetBits(m, i - 1, i, v)

IsNull(a, i) == a.masked /\ ~(i <= Len(a.mask) /\ a.mask[i])

Unmasked(a)    == [a EXCEPT !.masked = FALSE, !.mask = <<>>]
Masked(a, m)   == [a EXCEPT !.masked = TRUE, !.mask = m]
OnMask(a, m)   == IF a.masked THEN Masked(a, m) ELSE a
MaskOr(a, n)   == IF a.masked THEN a.mask ELSE All(n, TRUE)

(* A value written at row i makes the row valid; n rows end at row i. *)
ValidAt(a, i) == OnMask(a, SetBit(a.mask, i, TRUE))

(* push_null, push_nulls and set_null: the mask is made when there is none. *)
NullTo(a, n, k) == Masked(a, SetBits(MaskOr(a, n), n - k, n, FALSE))
SetNull(a, n, i) ==
  Masked(a, SetBit(IF a.masked /\ Len(a.mask) < i THEN Fit(a.mask, i, TRUE) ELSE MaskOr(a, n), i, FALSE))

(* What append_array and append_range do with the two masks: a had n rows, *)
(* and the mask of the k rows that follow is m, if one is given.  It goes  *)
(* behind a's mask, wherever that ends; without one the mask is resized to *)
(* the rows.  The calls return early when there is nothing to append.      *)
MaskFromOther(a, n, given, m, k) ==   \* mutant: the rows before get no bits
  CASE k = 0 \/ (~a.masked /\ ~given)  -> a
    [] k # 0 /\ a.masked /\ given      -> Masked(a, a.mask \o m)
    [] k # 0 /\ a.masked /\ ~given     -> Masked(a, Fit(a.mask, n + k, TRUE))
    [] k # 0 /\ ~a.masked /\ given     -> Masked(a, m)
Extended(a, n, given, m, k) ==
  CASE k = 0 \/ (~a.masked /\ ~given)  -> a
    [] k # 0 /\ a.masked /\ given      -> Masked(a, a.mask \o m)
    [] k # 0 /\ a.masked /\ ~given     -> Masked(a, Fit(a.mask, n + k, TRUE))
    [] k # 0 /\ ~a.masked /\ given     -> Masked(a, All(n, TRUE) \o m)

(* Where a has no mask, fixed-width and boolean arrays take the other's    *)
(* only as far as its k rows, and so does a merge of dictionaries.         *)
RowBits(a, o, k) == IF a.masked \/ ~o.masked THEN o.mask ELSE SubSeq(o.mask, 1, k)

(* insert_rows builds the mask of all rows anew. *)
Inserted(a, n, at, given, m, k) ==
  IF k # 0 /\ (a.masked \/ given)
  THEN Masked(a, Spliced(SubSeq(MaskOr(a, n), 1, n), at, IF given THEN SubSeq(m, 1, k) ELSE All(k, TRUE)))
  ELSE a
=============================================================================
