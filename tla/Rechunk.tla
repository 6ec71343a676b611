------------------------------- MODULE Rechunk -------------------------------
(***************************************************************************)
(* The loop of SuperArray::rechunk and SuperTable::rechunk: pieces are     *)
(* joined and cut into pieces of one size, the last of which may be        *)
(* shorter.  The pieces have been drained from their owner by then: when a *)
(* join fails the error returns, and what was drained is dropped.          *)
(***************************************************************************)
EXTENDS Integers, Sequences

CONSTANTS LenOf(_), Halved(_, _), Join(_, _), CannotJoin(_, _, _)

Start(pieces) == [rest |-> pieces, acc |-> <<>>, done |-> <<>>, failed |-> FALSE]

Joined(shared, s, piece) ==
  IF CannotJoin(shared, s.acc[1], piece) THEN [s EXCEPT !.failed = TRUE, !.rest = <<>>]
  ELSE [s EXCEPT !.acc = <<Join(@[1], piece)>>]
Flushed(s, size) ==
  IF s.acc # <<>> /\ LenOf(s.acc[1]) = size THEN [s EXCEPT !.done = Append(@, s.acc[1]), !.acc = <<>>] ELSE s

(* One piece, or the part of it that fills the accumulator. *)
Step(shared, s, size) ==
  LET piece == Head(s.rest)
      needed == size - (IF s.acc = <<>> THEN 0 ELSE LenOf(s.acc[1]))
      cut == Halved(piece, needed)
      fits == LenOf(piece) <= needed
      taken == [s EXCEPT !.rest = IF fits THEN Tail(@) ELSE <<cut[2]>> \o Tail(@)]
      part == IF fits THEN piece ELSE cut[1]
  IN  CASE s.rest = <<>>     -> s
        [] LenOf(piece) = 0  -> [s EXCEPT !.rest = Tail(@)]
        [] s.acc = <<>>      -> Flushed([taken EXCEPT !.acc = <<part>>], size)
        [] OTHER             -> Flushed(Joined(shared, taken, part), size)

Rechunked(shared, pieces, size) ==
  LET rows[i \in 0..Len(pieces)] == IF i = 0 THEN 0 ELSE rows[i - 1] + LenOf(pieces[i])
      after[k \in 0..Len(pieces) + rows[Len(pieces)]] ==
        IF k = 0 THEN Start(pieces) ELSE LET before == after[k - 1] IN Step(shared, before, size)
      end == after[Len(pieces) + rows[Len(pieces)]]
  IN  IF end.failed THEN [pieces |-> <<>>, failed |-> TRUE]
      ELSE [pieces |-> end.done \o end.acc, failed |-> FALSE]

(* rechunk_to: the first piece that ends behind the position, and where    *)
(* it starts; a position at a boundary takes the whole piece behind it.    *)
CutAt(pieces, upTo) ==
  LET starts[i \in 1..Len(pieces)] == IF i = 1 THEN 0 ELSE starts[i - 1] + LenOf(pieces[i - 1])
      i == CHOOSE j \in DOMAIN pieces : starts[j] + LenOf(pieces[j]) > upTo
                                        /\ \A k \in 1..(j - 1) : starts[k] + LenOf(pieces[k]) <= upTo
      front == SubSeq(pieces, 1, i - 1)
      behind == SubSeq(pieces, i + 1, Len(pieces))
      cut == Halved(pieces[i], upTo - starts[i])
  IN  IF starts[i] < upTo THEN [front |-> Append(front, cut[1]), behind |-> <<cut[2]>> \o behind]
      ELSE [front |-> Append(front, pieces[i]), behind |-> behind]

(* insert_rows: between pieces, or between the halves of the piece that    *)
(* holds the position.                                                     *)
Inserted(pieces, at, others) ==
  LET ends[i \in 0..Len(pieces)] == IF i = 0 THEN 0 ELSE ends[i - 1] + LenOf(pieces[i])
      i == CHOOSE j \in DOMAIN pieces : at <= ends[j] /\ \A k \in 1..(j - 1) : at > ends[k]
      local == at - ends[i - 1]
      front == SubSeq(pieces, 1, i - 1)
      behind == SubSeq(pieces, i + 1, Len(pieces))
      cut == Halved(pieces[i], local)
  IN  CASE local = 0                -> front \o others \o <<pieces[i]>> \o behind
        [] local = LenOf(pieces[i]) -> Append(front, pieces[i]) \o others \o behind
        [] OTHER -> Append(front, cut[1]) \o others \o <<cut[2]>> \o behind
=============================================================================
