----------------------------- MODULE MCColumns -----------------------------
(* One column of each variant, and the arrays it is edited with: with and  *)
(* without nulls, with a mask longer than the rows, with no rows at all,   *)
(* of another unit, with another dictionary, and one whose null has a code *)
(* without an entry.                                                       *)
EXTENDS Columns, TLC

Numbers == {1, 2}
Words   == {<<>>, <<1>>, <<2, 2>>}
MCValuesOf ==
  [number |-> Numbers, decimal |-> {1}, datetime |-> {1}, boolean |-> BOOLEAN,
   text |-> Words, categorical |-> Words]

Array(kind, unit, data, mask) ==
  [kind |-> kind, unit |-> unit, data |-> data, masked |-> mask # <<>>, mask |-> mask]
MCOthersOf ==
  [number |-> {Array("number", 0, <<1, 2>>, <<FALSE, TRUE, TRUE>>), Array("number", 0, <<2>>, <<>>),
               Array("number", 0, <<>>, <<TRUE>>)},
   decimal |-> {Array("decimal", 1, <<1>>, <<>>), Array("decimal", 0, <<1, 2>>, <<TRUE, FALSE>>)},
   datetime |-> {Array("datetime", 1, <<1>>, <<>>), Array("datetime", 0, <<1, 2>>, <<TRUE, FALSE>>)},
   boolean |-> {Array("boolean", 0, <<TRUE, FALSE>>, <<TRUE, FALSE, TRUE>>) @@ [len |-> 2],
                Array("boolean", 0, <<TRUE, TRUE>>, <<>>) @@ [len |-> 1]},
   text |-> {Array("text", 0, <<1, 2, 2>>, <<TRUE, FALSE, TRUE>>) @@ [offsets |-> <<0, 1, 3>>],
             Array("text", 0, <<2>>, <<>>) @@ [offsets |-> <<0, 1>>]},
   categorical |-> {Array("categorical", 0, <<1, 7>>, <<TRUE, FALSE>>) @@ [dict |-> <<<<2, 2>>, <<1>>>>],
                    Array("categorical", 0, <<0>>, <<FALSE>>) @@ [dict |-> <<>>],
                    Array("categorical", 0, <<>>, <<TRUE>>) @@ [dict |-> <<<<1>>>>]}]
=============================================================================
