------------------------------ MODULE MCExchange ------------------------------
(* A small instance of the Arrow exchange: two batches of two columns. *)
EXTENDS ArrowExchange

Plain(k, rows, nulls, offset, len, aligned) ==
  [kind |-> k, rows |-> rows, offsets |-> <<0>>, bytes |-> <<>>, nulls |-> nulls,
   offset |-> offset, len |-> len, aligned |-> aligned]

Text(offsets, bytes, nulls, offset, len) ==
  [Plain("utf8", <<>>, nulls, offset, len, TRUE) EXCEPT !.offsets = offsets, !.bytes = bytes]

\* Codes into the dictionary of the empty text and one of two bytes.
Dict(offset, len, aligned) ==
  [Plain("dict", <<<<1>>, <<0>>, <<1>>>>, {2}, offset, len, aligned)
     EXCEPT !.offsets = <<0, 0, 2>>, !.bytes = <<6, 7>>]

MCShapes ==
  {Plain("fixed", <<<<7>>, <<8>>, <<9>>>>, {2}, 0, 3, TRUE),
   Plain("fixed", <<<<7>>, <<8>>, <<9>>>>, {2}, 1, 2, FALSE),
   Plain("fixed", <<<<7>>>>, {}, 1, 0, TRUE),
   Plain("boolean", <<<<1>>, <<0>>, <<1>>>>, {1}, 0, 3, TRUE),
   Plain("boolean", <<<<1>>, <<0>>, <<1>>>>, {1}, 2, 1, TRUE),
   Text(<<0, 1, 1, 3, 4>>, <<1, 2, 3, 4>>, {4}, 0, 4),
   Text(<<0, 1, 1, 3, 4>>, <<1, 2, 3, 4>>, {4}, 1, 3),
   Text(<<0, 1, 1>>, <<1>>, {}, 1, 1),
   Plain("utf8_view", <<<<1>>, <<2>>>>, {2}, 0, 2, TRUE),
   Plain("utf8_view", <<<<1>>, <<2>>>>, {2}, 1, 1, TRUE),
   Plain("datetime", <<<<5>>>>, {}, 0, 0, TRUE),
   Plain("decimal", <<<<5>>, <<6>>>>, {1}, 0, 2, TRUE),
   Plain("interval", <<<<5>>>>, {}, 0, 1, TRUE),
   Dict(0, 3, TRUE), Dict(1, 2, FALSE)}
=============================================================================
