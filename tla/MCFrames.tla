------------------------------ MODULE MCFrames ------------------------------
(* Columns of numbers, strings, bits and categories, with nulls in some of  *)
(* their pieces and another dictionary in each, tables of two columns, one  *)
(* of them not nullable, and tables of one whose fields have other metadata.*)
EXTENDS Frames, TLC

Array(kind, data, mask) ==
  [kind |-> kind, unit |-> 0, data |-> data, masked |-> mask # <<>>, mask |-> mask]
NumbersOf(data, mask)        == Array("number", data, mask)
BitsOf(data, mask)           == Array("boolean", data, mask) @@ [len |-> Len(data)]
StringsOf(data, ends, mask)  == Array("text", data, mask) @@ [offsets |-> <<0>> \o ends]
CodesOf(codes, dict, mask)   == Array("categorical", codes, mask) @@ [dict |-> dict]

Numbers1 == NumbersOf(<<1, 2>>, <<TRUE, FALSE>>)
Bits1 == BitsOf(<<TRUE, TRUE>>, <<TRUE, FALSE>>)
Bits2 == BitsOf(<<FALSE>>, <<TRUE>>)
Strings1 == StringsOf(<<1, 2>>, <<1, 2>>, <<>>)
Strings2 == StringsOf(<<2, 2>>, <<2>>, <<>>)
Codes1 == CodesOf(<<0, 1>>, <<<<1>>, <<2>>>>, <<TRUE, FALSE>>)
Codes2 == CodesOf(<<0>>, <<<<2>>>>, <<TRUE>>)

MCPiecesOf ==
  [number      |-> {Numbers1, NumbersOf(<<2>>, <<>>)},
   boolean     |-> {BitsOf(<<TRUE, FALSE>>, <<FALSE, TRUE>>), BitsOf(<<FALSE>>, <<>>)},
   text        |-> {StringsOf(<<1, 2>>, <<1, 2>>, <<TRUE, FALSE>>), Strings2},
   categorical |-> {Codes1, CodesOf(<<0>>, <<<<3>>>>, <<>>)}]

Columns2(a, b, meta) ==
  NewTable(<<FieldArrayOf(NewField("a", a, meta), a), FieldArrayOf(NewField("b", b, ""), b)>>)
Column1(a, meta) == NewTable(<<FieldArrayOf(NewField("a", a, meta), a)>>)
MCBatchesOf ==
  [strings    |-> {Columns2(Bits1, Strings1, ""), Columns2(Bits2, Strings2, "")},
   categories |-> {Column1(Codes1, ""), Column1(Codes2, "m")}]

MCWidthOf ==
  [number |-> 2, decimal |-> 4, datetime |-> 2, boolean |-> 1, text |-> 2, categorical |-> 1]
=============================================================================
