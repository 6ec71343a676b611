-------------------------- MODULE CategoricalArray --------------------------
(***************************************************************************)
(* CategoricalArray (structs/variants/categorical.rs): codes into a        *)
(* dictionary of the strings, and a null mask.  The code under a null is   *)
(* whatever it was.  An array is [kind, unit, data, dict, masked, mask];   *)
(* code c is entry c + 1 of dict.  The dictionary here is private to the   *)
(* array; what sharing one means is Dictionary.tla's subject.              *)
(***************************************************************************)
EXTENDS NullMasks, SequencesExt

Length(a) == Len(a.data)
(* A code without an entry reads as the empty string. *)
Value(a, i) == <<a.unit, IF a.data[i] < Len(a.dict) THEN a.dict[a.data[i] + 1] ELSE <<>> >>

(* add_category: the code of a string, which is interned if it is new. *)
Interned(dict, v) == IF \E i \in DOMAIN dict : dict[i] = v THEN dict ELSE Append(dict, v)
Code(dict, v) == (CHOOSE i \in DOMAIN dict : dict[i] = v) - 1
AllAppended(dict, vs) == dict \o vs   \* mutant: without looking for the string first
(* Row after row; a row is <<>> for a null, which interns nothing, or      *)
(* <<string>>.                                                             *)
InternedRows(dict, rows) ==
  LET after[i \in 0..Len(rows)] ==
        IF i = 0 THEN dict
        ELSE IF rows[i] = <<>> THEN after[i - 1] ELSE Interned(after[i - 1], rows[i][1])
  IN  after[Len(rows)]
InternedAll(dict, vs) == InternedRows(dict, [i \in DOMAIN vs |-> <<vs[i]>>])
StringRows(a) == [i \in 1..Length(a) |-> IF IsNull(a, i) THEN <<>> ELSE <<Value(a, i)[2]>>]
Codes(a, data, dict) == [a EXCEPT !.data = data, !.dict = dict]

Push(a, v) ==
  LET dict == Interned(a.dict, v)
  IN  ValidAt(Codes(a, Append(a.data, Code(dict, v)), dict), Length(a) + 1)
(* A null is pushed as the empty string, which becomes a category. *)
PushNull(a) == NullTo(Push(a, <<>>), Length(a) + 1, 1)
Set(a, i, v) ==
  LET dict == Interned(a.dict, v)
  IN  ValidAt(Codes(a, [a.data EXCEPT ![i] = Code(dict, v)], dict), i)
SetRange(a, from, to, v) ==
  LET dict == Interned(a.dict, v)
  IN  OnMask(Codes(a, [i \in DOMAIN a.data |-> IF i > from /\ i <= to THEN Code(dict, v) ELSE a.data[i]], dict),
             SetBits(a.mask, from, to, TRUE))
Resize(a, n, v) ==
  LET dict == Interned(a.dict, v) IN Codes(a, Fit(a.data, n, Code(dict, v)), dict)

PushNulls(a, k) == NullTo(Resize(a, Length(a) + k, <<>>), Length(a) + k, k)

DeleteRange(a, from, to) ==
  OnMask([a EXCEPT !.data = Without(@, from, to)], Without(a.mask, from, to))
SliceClone(a, offset, n) ==
  OnMask([a EXCEPT !.data = Window(@, offset, n)], Window(a.mask, offset, n))

(* Codes go over as they are: the caller sees to the dictionaries. *)
AppendArray(a, o) ==
  Extended([a EXCEPT !.data = @ \o o.data], Length(a), o.masked, o.mask, Length(o))
AppendRange(a, o, offset, n) ==
  Extended([a EXCEPT !.data = @ \o Window(o.data, offset, n)], Length(a),
         o.masked, Window(o.mask, offset, n), n)

(* The other's codes in a's dictionary; a code without an entry (under a   *)
(* null) is read past the end of the map, and becomes any code.            *)
Remapped(dict, o, i, junk) ==
  IF o.data[i] < Len(o.dict) THEN Code(dict, o.dict[o.data[i] + 1]) ELSE junk
InsertRows(a, at, o, junk) ==
  LET dict == InternedAll(a.dict, o.dict)
  IN  IF Length(o) = 0 THEN a
      ELSE Inserted(Codes(a, Spliced(a.data, at, [i \in DOMAIN o.data |-> Remapped(dict, o, i, junk)]), dict),
                    Length(a), at, o.masked, o.mask, Length(o))

(* concat takes the codes over when the dictionaries allow it, and         *)
(* otherwise looks every code up: one without an entry panics.             *)
CodesStay(a, o) == IsPrefix(o.dict, a.dict) \/ IsPrefix(a.dict, o.dict)
ConcatPanics(a, o) == ~CodesStay(a, o) /\ \E i \in DOMAIN o.data : o.data[i] >= Len(o.dict)
Concat(a, o) ==
  IF Length(o) = 0 THEN a
  ELSE IF CodesStay(a, o)
  THEN AppendArray([a EXCEPT !.dict = IF Len(o.dict) > Len(@) THEN o.dict ELSE @], o)
  ELSE LET dict == InternedAll(a.dict, o.dict)
       IN  AppendArray([a EXCEPT !.dict = dict],
                       [o EXCEPT !.data = [i \in DOMAIN @ |-> Remapped(dict, o, i, 0)],
                                 !.mask = RowBits(a, o, Length(o))])

Split(a, at) == <<SliceClone(a, 0, at), DeleteRange(a, 0, at)>>
ExtendFromSlice(a, vs) ==
  LET dict == InternedAll(a.dict, vs)
  IN  OnMask(Codes(a, a.data \o [i \in DOMAIN vs |-> Code(dict, vs[i])], dict),
             Fit(a.mask, Length(a) + Len(vs), TRUE))
Filled(a, v, n) == Unmasked(Codes(a, All(n, 0), <<v>>))

(* compact_dict: the used categories in the order of their first use, code *)
(* 0 under every null.                                                     *)
CompactDict(a) ==
  LET rows == StringRows(a)
      dict == InternedRows(<<>>, rows)
  IN  Codes(a, [i \in DOMAIN rows |-> IF rows[i] = <<>> THEN 0 ELSE Code(dict, rows[i][1])], dict)

(* scatter_indices: codes as they are if the other's dictionary starts a's; *)
(* otherwise each is interned, and the null rows keep their code.           *)
ScatterCat(a, dst, o, src) ==
  LET hit == {dst[i] : i \in DOMAIN dst}
      lastOf(is, d) == CHOOSE i \in is : \A j \in is : j <= i
      writes(d) == {i \in DOMAIN dst : dst[i] = d}
      values(d) == {i \in writes(d) : ~IsNull(o, src[i])}
      same == IsPrefix(o.dict, a.dict)
      dict == IF same THEN a.dict
              ELSE InternedRows(a.dict, [i \in DOMAIN dst |-> IF IsNull(o, src[i]) THEN <<>>
                                                              ELSE <<o.dict[o.data[src[i]] + 1]>>])
      code(d) == IF same /\ d \in hit THEN o.data[src[lastOf(writes(d), d)]]
                 ELSE IF ~same /\ values(d) # {} THEN Code(dict, o.dict[o.data[src[lastOf(values(d), d)]] + 1])
                 ELSE a.data[d]
      moved == Codes(a, [d \in DOMAIN a.data |-> code(d)], dict)
      bits(m) == [d \in DOMAIN m |-> IF d \in hit THEN ~IsNull(o, src[lastOf(writes(d), d)]) ELSE m[d]]
  IN  IF o.masked \/ a.masked THEN Masked(moved, bits(MaskOr(a, Length(a)))) ELSE moved
=============================================================================
