-------------------------------- MODULE Text --------------------------------
(***************************************************************************)
(* The kernels over text: kernels/string.rs and kernels/arithmetic/string. *)
(* A text is a sequence of code points.  An array is                       *)
(* [kind, text, codes, mask]: of kind "string" its text is that of its     *)
(* rows, of kind "codes" (categorical) it is a dictionary, which codes     *)
(* count from zero on.  A window is [arr, off, len].  A regular expression *)
(* is a text that matches itself, or one with a parenthesis, which no      *)
(* expression can be compiled from.                                        *)
(***************************************************************************)
EXTENDS Integers, Sequences, FiniteSets
LOCAL INSTANCE SequencesExt

Some(x) == <<x>>
None    == <<>>
NoMask  == <<>>
Refused == [kind |-> "refused"]
Ints(data, mask)  == [kind |-> "ints", data |-> data, mask |-> mask]
Bools(data, mask) == [kind |-> "bools", data |-> data, mask |-> mask]
Strings(text, mask)           == [kind |-> "string", text |-> text, codes |-> <<>>, mask |-> mask]
Categories(dict, codes, mask) == [kind |-> "codes", text |-> dict, codes |-> codes, mask |-> mask]

Smaller(m, n) == IF m < n THEN m ELSE n
Larger(m, n)  == IF m > n THEN m ELSE n
Size(a) == IF a.kind = "string" THEN Len(a.text) ELSE Len(a.codes)
IsValid(mask, i) == mask = NoMask \/ mask[i]

GetStrUnchecked(a, i) ==
  IF ~IsValid(a.mask, i) THEN <<>> ELSE IF a.kind = "string" THEN a.text[i] ELSE a.text[a.codes[i] + 1]
At(w, i)   == GetStrUnchecked(w.arr, w.off + i)
Live(w, i) == IsValid(w.arr.mask, w.off + i)
Both(l, r, i) == Live(l, i) /\ Live(r, i)
MaskOf(w) == IF w.arr.mask = NoMask THEN NoMask ELSE [i \in 1..w.len |-> w.arr.mask[w.off + i]]
Rows(w)   == [i \in 1..w.len |-> IF Live(w, i) THEN Some(At(w, i)) ELSE None]

-----------------------------------------------------------------------------
(* What the standard library does with a text (external).                  *)
Bytes(c) == IF c < 128 THEN 1 ELSE 2
LenBytes(s) == FoldLeft(LAMBDA n, c : n + Bytes(c), 0, s)
First(at) == IF at = {} THEN -1 ELSE CHOOSE k \in at : \A j \in at : k <= j
Find(s, p) ==   \* the characters before the first p, or -1
  First({k \in 0..Len(s) - Len(p) : SubSeq(s, k + 1, k + Len(p)) = p})
After(s, k) == SubSeq(s, k + 1, Len(s))
RECURSIVE Pieces(_, _)
PiecesAround(s, p, k) == IF k = -1 THEN <<s>> ELSE <<SubSeq(s, 1, k)>> \o Pieces(After(s, k + Len(p)), p)
Pieces(s, p) == PiecesAround(s, p, Find(s, p))
Split(s, p) == IF p = <<>> THEN <<<<>>>> \o [i \in DOMAIN s |-> <<s[i]>>] \o <<<<>>>> ELSE Pieces(s, p)
Join(parts, d) == IF parts = <<>> THEN <<>> ELSE FoldLeft(LAMBDA s, t : s \o d \o t, parts[1], Tail(parts))
Repeat(s, n) == FlattenSeq([i \in 1..n |-> s])
Less(s, t) == \E k \in 0..Smaller(Len(s), Len(t)) :
                /\ SubSeq(s, 1, k) = SubSeq(t, 1, k)
                /\ k < Len(t)
                /\ k = Len(s) \/ s[k + 1] < t[k + 1]
Meets(method, s, p) ==
  CASE method = "contains"    -> Find(s, p) # -1
    [] method = "starts_with" -> Len(p) <= Len(s) /\ SubSeq(s, 1, Len(p)) = p
    [] method = "ends_with"   -> Len(p) <= Len(s) /\ After(s, Len(s) - Len(p)) = p
Compiles(p) == \A i \in DOMAIN p : p[i] # 40

-----------------------------------------------------------------------------
(* Two texts to one.                                                       *)

(* The codes of texts, given in the order in which they are first met.     *)
Intern(dict, s) == IF s \in ToSet(dict) THEN dict ELSE Append(dict, s)
CodeOf(dict, s) == (CHOOSE k \in DOMAIN dict : dict[k] = s) - 1
Present(rows) == FlattenSeq([i \in DOMAIN rows |-> rows[i]])   \* without the nulls
Encoded(dict, rows, code) == [i \in DOMAIN rows |-> IF rows[i] = None THEN code ELSE CodeOf(dict, rows[i][1])]
Kept(rows) == [i \in DOMAIN rows |-> rows[i] # None]
Texts(rows) == [i \in DOMAIN rows |-> IF rows[i] = None THEN <<>> ELSE rows[i][1]]

Concatenated(l, r) ==
  [i \in 1..Smaller(l.len, r.len) |-> IF Both(l, r, i) THEN Some(At(l, i) \o At(r, i)) ELSE None]
ConcatStrStr(l, r)  == Strings(Texts(Concatenated(l, r)), Kept(Concatenated(l, r)))
ConcatStrDict(l, r) == Strings(Texts(Concatenated(l, r)), Kept(Concatenated(l, r)))
ConcatDictStr(l, r) == ConcatStrDict(r, l)
ConcatDictDict(l, r) ==
  LET rows == Concatenated(l, r)  dict == FoldLeft(Intern, <<>>, Present(rows))
  IN  Categories(dict, Encoded(dict, rows, 0), Kept(rows))

(* Predicates: the empty pattern matches nothing.  The masks are held to   *)
(* end where the shorter window ends.                                      *)
MaskFits(w, n) == w.arr.mask = NoMask \/ Len(w.arr.mask) = w.off + n
BinaryStrPredLoop(method, l, r, n) ==
  [i \in 1..n |-> Both(l, r, i) /\ At(r, i) # <<>> /\ Meets(method, At(l, i), At(r, i))]
Pairwise(l, r, n) == [i \in 1..n |-> Both(l, r, i)]
StrPredicate(method, l, r) ==
  LET n == Smaller(l.len, r.len) IN Bools(BinaryStrPredLoop(method, l, r, n), NoMask)
StrCatPredicate(method, l, r) ==
  LET n == Smaller(l.len, r.len)
  IN  IF ~MaskFits(l, n) \/ ~MaskFits(r, n) THEN Refused
      ELSE Bools(BinaryStrPredLoop(method, l, r, n), Pairwise(l, r, n))
CatCatPredicate(method, l, r) == StrCatPredicate(method, l, r)
DictStrPredicate(method, l, r) ==
  LET n == Smaller(l.len, r.len) IN Bools(BinaryStrPredLoop(method, l, r, n), Pairwise(l, r, n))

RegexMatchLoop(l, r, n) ==
  IF ~MaskFits(l, n) \/ ~MaskFits(r, n) \/ \E i \in 1..n : Both(l, r, i) /\ ~Compiles(At(r, i)) THEN Refused
  ELSE Bools(BinaryStrPredLoop("contains", l, r, n), Pairwise(l, r, n))
RegexStrStr(l, r)   == RegexMatchLoop(l, r, Smaller(l.len, r.len))
RegexDictStr(l, r)  == RegexMatchLoop(l, r, Smaller(l.len, r.len))
RegexStrDict(l, r)  == RegexMatchLoop(l, r, Smaller(l.len, r.len))
RegexDictDict(l, r) == RegexMatchLoop(l, r, Smaller(l.len, r.len))

-----------------------------------------------------------------------------
(* One text to a number.                                                   *)
Measured(w, n) == Ints([i \in 1..w.len |-> IF Live(w, i) THEN n[i] ELSE 0], MaskOf(w))
FoundAt(s, p) == IF Find(s, p) = -1 THEN -1 ELSE LenBytes(SubSeq(s, 1, Find(s, p)))
LenStr(w)  == Measured(w, [i \in 1..w.len |-> Len(At(w, i))])
LenDict(w) == Measured(w, [i \in 1..w.len |-> Len(At(w, i))])
ByteLengthStr(w)  == Measured(w, [i \in 1..w.len |-> LenBytes(At(w, i))])
ByteLengthDict(w) == Measured(w, [i \in 1..w.len |-> LenBytes(At(w, i))])
FindStr(w, p)  == Measured(w, [i \in 1..w.len |-> FoundAt(At(w, i), p)])
FindDict(w, p) == Measured(w, [i \in 1..w.len |-> FoundAt(At(w, i), p)])
CountMatchStr(w, p)  == Measured(w, [i \in 1..w.len |-> Len(Split(At(w, i), p)) - 1])
CountMatchDict(w, p) == Measured(w, [i \in 1..w.len |-> Len(Split(At(w, i), p)) - 1])

(* The first of the smallest live rows, and of the largest.                *)
Lesser(best, row)  == IF row # None /\ (best = None \/ Less(row[1], best[1])) THEN row ELSE best
Greater(best, row) == IF row # None /\ (best = None \/ Less(best[1], row[1])) THEN row ELSE best
MinStringArray(w) == FoldLeft(Lesser, None, Rows(w))
MaxStringArray(w) == FoldLeft(Greater, None, Rows(w))
MinCategoricalArray(w) == FoldLeft(Lesser, None, Rows(w))
MaxCategoricalArray(w) == FoldLeft(Greater, None, Rows(w))
CountDistinctString(w) == Cardinality(ToSet(Present(Rows(w))))
JoinStr(w, d)  == IF Present(Rows(w)) = <<>> THEN None ELSE Some(Join(Present(Rows(w)), d))
JoinDict(w, d) == IF Present(Rows(w)) = <<>> THEN None ELSE Some(Join(Present(Rows(w)), d))

-----------------------------------------------------------------------------
(* One text to another.  A dictionary is converted entry by entry, entries *)
(* that become equal share a code, and the rows follow by their old codes. *)
Upper(c) == IF c = 97 THEN 65 ELSE IF c = 233 THEN 201 ELSE c
Lower(c) == IF c = 65 THEN 97 ELSE IF c = 201 THEN 233 ELSE c
Inked(s) == {i \in DOMAIN s : s[i] # 32}
TrimStart(s) == IF Inked(s) = {} THEN <<>> ELSE After(s, (CHOOSE i \in Inked(s) : \A j \in Inked(s) : i <= j) - 1)
TrimEnd(s)   == IF Inked(s) = {} THEN <<>> ELSE SubSeq(s, 1, CHOOSE i \in Inked(s) : \A j \in Inked(s) : j <= i)
Transforms == {"uppercase", "lowercase", "trim", "ltrim", "rtrim", "reverse"}
Transform(name, s) ==
  CASE name = "uppercase" -> [i \in DOMAIN s |-> Upper(s[i])]
    [] name = "lowercase" -> [i \in DOMAIN s |-> Lower(s[i])]
    [] name = "trim"      -> TrimStart(TrimEnd(s))
    [] name = "ltrim"     -> TrimStart(s)
    [] name = "rtrim"     -> TrimEnd(s)
    [] name = "reverse"   -> Reverse(s)

Given(w) == [i \in 1..w.len |-> At(w, i)]
Dict(w)  == w.arr.text
EachRow(w, new) == Strings([i \in 1..w.len |-> IF Live(w, i) THEN new[i] ELSE <<>>], MaskOf(w))
Recoded(w, code) == [i \in 1..w.len |-> IF Live(w, i) THEN code[w.arr.codes[w.off + i] + 1] ELSE 0]
EachEntry(w, new) ==
  LET dict == FoldLeft(Intern, <<>>, new)
  IN  Categories(dict, Recoded(w, [k \in DOMAIN new |-> CodeOf(dict, new[k])]), MaskOf(w))
SameCodes(w, new) ==   \* entries that become equal are kept apart
  Categories(new, Recoded(w, [k \in DOMAIN new |-> k - 1]), MaskOf(w))

TransformAll(name, ss) == [i \in DOMAIN ss |-> Transform(name, ss[i])]
UnaryStrTransform(name, w)  == EachRow(w, TransformAll(name, Given(w)))
UnaryDictTransform(name, w) == EachEntry(w, TransformAll(name, Dict(w)))

Substrings(ss, start, n) == [i \in DOMAIN ss |-> SubSeq(ss[i], start + 1, Smaller(Len(ss[i]), start + n))]
SubstringStr(w, start, n)  == EachRow(w, Substrings(Given(w), start, n))
SubstringDict(w, start, n) == EachEntry(w, Substrings(Dict(w), start, n))

Replaced(ss, from, to) == [i \in DOMAIN ss |-> Join(Split(ss[i], from), to)]
ReplaceStr(w, from, to)  == EachRow(w, Replaced(Given(w), from, to))
ReplaceDict(w, from, to) == EachEntry(w, Replaced(Dict(w), from, to))
RegexReplaceStr(w, pattern, to) ==
  IF ~Compiles(pattern) THEN Refused ELSE EachRow(w, Replaced(Given(w), pattern, to))
RegexReplaceDict(w, pattern, to) ==
  IF ~Compiles(pattern) THEN Refused ELSE EachEntry(w, Replaced(Dict(w), pattern, to))

Repeated(ss, n) == [i \in DOMAIN ss |-> Repeat(ss[i], n)]
RepeatStr(w, n)  == EachRow(w, Repeated(Given(w), n))
RepeatDict(w, n) == SameCodes(w, Repeated(Dict(w), n))

Padded(s, width, c, side) ==
  LET padding == width - Len(s)  left == padding \div 2
  IN  CASE padding <= 0    -> s
        [] padding > 0 /\ side = "Left"   -> Repeat(<<c>>, padding) \o s
        [] padding > 0 /\ side = "Right"  -> s \o Repeat(<<c>>, padding)
        [] padding > 0 /\ side = "Both"   -> Repeat(<<c>>, left) \o s \o Repeat(<<c>>, padding - left)
PadStr(w, width, c, side) == EachRow(w, [i \in 1..w.len |-> Padded(At(w, i), width, c, side)])
PadDict(w, width, c, side) ==
  SameCodes(w, [k \in DOMAIN Dict(w) |-> Padded(Dict(w)[k], width, c, side)])

-----------------------------------------------------------------------------
(* Arithmetic on texts (kernels/arithmetic/string.rs): a sum joins, a      *)
(* difference drops the first occurrence, a product repeats, a quotient    *)
(* splits.  On strings the pieces of a quotient are joined by a bar; a     *)
(* categorical result has a row for every piece.                           *)
TextOps == {"Add", "Subtract", "Multiply", "Divide"}
Unsupported(op, live) == op \notin TextOps /\ \E i \in DOMAIN live : live[i]
Without(a, b) == LET k == Find(a, b) IN IF k = -1 THEN a ELSE SubSeq(a, 1, k) \o After(a, k + Len(b))
Barred(a, b) == IF b = <<>> THEN a ELSE Join(Pieces(a, b), <<124>>)
Times(n) == Larger(n, 0)   \* a negative number repeats nothing
Formatted(n) == IF n < 0 THEN <<45, 48 - n>> ELSE <<48 + n>>

ApplyStrNum(w, numbers, op) ==
  IF w.len # Len(numbers) THEN Refused
  ELSE EachRow(w, [i \in 1..w.len |-> IF op = "Multiply" THEN Repeat(At(w, i), Times(numbers[i])) ELSE At(w, i)])
ApplyDict32Num(w, numbers, op) ==
  LET row(i) == IF op = "Multiply" THEN Repeat(At(w, i), Times(numbers[i])) ELSE At(w, i)
      rows == [i \in 1..w.len |-> IF Live(w, i) THEN Some(row(i)) ELSE None]
      dict == FoldLeft(Intern, <<>>, Present(rows))
  IN  IF w.len # Len(numbers) THEN Refused ELSE Categories(dict, Encoded(dict, rows, 0), MaskOf(w))
ApplyStrFloat(w, numbers, op) ==
  LET row(a, n) == CASE op = "Add"      -> a \o Formatted(n)
                     [] op = "Subtract" -> Without(a, Formatted(n))
                     [] op = "Multiply" -> Repeat(a, IF n < 0 THEN -n ELSE n)
                     [] op = "Divide"   -> Barred(a, Formatted(n))
                     [] OTHER           -> <<>>
  IN  IF w.len # Len(numbers) \/ Unsupported(op, Kept(Rows(w))) THEN Refused
      ELSE EachRow(w, [i \in 1..w.len |-> row(At(w, i), numbers[i])])

ApplyStrStr(l, r, op) ==
  LET row(a, b) == CASE op = "Add"      -> a \o b
                     [] op = "Subtract" -> IF b = <<>> THEN a ELSE Without(a, b)
                     [] op = "Multiply" -> Repeat(a, LenBytes(b))
                     [] op = "Divide"   -> Barred(a, b)
                     [] OTHER           -> <<>>
      rows == [i \in 1..l.len |-> IF Both(l, r, i) THEN Some(row(At(l, i), At(r, i))) ELSE None]
  IN  IF l.len # r.len \/ Unsupported(op, Pairwise(l, r, l.len)) THEN Refused
      ELSE Strings(Texts(rows), Kept(rows))

(* The masks of two whole arrays, from their first bit on.                 *)
MergeBitmasksToNew(l, r, n) ==
  IF l.mask = NoMask /\ r.mask = NoMask THEN NoMask
  ELSE [i \in 1..n |-> IsValid(l.mask, i) /\ IsValid(r.mask, i)]
Counted(mask, n) == [i \in 1..n |-> IsValid(mask, i)]

(* The rows of categorical results, one or more for every pair.            *)
EachOf(parts) == [k \in DOMAIN parts |-> Some(parts[k])]
RowsFor(a, b, op) ==
  CASE op = "Add"      -> <<Some(a \o b)>>
    [] op = "Subtract" -> <<Some(IF b = <<>> THEN a ELSE Without(a, b))>>
    [] op = "Multiply" -> <<Some(a)>>
    [] op = "Divide"   -> IF b = <<>> THEN <<Some(a)>> ELSE EachOf(Pieces(a, b))
    [] OTHER           -> <<>>
(* A null writes its code past the rows that were counted, and leaves the  *)
(* code of its own row as it was allocated.                                *)
Unset == -1
PastTheRows(uniq, rows, nulls) ==
  Categories(uniq, Encoded(uniq, rows, Unset) \o [k \in 1..nulls |-> CodeOf(uniq, <<>>)], Kept(rows))
Widened(l, r, mask, op, known) ==
  LET rows == FlattenSeq([i \in 1..l.len |->
                IF IsValid(mask, i) THEN RowsFor(At(l, i), At(r, i), op) ELSE <<None>>])
      nulls == {i \in 1..l.len : ~IsValid(mask, i)}
  IN  PastTheRows(FoldLeft(Intern, Intern(known, <<>>), Present(rows)), rows, Cardinality(nulls))
ApplyDictDictImpl(l, r, op) ==
  LET mask == MergeBitmasksToNew(l.arr, r.arr, l.len)
  IN  IF l.len # r.len \/ Unsupported(op, Counted(mask, l.len)) THEN Refused
      ELSE Widened(l, r, mask, op, FoldLeft(Intern, <<>>, l.arr.text \o r.arr.text))

(* More than three in four distinct rows are converted to strings and back.*)
IsVaried(a) == 4 * Cardinality({GetStrUnchecked(a, i) : i \in 1..Size(a)}) > 3 * Size(a)
ToStringArray(a) == Strings([i \in 1..Size(a) |-> GetStrUnchecked(a, i)], a.mask)
ToCategoricalArray(a) ==
  LET rows == [i \in DOMAIN a.text |-> IF IsValid(a.mask, i) THEN Some(a.text[i]) ELSE None]
      dict == FoldLeft(Intern, <<>>, Present(rows))
  IN  Categories(dict, Encoded(dict, rows, 0), a.mask)
AsCategories(strings) == IF strings = Refused THEN Refused ELSE ToCategoricalArray(strings)
ApplyDict32Str(l, r, op) ==
  LET mask == MergeBitmasksToNew(l.arr, r.arr, l.len)
  IN  IF l.len # r.len THEN Refused
      ELSE IF IsVaried(l.arr) \/ IsVaried(r.arr)
           THEN AsCategories(ApplyStrStr([l EXCEPT !.arr = ToStringArray(l.arr)], r, op))
           ELSE IF Unsupported(op, Counted(mask, l.len)) THEN Refused
                ELSE Widened(l, r, mask, op, l.arr.text)
ApplyStrDict32(l, r, op) ==
  LET mask == MergeBitmasksToNew(l.arr, r.arr, l.len)
      pieces(a, b) == IF op = "Divide" THEN EachOf(Split(a, b)) ELSE RowsFor(a, b, op)
      rows == FlattenSeq([i \in 1..l.len |-> IF IsValid(mask, i) THEN pieces(At(l, i), At(r, i)) ELSE <<None>>])
  IN  IF l.len # r.len \/ Unsupported(op, Counted(mask, l.len)) THEN Refused
      ELSE Strings(Texts(rows), mask)

-----------------------------------------------------------------------------
(* Two columns of optional texts counted against each other, in a flat     *)
(* table that is laid out again when a new column label is met: only the   *)
(* rows up to the one that met it are copied.                              *)
CountAt(counts, old, r, c, upto) == IF r < upto /\ c < old /\ r * old + c < Len(counts) THEN counts[r * old + c + 1] ELSE 0
Copied(counts, old, width, height, upto) ==   \* only when there is a new column
  IF width > old THEN [k \in 1..height * width |-> CountAt(counts, old, (k - 1) \div width, (k - 1) % width, upto)] ELSE counts
Lengthened(counts, n) == counts \o [k \in 1..Larger(0, n - Len(counts)) |-> 0]
Tallied(table, rows, cols, ri, ci) ==
  [rows |-> rows, cols |-> cols, total |-> table.total + 1,
   counts |-> [Lengthened(Copied(table.counts, Len(table.cols), Len(cols), Len(rows), ri + 1), (ri + 1) * Len(cols))
                 EXCEPT ![ri * Len(cols) + ci + 1] = @ + 1]]
Labelled(table, rows, cols, x, y) == Tallied(table, rows, cols, CodeOf(rows, x), CodeOf(cols, y))
Counting(table, x, y) == Labelled(table, Intern(table.rows, x), Intern(table.cols, y), x, y)
AsTable(table, width) ==
  IF table.total = 0 THEN Refused
  ELSE [kind |-> "table", rows |-> table.rows, cols |-> table.cols, total |-> table.total,
        matrix |-> [r \in DOMAIN table.rows |-> SubSeq(table.counts, (r - 1) * width + 1, r * width)]]
FromTallies(table) == AsTable(table, Len(table.cols))
CrossTabulate(x, y) ==
  LET step(table, i) == IF x[i] = None \/ y[i] = None THEN table ELSE Counting(table, x[i][1], y[i][1])
  IN  IF Len(x) # Len(y) THEN Refused
      ELSE FromTallies(FoldLeft(step, [rows |-> <<>>, cols |-> <<>>, counts |-> <<>>, total |-> 0], [i \in DOMAIN x |-> i]))

-----------------------------------------------------------------------------
(* What the kernels mean, row by row of their windows, however the text is *)
(* stored.                                                                 *)
RowsOf(a)    == Rows([arr |-> a, off |-> 0, len |-> Size(a)])
NumbersOf(a) == [i \in DOMAIN a.data |-> IF IsValid(a.mask, i) THEN Some(a.data[i]) ELSE None]
Follows(rows, w, new) == rows = [i \in 1..w.len |-> IF Live(w, i) THEN Some(new[i]) ELSE None]
IsLeast(best, w)    == IF best = None THEN Present(Rows(w)) = <<>>
                       ELSE best \in ToSet(Rows(w)) /\ \A s \in ToSet(Present(Rows(w))) : ~Less(s, best[1])
IsGreatest(best, w) == IF best = None THEN Present(Rows(w)) = <<>>
                       ELSE best \in ToSet(Rows(w)) /\ \A s \in ToSet(Present(Rows(w))) : ~Less(best[1], s)

(* Every kernel of one text on a window of strings, or of codes.           *)
StringsFollow(w, p, q, n) ==
  /\ \A name \in Transforms : Follows(RowsOf(UnaryStrTransform(name, w)), w, TransformAll(name, Given(w)))
  /\ \A k \in 0..n : Follows(RowsOf(SubstringStr(w, k, n)), w, Substrings(Given(w), k, n))
  /\ Follows(RowsOf(ReplaceStr(w, p, q)), w, Replaced(Given(w), p, q))
  /\ Compiles(p) => Follows(RowsOf(RegexReplaceStr(w, p, q)), w, Replaced(Given(w), p, q))
  /\ Follows(RowsOf(RepeatStr(w, n)), w, Repeated(Given(w), n))
  /\ \A side \in {"Left", "Right", "Both"} :
       \A i \in 1..w.len :
         LET s == PadStr(w, n, 45, side).text[i]
         IN  Live(w, i) => Len(s) = Larger(n, Len(At(w, i))) /\ Find(s, At(w, i)) # -1
  /\ Follows(NumbersOf(LenStr(w)), w, [i \in 1..w.len |-> Len(At(w, i))])
  /\ Follows(NumbersOf(ByteLengthStr(w)), w, [i \in 1..w.len |-> LenBytes(At(w, i))])
  /\ Follows(NumbersOf(FindStr(w, p)), w, [i \in 1..w.len |-> FoundAt(At(w, i), p)])
  /\ Follows(NumbersOf(CountMatchStr(w, p)), w, [i \in 1..w.len |-> Len(Split(At(w, i), p)) - 1])
  /\ IsLeast(MinStringArray(w), w) /\ IsGreatest(MaxStringArray(w), w)
  /\ CountDistinctString(w) = Cardinality({At(w, i) : i \in {k \in 1..w.len : Live(w, k)}})
(* What is done to a dictionary is done to the rows that its codes name.   *)
CodesFollow(w, p, q, n) ==
  LET plain == [w EXCEPT !.arr = ToStringArray(w.arr)]
  IN  /\ \A name \in Transforms : RowsOf(UnaryDictTransform(name, w)) = RowsOf(UnaryStrTransform(name, plain))
      /\ \A k \in 0..n : RowsOf(SubstringDict(w, k, n)) = RowsOf(SubstringStr(plain, k, n))
      /\ RowsOf(ReplaceDict(w, p, q)) = RowsOf(ReplaceStr(plain, p, q))
      /\ Compiles(p) => RowsOf(RegexReplaceDict(w, p, q)) = RowsOf(RegexReplaceStr(plain, p, q))
      /\ RowsOf(RepeatDict(w, n)) = RowsOf(RepeatStr(plain, n))
      /\ \A side \in {"Left", "Right", "Both"} :
           RowsOf(PadDict(w, n, 45, side)) = RowsOf(PadStr(plain, n, 45, side))
      /\ NumbersOf(LenDict(w)) = NumbersOf(LenStr(plain))
      /\ NumbersOf(ByteLengthDict(w)) = NumbersOf(ByteLengthStr(plain))
      /\ NumbersOf(FindDict(w, p)) = NumbersOf(FindStr(plain, p))
      /\ NumbersOf(CountMatchDict(w, p)) = NumbersOf(CountMatchStr(plain, p))
      /\ IsLeast(MinCategoricalArray(w), plain) /\ IsGreatest(MaxCategoricalArray(w), plain)
      /\ JoinDict(w, q) = JoinStr(plain, q)
OneText(w, p, q, n) == IF w.arr.kind = "string" THEN StringsFollow(w, p, q, n) ELSE CodesFollow(w, p, q, n)

-----------------------------------------------------------------------------
Kinds(l, r) == <<l.arr.kind, r.arr.kind>>
Joined(l, r) == CASE Kinds(l, r) = <<"string", "string">> -> ConcatStrStr(l, r)
                  [] Kinds(l, r) = <<"string", "codes">>  -> ConcatStrDict(l, r)
                  [] Kinds(l, r) = <<"codes", "string">>  -> ConcatDictStr(l, r)
                  [] Kinds(l, r) = <<"codes", "codes">>   -> ConcatDictDict(l, r)
Tested(m, l, r) == CASE Kinds(l, r) = <<"string", "string">> -> StrPredicate(m, l, r)
                     [] Kinds(l, r) = <<"string", "codes">>  -> StrCatPredicate(m, l, r)
                     [] Kinds(l, r) = <<"codes", "string">>  -> DictStrPredicate(m, l, r)
                     [] Kinds(l, r) = <<"codes", "codes">>   -> CatCatPredicate(m, l, r)
Matched(l, r) == CASE Kinds(l, r) = <<"string", "string">> -> RegexStrStr(l, r)
                   [] Kinds(l, r) = <<"string", "codes">>  -> RegexStrDict(l, r)
                   [] Kinds(l, r) = <<"codes", "string">>  -> RegexDictStr(l, r)
                   [] Kinds(l, r) = <<"codes", "codes">>   -> RegexDictDict(l, r)
Combined(l, r, op) == CASE Kinds(l, r) = <<"string", "string">> -> ApplyStrStr(l, r, op)
                        [] Kinds(l, r) = <<"string", "codes">>  -> ApplyStrDict32(l, r, op)
                        [] Kinds(l, r) = <<"codes", "string">>  -> ApplyDict32Str(l, r, op)
                        [] Kinds(l, r) = <<"codes", "codes">>   -> ApplyDictDictImpl(l, r, op)

(* The departures of the code, by name.                                    *)
SwapsSides(l, r) == Kinds(l, r) = <<"codes", "string">>
EndsEarly(l, r) == LET n == Smaller(l.len, r.len) IN ~MaskFits(l, n) \/ ~MaskFits(r, n)
AsStrings(l, r) == \/ Kinds(l, r) = <<"string", "string">>
                   \/ Kinds(l, r) = <<"codes", "string">> /\ (IsVaried(l.arr) \/ IsVaried(r.arr))
MasksFromTheStart(l, r) == ~AsStrings(l, r) /\ \E w \in {l, r} : w.arr.mask # NoMask /\ w.off > 0
SplitsCharacters(l, r) == Kinds(l, r) = <<"string", "codes">> /\ \E i \in 1..l.len : Both(l, r, i) /\ At(r, i) = <<>>
MaskIsShort(l, r) == Kinds(l, r) = <<"string", "codes">> /\ \E w \in {l, r} : w.arr.mask # NoMask

(* Row i of the result of every kernel of two texts is that of the two     *)
(* rows i; a quotient gives the pieces, which the divisor joins again.     *)
Shown(out) == [i \in 1..IF out.mask = NoMask THEN Size(out) ELSE Len(out.mask) |->
                 IF IsValid(out.mask, i) THEN Some(GetStrUnchecked(out, i)) ELSE None]
RowsMeant(l, r, op) ==
  FlattenSeq([i \in 1..l.len |->
    CASE ~Both(l, r, i)       -> <<None>>
      [] Both(l, r, i) /\ AsStrings(l, r) /\ op = "Multiply" -> <<Some(Repeat(At(l, i), LenBytes(At(r, i))))>>
      [] Both(l, r, i) /\ AsStrings(l, r) /\ op = "Divide"   -> <<Some(Barred(At(l, i), At(r, i)))>>
      [] OTHER -> RowsFor(At(l, i), At(r, i), op)])
CombinesRows(l, r, op) ==
  \A out \in {Combined(l, r, op)} :
      IF l.len # r.len THEN out = Refused
      ELSE \/ MasksFromTheStart(l, r)
           \/ op = "Divide" /\ (SplitsCharacters(l, r) \/ MaskIsShort(l, r))
           \/ IF Unsupported(op, Pairwise(l, r, l.len)) THEN out = Refused
              ELSE op \in TextOps => Shown(out) = RowsMeant(l, r, op)
TwoTexts(l, r) ==
  LET n == Smaller(l.len, r.len)  both == Pairwise(l, r, n)
  IN  /\ ~SwapsSides(l, r) => RowsOf(Joined(l, r)) = Concatenated(l, r)
      /\ \A m \in {"contains", "starts_with", "ends_with"} : \A out \in {Tested(m, l, r)} :
           IF out = Refused THEN EndsEarly(l, r)
           ELSE /\ out.mask \in {NoMask, both}
                /\ \A i \in 1..n :
                     out.data[i] <=> both[i] /\ At(r, i) # <<>> /\ Meets(m, At(l, i), At(r, i))
      /\ \A out \in {Matched(l, r)} :
           IF out = Refused THEN EndsEarly(l, r) \/ \E i \in 1..n : ~Compiles(At(r, i))
           ELSE out.mask = both /\ \A i \in 1..n : out.data[i] => Find(At(l, i), At(r, i)) # -1
      /\ \A op \in TextOps \cup {"Power"} : CombinesRows(l, r, op)
      /\ \A i \in 1..n : At(r, i) # <<>> =>
           LET p == Pieces(At(l, i), At(r, i))
           IN  Join(p, At(r, i)) = At(l, i) /\ \A k \in DOMAIN p : Find(p[k], At(r, i)) = -1

(* A text and a number: repeated, or as the digits of the number.          *)
TextAndNumber(w, numbers, op) ==
  LET number(i) == Formatted(numbers[i])
      row(i) == CASE op = "Add"      -> At(w, i) \o number(i)
                  [] op = "Subtract" -> Without(At(w, i), number(i))
                  [] op = "Multiply" -> Repeat(At(w, i), IF numbers[i] < 0 THEN -numbers[i] ELSE numbers[i])
                  [] op = "Divide"   -> Barred(At(w, i), number(i))
      product(i) == IF op = "Multiply" THEN Repeat(At(w, i), Times(numbers[i])) ELSE At(w, i)
  IN  IF w.arr.kind = "codes"
      THEN Follows(RowsOf(ApplyDict32Num(w, numbers, op)), w, [i \in 1..w.len |-> product(i)])
      ELSE /\ Follows(RowsOf(ApplyStrNum(w, numbers, op)), w, [i \in 1..w.len |-> product(i)])
           /\ Follows(RowsOf(ApplyStrFloat(w, numbers, op)), w, [i \in 1..w.len |-> row(i)])

(* A contingency table counts its pairs, unless a column was first met in  *)
(* a row that others follow: these lose what they had.                     *)
LosesRows(x, y) ==
  \E i, j \in DOMAIN x :
    /\ j < i /\ x[j] # None /\ y[j] # None /\ x[i] # None /\ y[i] # None
    /\ \A k \in 1..i - 1 : (x[k] # None /\ y[k] # None) => y[k] # y[i]
    /\ \E k \in 1..j - 1 : x[k] = x[i] /\ y[k] # None
    /\ \A k \in 1..j - 1 : y[k] # None => x[k] # x[j]
Tabulates(x, y) ==
  \A out \in {CrossTabulate(x, y)}, pairs \in {{i \in DOMAIN x \cap DOMAIN y : x[i] # None /\ y[i] # None}} :
      IF Len(x) # Len(y) \/ pairs = {} THEN out = Refused
      ELSE /\ out.total = Cardinality(pairs)
           /\ ToSet(out.rows) = {x[i][1] : i \in pairs} /\ ToSet(out.cols) = {y[i][1] : i \in pairs}
           /\ \/ LosesRows(x, y)
              \/ \A r \in DOMAIN out.rows, c \in DOMAIN out.cols :
                   out.matrix[r][c] = Cardinality({i \in pairs : x[i] = Some(out.rows[r]) /\ y[i] = Some(out.cols[c])})
=============================================================================
