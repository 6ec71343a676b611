-------------------------- MODULE ArrayProofs --------------------------
(***************************************************************************)
(* What Columns' operators on the four kinds of array make of an array     *)
(* that holds the rows its owner expects: the same rows, with the masks,   *)
(* data and offsets these need.  First the masks and the sequences of      *)
(* NullMasks, then arrays of fixed width, of booleans and of text.  Each   *)
(* "...Kept" predicate says that an array holds the rows w; each           *)
(* operation has a lemma that says which rows its result holds.            *)
(***************************************************************************)
EXTENDS Columns, SequenceTheorems, FiniteSetTheorems, TLAPS

(* What a row of any kind holds, and the rows an owner expects: none or    *)
(* one cell with the unit it is counted in.                                *)
Cell == Int \cup BOOLEAN \cup Seq(Byte)
WantRow == Seq(Nat \X Cell)
(* Bits of a mask and of a boolean array, named so that they are not taken *)
(* for formulas.                                                           *)
Yes == TRUE
No == FALSE
Bits == BOOLEAN
(* The mask m, if k, marks exactly the rows of w that are null; a bit it   *)
(* lacks is read as valid.                                                 *)
Nulls(k, m, w) ==
  /\ k \in BOOLEAN /\ m \in Seq(Bits) /\ w \in Seq(WantRow)
  /\ \A i \in 1..Len(w) : (k /\ i <= Len(m) /\ m[i] # Yes) <=> w[i] = <<>>
(* A mask has a bit for each of n rows, and the bits past them are set.    *)
WholeTo(k, m, n) == k => Len(m) >= n /\ \A i \in n + 1..Len(m) : m[i] = Yes

(* The two bits are bits and differ.                                       *)
LEMMA YesNo == Yes \in Bits /\ No \in Bits /\ Yes # No
BY DEF Yes, No, Bits

(* What Fit, SetBits and the other operators on sequences make, item by    *)
(* item.                                                                   *)
AsFit(t, s, n, v) ==
  Len(t) = n /\ \A i \in 1..n : t[i] = IF i <= Len(s) THEN s[i] ELSE v
AsSetBits(t, m, from, to, v) ==
  /\ Len(t) = IF to > Len(m) THEN to ELSE Len(m)
  /\ \A i \in 1..Len(t) : t[i] = IF i > from /\ i <= to THEN v ELSE IF i <= Len(m) THEN m[i] ELSE No

(* Fit (a vector's resize) makes a sequence of the length asked for: the   *)
(* items it had, then the given one.                                       *)
LEMMA FitIs ==
  ASSUME NEW S, NEW s \in Seq(S), NEW n \in Nat, NEW v \in S
  PROVE  Fixed!Fit(s, n, v) \in Seq(S) /\ AsFit(Fixed!Fit(s, n, v), s, n, v)
<1>1. CASE n <= Len(s)
  BY <1>1 DEF Fixed!Fit, AsFit
<1>2. CASE n > Len(s)
  <2> DEFINE k == n - Len(s)
             b == Fixed!All(k, v)
  <2>1. Fixed!Fit(s, n, v) = s \o b
    BY <1>2 DEF Fixed!Fit
  <2>2. k \in Nat /\ b \in Seq(S) /\ Len(b) = k /\ \A i \in 1..k : b[i] = v
    BY <1>2 DEF Fixed!All
  <2> HIDE DEF b
  <2> QED BY <2>1, <2>2 DEF AsFit
<1> QED BY <1>1, <1>2

(* set_bits writes one value between two places, growing the sequence with *)
(* clear bits up to the last of them.                                      *)
LEMMA SetBitsIs ==
  ASSUME NEW S, No \in S, NEW m \in Seq(S), NEW from \in Nat, NEW to \in Nat, NEW v \in S
  PROVE  Fixed!SetBits(m, from, to, v) \in Seq(S) /\ AsSetBits(Fixed!SetBits(m, from, to, v), m, from, to, v)
<1> DEFINE g == IF to > Len(m) THEN Fixed!Fit(m, to, No) ELSE m
           f == [i \in 1..Len(g) |-> IF i > from /\ i <= to THEN v ELSE g[i]]
<1>1. /\ g \in Seq(S) /\ Len(g) = IF to > Len(m) THEN to ELSE Len(m)
      /\ \A i \in 1..Len(g) : g[i] = IF i <= Len(m) THEN m[i] ELSE No
  <2>1. CASE to > Len(m)
    <3>1. g \in Seq(S) /\ AsFit(g, m, to, No)
      BY <2>1, FitIs
    <3> QED BY <2>1, <3>1 DEF AsFit
  <2>2. CASE ~(to > Len(m))
    BY <2>2
  <2> QED BY <2>1, <2>2
<1>2. Fixed!SetBits(m, from, to, v) = f
  BY DEF Fixed!SetBits, No
<1> HIDE DEF g
<1>3. f \in Seq(S) /\ Len(f) = Len(g)
  BY <1>1
<1>4. \A i \in 1..Len(g) : f[i] = IF i > from /\ i <= to THEN v ELSE g[i]
  BY <1>1
<1> HIDE DEF f
<1> QED BY <1>1, <1>2, <1>3, <1>4 DEF AsSetBits

(* A whole mask has nothing to add for rows that are not null: the bits    *)
(* past its rows are set already.                                          *)
LEMMA NullsMore ==
  ASSUME NEW k, NEW m, NEW w, Nulls(k, m, w), WholeTo(k, m, Len(w)),
         NEW y \in Seq(WantRow), \A i \in 1..Len(y) : y[i] # <<>>
  PROVE  Nulls(k, m, w \o y)
BY DEF Nulls, WholeTo

(* A mask marks the nulls of the first rows as well.                       *)
LEMMA NullsCut ==
  ASSUME NEW k, NEW m, NEW w, Nulls(k, m, w), NEW n \in Nat, n <= Len(w)
  PROVE  Nulls(k, m, SubSeq(w, 1, n))
BY DEF Nulls

(* A mask stretched or cut to its rows, with valid bits, marks the same    *)
(* nulls.                                                                  *)
LEMMA NullsFit ==
  ASSUME NEW k, NEW m, NEW w, Nulls(k, m, w)
  PROVE  Nulls(k, Fixed!Fit(m, Len(w), Yes), w)
<1> DEFINE n == Len(w)
           t == Fixed!Fit(m, n, Yes)
<1>0. n \in Nat /\ m \in Seq(Bits) /\ w \in Seq(WantRow)
  BY DEF Nulls
<1>1. t \in Seq(Bits) /\ AsFit(t, m, n, Yes)
  BY <1>0, FitIs, YesNo
<1>2. Nulls(k, t, w)
  <2> HIDE DEF t
  <2> QED BY <1>0, <1>1 DEF Nulls, AsFit
<1> QED BY <1>2

(* Setting the bits of a range makes its rows valid and no other.          *)
LEMMA NullsValid ==
  ASSUME NEW k, NEW m, NEW w, Nulls(k, m, w), NEW from \in Nat, NEW to \in Nat, k => from <= Len(m),
         from <= to, to <= Len(w),
         NEW x \in Seq(WantRow), Len(x) = Len(w),
         \A i \in 1..Len(x) : x[i] = <<>> <=> ~(i > from /\ i <= to) /\ w[i] = <<>>
  PROVE  Nulls(k, IF k THEN Fixed!SetBits(m, from, to, Yes) ELSE m, x)
<1> DEFINE t == Fixed!SetBits(m, from, to, Yes)
<1>0. m \in Seq(Bits)
  BY DEF Nulls
<1>1. t \in Seq(Bits) /\ AsSetBits(t, m, from, to, Yes)
  BY <1>0, SetBitsIs, YesNo
<1> HIDE DEF t
<1>2. CASE k
  <2>1. Nulls(k, t, x)
    BY <1>2, <1>0, <1>1 DEF Nulls, AsSetBits
  <2> QED BY <1>2, <2>1 DEF t
<1>3. CASE ~k
  BY <1>3, <1>0 DEF Nulls
<1> QED BY <1>2, <1>3

(* Clearing the bits of a range in the mask, or in a new mask of valid     *)
(* rows, makes its rows null and no other.                                 *)
LEMMA NullsRange ==
  ASSUME NEW k, NEW m, NEW w, Nulls(k, m, w), NEW from \in Nat, NEW to \in Nat, k => from <= Len(m),
         from <= to, to <= Len(w), NEW n \in Nat, n >= Len(w),
         NEW x \in Seq(WantRow), Len(x) = Len(w),
         \A i \in 1..Len(x) : x[i] = <<>> <=> (i > from /\ i <= to) \/ w[i] = <<>>
  PROVE  Nulls(TRUE, Fixed!SetBits(IF k THEN m ELSE Fixed!All(n, Yes), from, to, No), x)
<1> DEFINE g == IF k THEN m ELSE Fixed!All(n, Yes)
           t == Fixed!SetBits(g, from, to, No)
<1>1. g \in Seq(Bits) /\ (~k => from <= Len(g)) /\ Nulls(TRUE, g, w)
  <2>1. CASE k
    BY <2>1 DEF Nulls
  <2>2. CASE ~k
    <3> DEFINE h == Fixed!All(n, Yes)
    <3>1. h \in Seq(Bits) /\ Len(h) = n /\ \A i \in 1..n : h[i] = Yes
      BY YesNo DEF Fixed!All
    <3>2. g = h
      BY <2>2
    <3> HIDE DEF g, h
    <3>3. w \in Seq(WantRow) /\ \A i \in 1..Len(w) : w[i] # <<>>
      BY <2>2 DEF Nulls
    <3>4. \A i \in 1..Len(w) : h[i] = Yes
      BY <3>1, <3>3
    <3>5. Nulls(TRUE, h, w)
      BY <3>1, <3>3, <3>4 DEF Nulls
    <3>6. from <= Len(h)
      BY <3>1, <3>3
    <3> QED BY <3>1, <3>2, <3>5, <3>6
  <2> QED BY <2>1, <2>2
<1>2. k => g = m
  OBVIOUS
<1> HIDE DEF g
<1>3. t \in Seq(Bits) /\ AsSetBits(t, g, from, to, No)
  BY <1>1, SetBitsIs, YesNo
<1> HIDE DEF t
<1>4. from <= Len(g)
  BY <1>1, <1>2
<1>5. Nulls(TRUE, t, x)
  BY <1>1, <1>3, <1>4, YesNo DEF Nulls, AsSetBits
<1> QED BY <1>5 DEF t, g

(* What a concatenation holds, item by item.                               *)
AsJoin(u, s, t) ==
  /\ Len(u) = Len(s) + Len(t)
  /\ \A i \in 1..Len(u) : u[i] = IF i <= Len(s) THEN s[i] ELSE t[i - Len(s)]

(* A concatenation holds the items of the first and then those of the      *)
(* second.                                                                 *)
LEMMA JoinIs ==
  ASSUME NEW S, NEW s \in Seq(S), NEW t \in Seq(S)
  PROVE  s \o t \in Seq(S) /\ AsJoin(s \o t, s, t)
BY DEF AsJoin

(* What a window of a sequence and a sequence without a range hold, item   *)
(* by item.                                                                *)
AsWindow(t, s, from, n) == Len(t) = n /\ \A i \in 1..n : t[i] = s[from + i]
AsWithout(t, s, from, to) ==
  /\ Len(t) = Len(s) - (to - from)
  /\ \A i \in 1..Len(t) : t[i] = IF i <= from THEN s[i] ELSE s[i + (to - from)]

(* A window holds the items that follow its offset.                        *)
LEMMA WindowIs ==
  ASSUME NEW S, NEW s \in Seq(S), NEW from \in Nat, NEW n \in Nat, from + n <= Len(s)
  PROVE  Fixed!Window(s, from, n) \in Seq(S) /\ AsWindow(Fixed!Window(s, from, n), s, from, n)
BY DEF Fixed!Window, AsWindow

(* A sequence without a range holds the items before it, then those after  *)
(* it.                                                                     *)
LEMMA WithoutIs ==
  ASSUME NEW S, NEW s \in Seq(S), NEW from \in Nat, NEW to \in Nat, from <= to, to <= Len(s)
  PROVE  Fixed!Without(s, from, to) \in Seq(S) /\ AsWithout(Fixed!Without(s, from, to), s, from, to)
<1> DEFINE a == SubSeq(s, 1, from)
           b == SubSeq(s, to + 1, Len(s))
<1>1. a \in Seq(S) /\ Len(a) = from
  OBVIOUS
<1>2. b \in Seq(S) /\ Len(b) = Len(s) - to
  OBVIOUS
<1>6. \A i \in 1..from : a[i] = s[i]
  OBVIOUS
<1>7. \A i \in 1..Len(s) - to : b[i] = s[to + i]
  OBVIOUS
<1>3. Fixed!Without(s, from, to) = a \o b
  BY DEF Fixed!Without
<1> HIDE DEF a, b
<1>8. a \o b \in Seq(S) /\ AsJoin(a \o b, a, b)
  BY <1>1, <1>2, JoinIs
<1>4. a \o b \in Seq(S) /\ Len(a \o b) = Len(s) - (to - from)
  BY <1>1, <1>2, <1>8 DEF AsJoin
<1>5. ASSUME NEW i \in 1..Len(a \o b)
      PROVE  (a \o b)[i] = IF i <= from THEN s[i] ELSE s[i + (to - from)]
  <2>1. CASE i <= from
    <3>1. (a \o b)[i] = a[i]
      BY <1>1, <1>8, <2>1 DEF AsJoin
    <3> QED BY <1>6, <2>1, <3>1
  <2>2. CASE i > from
    <3>1. i - from \in 1..Len(s) - to /\ to + (i - from) = i + (to - from)
      BY <1>4, <2>2
    <3>2. (a \o b)[i] = b[i - from]
      BY <1>1, <1>8, <2>2 DEF AsJoin
    <3> QED BY <1>7, <2>2, <3>1, <3>2
  <2> QED BY <2>1, <2>2
<1> QED BY <1>3, <1>4, <1>5 DEF AsWithout

(* Dropping a range of a whole mask drops the nulls of those rows.         *)
LEMMA NullsWithout ==
  ASSUME NEW k, NEW m, NEW w, Nulls(k, m, w), WholeTo(k, m, Len(w)),
         NEW from \in Nat, NEW to \in Nat, from <= to, to <= Len(w)
  PROVE  Nulls(k, IF k THEN Fixed!Without(m, from, to) ELSE m, Fixed!Without(w, from, to))
<1> DEFINE x == Fixed!Without(w, from, to)
           t == Fixed!Without(m, from, to)
<1>0. m \in Seq(Bits) /\ w \in Seq(WantRow)
  BY DEF Nulls
<1>1. x \in Seq(WantRow) /\ AsWithout(x, w, from, to)
  BY <1>0, WithoutIs
<1>2. CASE k
  <2>1. to <= Len(m)
    BY <1>0, <1>2 DEF WholeTo
  <2>2. t \in Seq(Bits) /\ AsWithout(t, m, from, to)
    BY <1>0, <2>1, WithoutIs
  <2>3. Nulls(k, t, x)
    <3> HIDE DEF x, t
    <3>1. ASSUME NEW i \in 1..Len(x) PROVE (i <= Len(t) /\ t[i] # Yes) <=> x[i] = <<>>
      <4>1. i <= Len(t)
        BY <1>0, <1>1, <1>2, <2>2 DEF WholeTo, AsWithout
      <4>2. CASE i <= from
        BY <1>0, <1>1, <1>2, <2>2, <4>1, <4>2 DEF Nulls, WholeTo, AsWithout
      <4>3. CASE i > from
        <5> DEFINE j == i + (to - from)
        <5>1. j \in 1..Len(w) /\ j <= Len(m)
          BY <1>0, <1>1, <1>2, <4>3 DEF WholeTo, AsWithout
        <5>2. x[i] = w[j] /\ t[i] = m[j]
          BY <1>1, <2>2, <4>1, <4>3 DEF AsWithout
        <5> HIDE DEF j
        <5> QED BY <1>2, <4>1, <5>1, <5>2 DEF Nulls
      <4> QED BY <4>2, <4>3
    <3> QED BY <1>1, <1>2, <2>2, <3>1 DEF Nulls
  <2> QED BY <1>2, <2>3
<1>3. CASE ~k
  <2>1. Nulls(k, m, x)
    <3> HIDE DEF x
    <3>1. ASSUME NEW i \in 1..Len(x) PROVE x[i] # <<>>
      <4> DEFINE j == IF i <= from THEN i ELSE i + (to - from)
      <4>1. j \in 1..Len(w) /\ x[i] = w[j]
        BY <1>0, <1>1 DEF AsWithout
      <4> HIDE DEF j
      <4> QED BY <1>3, <4>1 DEF Nulls
    <3> QED BY <1>0, <1>1, <1>3, <3>1 DEF Nulls
  <2> QED BY <1>3, <2>1
<1> QED BY <1>2, <1>3

(* The window of a mask marks the nulls of the window of its rows.         *)
LEMMA NullsWindow ==
  ASSUME NEW k, NEW m, NEW w, Nulls(k, m, w), k => Len(m) >= Len(w),
         NEW from \in Nat, NEW n \in Nat, from + n <= Len(w)
  PROVE  Nulls(k, IF k THEN Fixed!Window(m, from, n) ELSE m, Fixed!Window(w, from, n))
<1> DEFINE x == Fixed!Window(w, from, n)
           t == Fixed!Window(m, from, n)
<1>0. m \in Seq(Bits) /\ w \in Seq(WantRow)
  BY DEF Nulls
<1>1. x \in Seq(WantRow) /\ AsWindow(x, w, from, n)
  BY <1>0, WindowIs
<1>2. CASE k
  <2>1. from + n <= Len(m)
    BY <1>0, <1>2
  <2>2. t \in Seq(Bits) /\ AsWindow(t, m, from, n)
    BY <1>0, <2>1, WindowIs
  <2>3. Nulls(k, t, x)
    <3> HIDE DEF x, t
    <3> QED BY <1>0, <1>1, <1>2, <2>2 DEF Nulls, AsWindow
  <2> QED BY <1>2, <2>3
<1>3. CASE ~k
  <2>1. Nulls(k, m, x)
    <3> HIDE DEF x
    <3> QED BY <1>0, <1>1, <1>3 DEF Nulls, AsWindow
  <2> QED BY <1>3, <2>1
<1> QED BY <1>2, <1>3

(* The mask an array takes of another's marks the nulls of its rows.       *)
LEMMA NullsRowBits ==
  ASSUME NEW a, NEW o, NEW y, Nulls(o.masked, o.mask, y), o.masked => Len(o.mask) >= Len(y)
  PROVE  Nulls(o.masked, Fixed!RowBits(a, o, Len(y)), y)
<1>0. y \in Seq(WantRow) /\ o.mask \in Seq(Bits) /\ Len(y) \in Nat
  BY DEF Nulls
<1>1. CASE ~a.masked /\ o.masked
  <2>3. 0 \in Nat /\ 0 + Len(y) <= Len(y)
    BY <1>0
  <2>4. Nulls(o.masked, IF o.masked THEN Fixed!Window(o.mask, 0, Len(y)) ELSE o.mask, Fixed!Window(y, 0, Len(y)))
    BY <1>0, <2>3, NullsWindow
  <2>1. Nulls(o.masked, Fixed!Window(o.mask, 0, Len(y)), Fixed!Window(y, 0, Len(y)))
    BY <1>1, <2>4
  <2>2. Fixed!Window(o.mask, 0, Len(y)) = SubSeq(o.mask, 1, Len(y)) /\ Fixed!Window(y, 0, Len(y)) = y
    BY <1>0 DEF Fixed!Window
  <2> QED BY <1>1, <2>1, <2>2 DEF Fixed!RowBits
<1>2. CASE ~(~a.masked /\ o.masked)
  BY <1>2 DEF Fixed!RowBits
<1> QED BY <1>1, <1>2

(* Two masks joined mark the nulls of both runs of rows: the first must be *)
(* no longer than its rows if both have one, and the one that is missing   *)
(* is made of valid bits.                                                  *)
LEMMA NullsJoin ==
  ASSUME NEW k, NEW m, NEW w, Nulls(k, m, w), WholeTo(k, m, Len(w)), 
         NEW l, NEW p, NEW y, Nulls(l, p, y), k /\ l => Len(m) = Len(w)
  PROVE  Nulls(k \/ l, IF k THEN IF l THEN m \o p ELSE Fixed!Fit(m, Len(w) + Len(y), Yes)
                       ELSE IF l THEN Fixed!All(Len(w), Yes) \o p ELSE m, w \o y)
<1>1. CASE k /\ l
  BY <1>1 DEF Nulls
<1>2. CASE k /\ ~l
  <2>1. \A i \in 1..Len(y) : y[i] # <<>>
    BY <1>2 DEF Nulls
  <2>0. w \in Seq(WantRow) /\ y \in Seq(WantRow)
    BY DEF Nulls
  <2>2. Nulls(k, m, w \o y)
    BY <2>0, <2>1, NullsMore
  <2>3. Len(w \o y) = Len(w) + Len(y)
    BY <2>0
  <2>4. Nulls(k, Fixed!Fit(m, Len(w) + Len(y), Yes), w \o y)
    BY <2>2, <2>3, NullsFit
  <2> QED BY <1>2, <2>4
<1>3. CASE ~k /\ l
  <2> DEFINE g == Fixed!All(Len(w), Yes)
  <2>1. g \in Seq(Bits) /\ Len(g) = Len(w) /\ \A i \in 1..Len(w) : g[i] = Yes
    BY YesNo DEF Fixed!All, Nulls
  <2>2. Nulls(TRUE, g \o p, w \o y)
    <3> HIDE DEF g
    <3>1. p \in Seq(Bits) /\ w \in Seq(WantRow) /\ y \in Seq(WantRow)
      BY DEF Nulls
    <3>2. g \o p \in Seq(Bits) /\ w \o y \in Seq(WantRow)
      BY <2>1, <3>1
    <3>3. ASSUME NEW i \in 1..Len(w \o y)
          PROVE  (i <= Len(g \o p) /\ (g \o p)[i] # Yes) <=> (w \o y)[i] = <<>>
      <4>1. CASE i <= Len(w)
        BY <1>3, <2>1, <3>1, <4>1 DEF Nulls
      <4>2. CASE i > Len(w)
        BY <1>3, <2>1, <3>1, <4>2 DEF Nulls
      <4> QED BY <3>1, <4>1, <4>2
    <3> QED BY <3>2, <3>3 DEF Nulls
  <2> QED BY <1>3, <2>2
<1>4. CASE ~k /\ ~l
  BY <1>4 DEF Nulls
<1> QED BY <1>1, <1>2, <1>3, <1>4 DEF Nulls
(* What a sequence with another spliced in holds, item by item.            *)
AsSpliced(u, s, at, t) ==
  /\ Len(u) = Len(s) + Len(t)
  /\ \A i \in 1..Len(u) : u[i] = IF i <= at THEN s[i] ELSE IF i <= at + Len(t) THEN t[i - at]
                                 ELSE s[i - Len(t)]

(* A splice holds the items before the place, the new ones, and the rest.  *)
LEMMA SplicedIs ==
  ASSUME NEW S, NEW s \in Seq(S), NEW at \in Nat, at <= Len(s), NEW t \in Seq(S)
  PROVE  Fixed!Spliced(s, at, t) \in Seq(S) /\ AsSpliced(Fixed!Spliced(s, at, t), s, at, t)
<1> DEFINE a == SubSeq(s, 1, at)
           b == SubSeq(s, at + 1, Len(s))
           u == (a \o t) \o b
<1>1. a \in Seq(S) /\ Len(a) = at /\ Len(t) \in Nat
  OBVIOUS
<1>2. b \in Seq(S) /\ Len(b) = Len(s) - at
  OBVIOUS
<1>3. \A i \in 1..at : a[i] = s[i]
  OBVIOUS
<1>4. \A i \in 1..Len(s) - at : b[i] = s[at + i]
  OBVIOUS
<1>5. Fixed!Spliced(s, at, t) = u
  BY DEF Fixed!Spliced
<1> HIDE DEF a, b
<1> DEFINE c == a \o t
<1>6. c \in Seq(S) /\ AsJoin(c, a, t)
  BY <1>1, JoinIs
<1> HIDE DEF c
<1>7. u = c \o b /\ u \in Seq(S) /\ AsJoin(u, c, b)
  BY <1>2, <1>6, JoinIs DEF c
<1> HIDE DEF u
<1>9. Len(c) = at + Len(t) /\ Len(u) = Len(s) + Len(t)
  BY <1>1, <1>2, <1>6, <1>7 DEF AsJoin
<1>8. ASSUME NEW i \in 1..Len(u)
      PROVE  u[i] = IF i <= at THEN s[i] ELSE IF i <= at + Len(t) THEN t[i - at] ELSE s[i - Len(t)]
  <2>1. CASE i <= at
    <3>1. u[i] = c[i] /\ c[i] = a[i]
      BY <1>1, <1>6, <1>7, <1>9, <2>1 DEF AsJoin
    <3> QED BY <1>3, <2>1, <3>1
  <2>2. CASE i > at /\ i <= at + Len(t)
    <3>1. u[i] = c[i] /\ c[i] = t[i - at]
      BY <1>1, <1>6, <1>7, <1>9, <2>2 DEF AsJoin
    <3> QED BY <2>2, <3>1
  <2>3. CASE i > at + Len(t)
    <3>1. u[i] = b[i - (at + Len(t))]
      BY <1>1, <1>7, <1>9, <2>3 DEF AsJoin
    <3>2. i - (at + Len(t)) \in 1..Len(s) - at /\ at + (i - (at + Len(t))) = i - Len(t)
      BY <1>1, <1>9, <2>3
    <3> QED BY <1>1, <1>4, <2>3, <3>1, <3>2
  <2> QED BY <2>1, <2>2, <2>3
<1> QED BY <1>5, <1>7, <1>8, <1>9 DEF AsSpliced

(* Nothing spliced in, nothing changes.                                    *)
LEMMA SplicedNone ==
  ASSUME NEW S, NEW s \in Seq(S), NEW at \in Nat, at <= Len(s), NEW t \in Seq(S), Len(t) = 0
  PROVE  Fixed!Spliced(s, at, t) = s
<1> DEFINE u == Fixed!Spliced(s, at, t)
<1>1. u \in Seq(S) /\ AsSpliced(u, s, at, t)
  BY SplicedIs
<1> HIDE DEF u
<1>2. Len(u) = Len(s) /\ \A i \in 1..Len(u) : u[i] = s[i]
  BY <1>1 DEF AsSpliced
<1>3. u = s
  BY <1>1, <1>2, SeqEqual
<1> QED BY <1>3 DEF u

(* A mask spliced into a mask, each cut to its rows and made of valid bits *)
(* where one is missing, marks the nulls of the rows spliced the same way. *)
LEMMA NullsSpliced ==
  ASSUME NEW k, NEW m, NEW w, Nulls(k, m, w), k => Len(m) >= Len(w),
         NEW l, NEW p, NEW y, Nulls(l, p, y), l => Len(p) >= Len(y),
         NEW at \in Nat, at <= Len(w), k \/ l
  PROVE  Nulls(TRUE, Fixed!Spliced(SubSeq(IF k THEN m ELSE Fixed!All(Len(w), Yes), 1, Len(w)), at,
                                   IF l THEN SubSeq(p, 1, Len(y)) ELSE Fixed!All(Len(y), Yes)),
               Fixed!Spliced(w, at, y))
<1> DEFINE g == SubSeq(IF k THEN m ELSE Fixed!All(Len(w), Yes), 1, Len(w))
           h == IF l THEN SubSeq(p, 1, Len(y)) ELSE Fixed!All(Len(y), Yes)
           t == Fixed!Spliced(g, at, h)
           x == Fixed!Spliced(w, at, y)
<1>0. w \in Seq(WantRow) /\ y \in Seq(WantRow)
  BY DEF Nulls
<1>1. g \in Seq(Bits) /\ Len(g) = Len(w) /\ \A i \in 1..Len(w) : g[i] # Yes <=> w[i] = <<>>
  <2>1. CASE k
    BY <2>1 DEF Nulls
  <2>2. CASE ~k
    <3>1. /\ Fixed!All(Len(w), Yes) \in Seq(Bits) /\ Len(Fixed!All(Len(w), Yes)) = Len(w)
          /\ \A i \in 1..Len(w) : Fixed!All(Len(w), Yes)[i] = Yes
      BY <1>0, YesNo DEF Fixed!All
    <3>2. g \in Seq(Bits) /\ Len(g) = Len(w)
      BY <1>0, <2>2, <3>1
    <3>3. \A i \in 1..Len(w) : g[i] = Yes
      BY <1>0, <2>2, <3>1
    <3>4. \A i \in 1..Len(w) : w[i] # <<>>
      BY <2>2 DEF Nulls
    <3> HIDE DEF g
    <3> QED BY <3>2, <3>3, <3>4
  <2> QED BY <2>1, <2>2
<1>2. h \in Seq(Bits) /\ Len(h) = Len(y) /\ \A i \in 1..Len(y) : h[i] # Yes <=> y[i] = <<>>
  <2>1. CASE l
    BY <2>1 DEF Nulls
  <2>2. CASE ~l
    <3>2. h \in Seq(Bits) /\ Len(h) = Len(y)
      BY <1>0, <2>2, YesNo DEF Fixed!All
    <3>3. \A i \in 1..Len(y) : h[i] = Yes
      BY <1>0, <2>2, YesNo DEF Fixed!All
    <3>4. \A i \in 1..Len(y) : y[i] # <<>>
      BY <2>2 DEF Nulls
    <3> HIDE DEF h
    <3> QED BY <3>2, <3>3, <3>4
  <2> QED BY <2>1, <2>2
<1> HIDE DEF g, h
<1>3. x \in Seq(WantRow) /\ AsSpliced(x, w, at, y)
  BY <1>0, SplicedIs
<1>4. t \in Seq(Bits) /\ AsSpliced(t, g, at, h)
  BY <1>1, <1>2, SplicedIs
<1> HIDE DEF t, x
<1>5. ASSUME NEW i \in 1..Len(x) PROVE (i <= Len(t) /\ t[i] # Yes) <=> x[i] = <<>>
  <2>0. i \in 1..Len(t) /\ Len(x) = Len(w) + Len(y) /\ Len(w) \in Nat /\ Len(y) \in Nat
    BY <1>0, <1>1, <1>2, <1>3, <1>4 DEF AsSpliced
  <2>1. CASE i <= at
    BY <1>1, <1>2, <1>3, <1>4, <2>0, <2>1 DEF AsSpliced
  <2>2. CASE i > at /\ i <= at + Len(y)
    <3>1. x[i] = y[i - at] /\ t[i] = h[i - at] /\ i - at \in 1..Len(y)
      BY <1>1, <1>2, <1>3, <1>4, <2>0, <2>2 DEF AsSpliced
    <3> QED BY <1>2, <2>0, <3>1
  <2>3. CASE i > at + Len(y)
    <3>1. x[i] = w[i - Len(y)] /\ t[i] = g[i - Len(y)] /\ i - Len(y) \in 1..Len(w)
      BY <1>1, <1>2, <1>3, <1>4, <2>0, <2>3 DEF AsSpliced
    <3> QED BY <1>1, <2>0, <3>1
  <2> QED BY <2>1, <2>2, <2>3
<1>6. Nulls(TRUE, t, x)
  BY <1>3, <1>4, <1>5 DEF Nulls
<1> QED BY <1>6 DEF t, x, g, h

(* A range of a sequence overwritten by one item.                          *)
AsRange(t, s, from, to, v) ==
  Len(t) = Len(s) /\ \A i \in 1..Len(s) : t[i] = IF i > from /\ i <= to THEN v ELSE s[i]

(* Writing one item over a range, as a function of the index, changes that *)
(* range only.                                                             *)
LEMMA RangeIs ==
  ASSUME NEW S, NEW s \in Seq(S), NEW from \in Nat, NEW to \in Nat, NEW v \in S
  PROVE  LET t == [i \in DOMAIN s |-> IF i > from /\ i <= to THEN v ELSE s[i]]
         IN  t \in Seq(S) /\ AsRange(t, s, from, to, v)
<1> DEFINE t == [i \in DOMAIN s |-> IF i > from /\ i <= to THEN v ELSE s[i]]
<1>1. t \in Seq(S) /\ Len(t) = Len(s)
  OBVIOUS
<1>2. \A i \in 1..Len(s) : t[i] = IF i > from /\ i <= to THEN v ELSE s[i]
  OBVIOUS
<1> QED BY <1>1, <1>2 DEF AsRange

(* Writing one item is writing a range of one.                             *)
LEMMA SetIs ==
  ASSUME NEW S, NEW s \in Seq(S), NEW i \in 1..Len(s), NEW v \in S
  PROVE  [s EXCEPT ![i] = v] \in Seq(S) /\ AsRange([s EXCEPT ![i] = v], s, i - 1, i, v)
BY DEF AsRange

(* All makes n times the same item.                                        *)
LEMMA AllIs ==
  ASSUME NEW S, NEW n \in Nat, NEW v \in S
  PROVE  /\ Fixed!All(n, v) \in Seq(S) /\ Len(Fixed!All(n, v)) = n
         /\ \A i \in 1..n : Fixed!All(n, v)[i] = v
BY DEF Fixed!All

(* The value in each place, and the row it stands for. *)
Pairs(R, c, w) ==
  /\ w \in Seq(WantRow) /\ Len(c) >= Len(w)
  /\ \A i \in 1..Len(w) : <<c[i], w[i]>> \in R

(* Items and rows that correspond go on corresponding when both are        *)
(* extended.                                                               *)
LEMMA PairsJoin ==
  ASSUME NEW S, NEW R, NEW c \in Seq(S), NEW w, Pairs(R, c, w), Len(c) = Len(w),
         NEW d \in Seq(S), NEW y, Pairs(R, d, y)
  PROVE  Pairs(R, c \o d, w \o y)
<1> DEFINE e == c \o d
           x == w \o y
<1>0. w \in Seq(WantRow) /\ y \in Seq(WantRow)
  BY DEF Pairs
<1>1. e \in Seq(S) /\ AsJoin(e, c, d) /\ x \in Seq(WantRow) /\ AsJoin(x, w, y)
  BY <1>0, JoinIs
<1> HIDE DEF e, x
<1>2. Len(e) >= Len(x)
  BY <1>0, <1>1 DEF AsJoin, Pairs
<1>3. ASSUME NEW i \in 1..Len(x) PROVE <<e[i], x[i]>> \in R
  <2>1. CASE i <= Len(w)
    <3>1. x[i] = w[i] /\ e[i] = c[i] /\ i \in 1..Len(w)
      BY <1>0, <1>1, <1>2, <2>1 DEF AsJoin
    <3> QED BY <3>1 DEF Pairs
  <2>2. CASE i > Len(w)
    <3>1. x[i] = y[i - Len(w)] /\ e[i] = d[i - Len(w)] /\ i - Len(w) \in 1..Len(y)
      BY <1>0, <1>1, <1>2, <2>2 DEF AsJoin
    <3> QED BY <3>1 DEF Pairs
  <2> QED BY <1>0, <2>1, <2>2
<1> QED BY <1>1, <1>2, <1>3 DEF Pairs, e, x

(* One item and one row that correspond.                                   *)
LEMMA PairsOne ==
  ASSUME NEW R, NEW v, NEW r \in WantRow, <<v, r>> \in R
  PROVE  Pairs(R, <<v>>, <<r>>)
BY DEF Pairs

(* The same item and the same row, any number of times.                    *)
LEMMA PairsAll ==
  ASSUME NEW R, NEW n \in Nat, NEW S, NEW v \in S, NEW r \in WantRow, <<v, r>> \in R
  PROVE  Pairs(R, Fixed!All(n, v), Fixed!All(n, r))
<1>1. /\ Fixed!All(n, v) \in Seq(S) /\ Len(Fixed!All(n, v)) = n /\ \A i \in 1..n : Fixed!All(n, v)[i] = v
  BY AllIs
<1>2. /\ Fixed!All(n, r) \in Seq(WantRow) /\ Len(Fixed!All(n, r)) = n /\ \A i \in 1..n : Fixed!All(n, r)[i] = r
  BY AllIs
<1> DEFINE c == Fixed!All(n, v)
           w == Fixed!All(n, r)
<1> HIDE DEF c, w
<1>3. c \in Seq(S) /\ Len(c) = n /\ (\A i \in 1..n : c[i] = v)
      /\ w \in Seq(WantRow) /\ Len(w) = n /\ (\A i \in 1..n : w[i] = r)
  BY <1>1, <1>2 DEF c, w
<1>4. \A i \in 1..Len(w) : <<c[i], w[i]>> \in R
  BY <1>3
<1>5. Pairs(R, c, w)
  BY <1>3, <1>4 DEF Pairs
<1> QED BY <1>5 DEF c, w

(* Items and rows resized alike correspond.                                *)
LEMMA PairsFit ==
  ASSUME NEW S, NEW R, NEW c \in Seq(S), NEW w, Pairs(R, c, w), Len(c) = Len(w),
         NEW n \in Nat, NEW v \in S, NEW r \in WantRow, <<v, r>> \in R
  PROVE  Pairs(R, Fixed!Fit(c, n, v), Fixed!Fit(w, n, r))
<1> DEFINE e == Fixed!Fit(c, n, v)
           x == Fixed!Fit(w, n, r)
<1>0. w \in Seq(WantRow)
  BY DEF Pairs
<1>1. e \in Seq(S) /\ AsFit(e, c, n, v) /\ x \in Seq(WantRow) /\ AsFit(x, w, n, r)
  BY <1>0, FitIs
<1> HIDE DEF e, x
<1>3. ASSUME NEW i \in 1..Len(x) PROVE <<e[i], x[i]>> \in R
  <2>1. CASE i <= Len(w)
    BY <1>0, <1>1, <2>1 DEF AsFit, Pairs
  <2>2. CASE i > Len(w)
    <3>1. i \in 1..n /\ ~(i <= Len(c)) /\ ~(i <= Len(w))
      BY <1>0, <1>1, <2>2 DEF AsFit
    <3>2. e[i] = v
      BY <1>1, <3>1 DEF AsFit
    <3>3. x[i] = r
      BY <1>1, <3>1 DEF AsFit
    <3> QED BY <3>2, <3>3
  <2> QED BY <1>0, <2>1, <2>2
<1>4. Pairs(R, e, x)
  BY <1>1, <1>3 DEF Pairs, AsFit
<1> QED BY <1>4 DEF e, x

(* The same window of the items and of the rows.                           *)
LEMMA PairsWindow ==
  ASSUME NEW S, NEW R, NEW c \in Seq(S), NEW w, Pairs(R, c, w),
         NEW from \in Nat, NEW n \in Nat, from + n <= Len(w)
  PROVE  Pairs(R, Fixed!Window(c, from, n), Fixed!Window(w, from, n))
<1> DEFINE e == Fixed!Window(c, from, n)
           x == Fixed!Window(w, from, n)
<1>0. w \in Seq(WantRow) /\ from + n <= Len(c)
  BY DEF Pairs
<1>1. e \in Seq(S) /\ AsWindow(e, c, from, n) /\ x \in Seq(WantRow) /\ AsWindow(x, w, from, n)
  BY <1>0, WindowIs
<1> HIDE DEF e, x
<1>3. ASSUME NEW i \in 1..Len(x) PROVE <<e[i], x[i]>> \in R
  <2>1. e[i] = c[from + i] /\ x[i] = w[from + i] /\ from + i \in 1..Len(w)
    BY <1>0, <1>1 DEF AsWindow
  <2> QED BY <2>1 DEF Pairs
<1>4. Pairs(R, e, x)
  BY <1>1, <1>3 DEF Pairs, AsWindow
<1> QED BY <1>4 DEF e, x

(* The same range dropped from the items and from the rows.                *)
LEMMA PairsWithout ==
  ASSUME NEW S, NEW R, NEW c \in Seq(S), NEW w, Pairs(R, c, w),
         NEW from \in Nat, NEW to \in Nat, from <= to, to <= Len(w)
  PROVE  Pairs(R, Fixed!Without(c, from, to), Fixed!Without(w, from, to))
<1> DEFINE e == Fixed!Without(c, from, to)
           x == Fixed!Without(w, from, to)
<1>0. w \in Seq(WantRow) /\ to <= Len(c) /\ Len(c) >= Len(w)
  BY DEF Pairs
<1>1. e \in Seq(S) /\ AsWithout(e, c, from, to) /\ x \in Seq(WantRow) /\ AsWithout(x, w, from, to)
  BY <1>0, WithoutIs
<1> HIDE DEF e, x
<1>2. Len(e) >= Len(x)
  BY <1>0, <1>1 DEF AsWithout
<1>3. ASSUME NEW i \in 1..Len(x) PROVE <<e[i], x[i]>> \in R
  <2>1. i \in 1..Len(e) /\ i \in 1..Len(x) /\ Len(x) = Len(w) - (to - from) /\ Len(w) \in Nat
    BY <1>0, <1>1, <1>2 DEF AsWithout
  <2>2. CASE i <= from
    <3>1. e[i] = c[i] /\ x[i] = w[i] /\ i \in 1..Len(w)
      BY <1>1, <2>1, <2>2 DEF AsWithout
    <3> QED BY <3>1 DEF Pairs
  <2>3. CASE i > from
    <3> DEFINE j == i + (to - from)
    <3>1. e[i] = c[j] /\ x[i] = w[j]
      BY <1>1, <2>1, <2>3 DEF AsWithout
    <3>2. j \in 1..Len(w)
      BY <2>1
    <3> HIDE DEF j
    <3> QED BY <3>1, <3>2 DEF Pairs
  <2> QED BY <2>2, <2>3
<1> QED BY <1>1, <1>2, <1>3 DEF Pairs, e, x

(* Items and rows spliced in at the same place.                            *)
LEMMA PairsSpliced ==
  ASSUME NEW S, NEW R, NEW c \in Seq(S), NEW w, Pairs(R, c, w), Len(c) = Len(w),
         NEW at \in Nat, at <= Len(w), NEW d \in Seq(S), NEW y, Pairs(R, d, y), Len(d) = Len(y)
  PROVE  Pairs(R, Fixed!Spliced(c, at, d), Fixed!Spliced(w, at, y))
<1> DEFINE e == Fixed!Spliced(c, at, d)
           x == Fixed!Spliced(w, at, y)
<1>0. w \in Seq(WantRow) /\ y \in Seq(WantRow)
  BY DEF Pairs
<1>1. e \in Seq(S) /\ AsSpliced(e, c, at, d) /\ x \in Seq(WantRow) /\ AsSpliced(x, w, at, y)
  BY <1>0, SplicedIs
<1> HIDE DEF e, x
<1>2. Len(e) = Len(x) /\ Len(x) = Len(w) + Len(y)
  BY <1>0, <1>1 DEF AsSpliced
<1>3. ASSUME NEW i \in 1..Len(x) PROVE <<e[i], x[i]>> \in R
  <2>1. CASE i <= at
    <3>1. x[i] = w[i] /\ e[i] = c[i] /\ i \in 1..Len(w)
      BY <1>0, <1>1, <1>2, <2>1 DEF AsSpliced
    <3> QED BY <3>1 DEF Pairs
  <2>2. CASE i > at /\ i <= at + Len(y)
    <3>0. /\ i \in 1..Len(x) /\ i \in 1..Len(e) /\ ~(i <= at) /\ i <= at + Len(y)
          /\ Len(y) = Len(d) /\ i - at \in 1..Len(y)
      BY <1>0, <1>2, <2>2
    <3>1. x[i] = y[i - at]
      BY <1>1, <3>0 DEF AsSpliced
    <3>2. e[i] = d[i - at]
      BY <1>1, <3>0 DEF AsSpliced
    <3> QED BY <3>0, <3>1, <3>2 DEF Pairs
  <2>3. CASE i > at + Len(y)
    <3>0. i \in 1..Len(x) /\ i \in 1..Len(e) /\ ~(i <= at) /\ ~(i <= at + Len(y)) /\ Len(y) = Len(d)
      BY <1>0, <1>2, <2>3
    <3>1. x[i] = w[i - Len(y)] /\ e[i] = c[i - Len(y)]
      BY <1>1, <3>0 DEF AsSpliced
    <3>2. i - Len(y) \in 1..Len(w)
      BY <1>0, <1>2, <2>3
    <3> QED BY <3>1, <3>2 DEF Pairs
  <2> QED BY <1>0, <2>1, <2>2, <2>3
<1> QED BY <1>1, <1>2, <1>3 DEF Pairs, e, x

(* The same range of the items and of the rows overwritten.                *)
LEMMA PairsRange ==
  ASSUME NEW S, NEW R, NEW c \in Seq(S), NEW w, Pairs(R, c, w), NEW from \in Nat, NEW to \in Nat,
         NEW v, NEW r, <<v, r>> \in R,
         NEW d \in Seq(S), AsRange(d, c, from, to, v), NEW x \in Seq(WantRow), AsRange(x, w, from, to, r)
  PROVE  Pairs(R, d, x)
<1>0. Len(d) >= Len(x) /\ Len(c) >= Len(w) /\ Len(x) = Len(w)
  BY DEF Pairs, AsRange
<1>1. ASSUME NEW i \in 1..Len(x) PROVE <<d[i], x[i]>> \in R
  <2>0. i \in 1..Len(c) /\ i \in 1..Len(w)
    BY <1>0
  <2>1. CASE i > from /\ i <= to
    <3>1. d[i] = v /\ x[i] = r
      BY <2>0, <2>1 DEF AsRange
    <3> QED BY <3>1
  <2>2. CASE ~(i > from /\ i <= to)
    <3>1. d[i] = c[i] /\ x[i] = w[i]
      BY <2>0, <2>2 DEF AsRange
    <3> QED BY <2>0, <3>1 DEF Pairs
  <2> QED BY <2>1, <2>2
<1> QED BY <1>0, <1>1 DEF Pairs

(* Rows that become null leave their values as they are.                   *)
LEMMA PairsNull ==
  ASSUME NEW S, NEW R, NEW c \in Seq(S), NEW w, Pairs(R, c, w), \A v \in S : <<v, <<>>>> \in R,
         NEW x \in Seq(WantRow), Len(x) = Len(w), \A i \in 1..Len(x) : x[i] = w[i] \/ x[i] = <<>>
  PROVE  Pairs(R, c, x)
BY DEF Pairs

(* A correspondence holds in every wider one.                              *)
LEMMA PairsWider ==
  ASSUME NEW R, NEW c, NEW w, Pairs(R, c, w), NEW Q, R \subseteq Q
  PROVE  Pairs(Q, c, w)
BY DEF Pairs

(* Only the items that have a row count.                                   *)
LEMMA PairsPrefix ==
  ASSUME NEW R, NEW c, NEW w, Pairs(R, c, w), NEW d, Len(d) >= Len(w), \A i \in 1..Len(w) : d[i] = c[i]
  PROVE  Pairs(R, d, w)
BY DEF Pairs

-----------------------------------------------------------------------------
(* Masks, and what changes them in an array of any kind                    *)

(* Records *)
Fields(a) == {"kind", "unit", "data", "masked", "mask"} \subseteq DOMAIN a
Rest(b, a) == DOMAIN b = DOMAIN a /\ \A f \in DOMAIN a \ {"masked", "mask"} : b[f] = a[f]
Marks(a, w) == {"masked", "mask"} \subseteq DOMAIN a /\ Nulls(a.masked, a.mask, w)
WholeAt(a, w) == WholeTo(a.masked, a.mask, Len(w))

(* What is known of an array whose mask marks the nulls of w.              *)
LEMMA MarksOf ==
  ASSUME NEW a, NEW w, Marks(a, w)
  PROVE  /\ a.masked \in BOOLEAN /\ a.mask \in Seq(Bits) /\ w \in Seq(WantRow) /\ Len(w) \in Nat
         /\ Nulls(a.masked, a.mask, w)
BY DEF Marks, Nulls

(* Giving an array a mask changes nothing else of it.                      *)
LEMMA MaskedIs ==
  ASSUME NEW a, {"masked", "mask"} \subseteq DOMAIN a, NEW m
  PROVE  /\ Rest(Fixed!Masked(a, m), a) /\ Fixed!Masked(a, m).masked = TRUE /\ Fixed!Masked(a, m).mask = m
         /\ {"masked", "mask"} \subseteq DOMAIN Fixed!Masked(a, m)
<1> DEFINE b == [a EXCEPT !.masked = TRUE, !.mask = m]
<1>1. b.masked = TRUE /\ b.mask = m /\ DOMAIN b = DOMAIN a
  OBVIOUS
<1>2. \A f \in DOMAIN a \ {"masked", "mask"} : b[f] = a[f]
  OBVIOUS
<1> QED BY <1>1, <1>2 DEF Rest, Fixed!Masked

(* A call that edits the mask only if there is one leaves the rest of the  *)
(* array, and marks what the edited mask marks.                            *)
LEMMA OnMaskIs ==
  ASSUME NEW a, NEW w, Marks(a, w), NEW m, NEW x, Nulls(a.masked, IF a.masked THEN m ELSE a.mask, x)
  PROVE  LET b == Fixed!OnMask(a, m) IN Rest(b, a) /\ Marks(b, x) /\ b.masked = a.masked
<1>1. CASE a.masked
  BY <1>1, MaskedIs DEF Marks, Fixed!OnMask
<1>2. CASE ~a.masked
  <2>1. Fixed!OnMask(a, m) = a
    BY <1>2 DEF Fixed!OnMask
  <2> QED BY <1>2, <2>1 DEF Marks, Rest
<1> QED BY <1>1, <1>2 DEF Marks, Nulls

(* set_bits with TRUE over a range of the mask, if there is one: those     *)
(* rows are valid.                                                         *)
LEMMA MarksValid ==
  ASSUME NEW a, NEW w, Marks(a, w), NEW from \in Nat, NEW to \in Nat, from <= to, to <= Len(w),
         a.masked => from <= Len(a.mask),
         NEW r, r # <<>>, NEW x \in Seq(WantRow), AsRange(x, w, from, to, r)
  PROVE  LET b == Fixed!OnMask(a, Fixed!SetBits(a.mask, from, to, TRUE))
         IN  Rest(b, a) /\ Marks(b, x)
<1> DEFINE m == Fixed!SetBits(a.mask, from, to, Yes)
<1>0. Nulls(a.masked, a.mask, w) /\ w \in Seq(WantRow)
  BY MarksOf
<1>1. Len(x) = Len(w) /\ \A i \in 1..Len(x) : x[i] = <<>> <=> ~(i > from /\ i <= to) /\ w[i] = <<>>
  BY <1>0 DEF AsRange
<1>2. Nulls(a.masked, IF a.masked THEN m ELSE a.mask, x)
  BY <1>0, <1>1, NullsValid
<1> HIDE DEF m
<1> QED BY <1>2, OnMaskIs DEF m, Yes

(* The mask's bit of one row set, if there is a mask: that row is valid.   *)
LEMMA MarksValidAt ==
  ASSUME NEW a, NEW w, Marks(a, w), NEW i \in 1..Len(w), a.masked => i - 1 <= Len(a.mask),
         NEW r, r # <<>>, NEW x \in Seq(WantRow), AsRange(x, w, i - 1, i, r)
  PROVE  LET b == Fixed!ValidAt(a, i) IN Rest(b, a) /\ Marks(b, x)
<1>1. Fixed!ValidAt(a, i) = Fixed!OnMask(a, Fixed!SetBits(a.mask, i - 1, i, TRUE))
  BY DEF Fixed!ValidAt, Fixed!SetBit
<1>2. i - 1 \in Nat /\ i \in Nat /\ i - 1 <= i /\ i <= Len(w)
  BY MarksOf
<1> QED BY <1>1, <1>2, MarksValid

(* Clearing a range of bits in the mask, or in a new one: those rows are   *)
(* null.                                                                   *)
LEMMA MarksNull ==
  ASSUME NEW a, NEW w, Marks(a, w), NEW from \in Nat, NEW to \in Nat, from <= to, to <= Len(w),
         a.masked => from <= Len(a.mask), NEW n \in Nat, n >= Len(w),
         NEW x \in Seq(WantRow), AsRange(x, w, from, to, <<>>)
  PROVE  LET b == Fixed!Masked(a, Fixed!SetBits(Fixed!MaskOr(a, n), from, to, FALSE))
         IN  Rest(b, a) /\ Marks(b, x)
<1> DEFINE m == Fixed!SetBits(IF a.masked THEN a.mask ELSE Fixed!All(n, Yes), from, to, No)
<1>0. Nulls(a.masked, a.mask, w) /\ w \in Seq(WantRow)
  BY MarksOf
<1>1. Len(x) = Len(w) /\ \A i \in 1..Len(x) : x[i] = <<>> <=> (i > from /\ i <= to) \/ w[i] = <<>>
  BY <1>0 DEF AsRange
<1>2. Nulls(TRUE, m, x)
  BY <1>0, <1>1, NullsRange
<1>3. m = Fixed!SetBits(Fixed!MaskOr(a, n), from, to, FALSE)
  BY DEF Fixed!MaskOr, Yes, No
<1> HIDE DEF m
<1> QED BY <1>2, <1>3, MaskedIs DEF Marks

(* NullTo clears the bits of the last k rows: those are null.              *)
LEMMA MarksNullTo ==
  ASSUME NEW a, NEW w, Marks(a, w), NEW k \in Nat, k <= Len(w), a.masked => Len(w) - k <= Len(a.mask),
         NEW x \in Seq(WantRow), AsRange(x, w, Len(w) - k, Len(w), <<>>)
  PROVE  LET b == Fixed!NullTo(a, Len(w), k) IN Rest(b, a) /\ Marks(b, x)
<1> DEFINE n == Len(w)
           f == Len(w) - k
           b == Fixed!Masked(a, Fixed!SetBits(Fixed!MaskOr(a, n), f, n, FALSE))
<1>1. n \in Nat /\ f \in Nat /\ f <= n
  BY MarksOf
<1>2. a.masked => f <= Len(a.mask)
  OBVIOUS
<1>3. AsRange(x, w, f, n, <<>>) /\ n >= Len(w) /\ n <= Len(w)
  BY <1>1
<1>4. Fixed!NullTo(a, n, k) = b
  BY DEF Fixed!NullTo
<1> HIDE DEF n, f
<1>5. Rest(b, a) /\ Marks(b, x)
  BY <1>1, <1>2, <1>3, MarksNull
<1> HIDE DEF b
<1> QED BY <1>4, <1>5 DEF n

(* set_null clears the bit of one row, making a mask when there is none.   *)
LEMMA MarksSetNull ==
  ASSUME NEW a, NEW w, Marks(a, w), WholeAt(a, w), NEW i \in 1..Len(w),
         NEW x \in Seq(WantRow), AsRange(x, w, i - 1, i, <<>>)
  PROVE  LET b == Fixed!SetNull(a, Len(w), i) IN Rest(b, a) /\ Marks(b, x)
<1>1. Len(w) \in Nat /\ i - 1 \in Nat /\ i - 1 <= i /\ i \in Nat /\ i <= Len(w) /\ a.mask \in Seq(Bits)
  BY MarksOf
<1>2. a.masked => i - 1 <= Len(a.mask) /\ ~(Len(a.mask) < i)
  BY <1>1 DEF WholeAt, WholeTo
<1>3. Fixed!SetNull(a, Len(w), i) = Fixed!Masked(a, Fixed!SetBits(Fixed!MaskOr(a, Len(w)), i - 1, i, FALSE))
  BY <1>2 DEF Fixed!SetNull, Fixed!SetBit
<1> DEFINE n == Len(w)
           f == i - 1
           b == Fixed!Masked(a, Fixed!SetBits(Fixed!MaskOr(a, n), f, i, FALSE))
<1>4. AsRange(x, w, f, i, <<>>) /\ n >= Len(w) /\ n \in Nat /\ f \in Nat /\ f <= i /\ i <= Len(w) /\ i \in Nat
      /\ (a.masked => f <= Len(a.mask))
  BY <1>1, <1>2
<1>6. Fixed!SetNull(a, n, i) = b
  BY <1>3
<1> HIDE DEF n, f
<1>5. Rest(b, a) /\ Marks(b, x)
  BY <1>4, MarksNull
<1> HIDE DEF b
<1> QED BY <1>5, <1>6 DEF n

(* A range dropped from the mask, if there is one.                         *)
LEMMA MarksWithout ==
  ASSUME NEW a, NEW w, Marks(a, w), WholeAt(a, w), NEW from \in Nat, NEW to \in Nat, from <= to, to <= Len(w)
  PROVE  LET b == Fixed!OnMask(a, Fixed!Without(a.mask, from, to))
         IN  Rest(b, a) /\ Marks(b, Fixed!Without(w, from, to))
<1>1. Nulls(a.masked, IF a.masked THEN Fixed!Without(a.mask, from, to) ELSE a.mask, Fixed!Without(w, from, to))
  BY MarksOf, NullsWithout DEF WholeAt
<1> QED BY <1>1, OnMaskIs

(* The window of the mask, if there is one.                                *)
LEMMA MarksWindow ==
  ASSUME NEW a, NEW w, Marks(a, w), a.masked => Len(a.mask) >= Len(w),
         NEW from \in Nat, NEW n \in Nat, from + n <= Len(w)
  PROVE  LET b == Fixed!OnMask(a, Fixed!Window(a.mask, from, n))
         IN  Rest(b, a) /\ Marks(b, Fixed!Window(w, from, n))
<1>1. Nulls(a.masked, IF a.masked THEN Fixed!Window(a.mask, from, n) ELSE a.mask, Fixed!Window(w, from, n))
  BY MarksOf, NullsWindow
<1> QED BY <1>1, OnMaskIs

(* The mask, if there is one, fitted to the rows.                          *)
LEMMA MarksFit ==
  ASSUME NEW a, NEW w, Marks(a, w)
  PROVE  LET b == Fixed!OnMask(a, Fixed!Fit(a.mask, Len(w), TRUE)) IN Rest(b, a) /\ Marks(b, w)
<1> DEFINE m == Fixed!Fit(a.mask, Len(w), Yes)
<1>0. Nulls(a.masked, a.mask, w) /\ w \in Seq(WantRow)
  BY MarksOf
<1>1. Nulls(a.masked, m, w)
  BY <1>0, NullsFit
<1>2. Nulls(a.masked, IF a.masked THEN m ELSE a.mask, w)
  BY <1>0, <1>1
<1>3. m = Fixed!Fit(a.mask, Len(w), TRUE)
  BY DEF Yes
<1> HIDE DEF m
<1> QED BY <1>2, <1>3, OnMaskIs

(* Rows that are not null may be added with no change of a whole mask.     *)
LEMMA MarksMore ==
  ASSUME NEW a, NEW w, Marks(a, w), WholeAt(a, w), NEW y \in Seq(WantRow), \A i \in 1..Len(y) : y[i] # <<>>
  PROVE  Marks(a, w \o y)
BY NullsMore DEF Marks, WholeAt

(* The mask still marks the first rows when the others are gone.           *)
LEMMA MarksCut ==
  ASSUME NEW a, NEW w, Marks(a, w), NEW n \in Nat, n <= Len(w)
  PROVE  Marks(a, SubSeq(w, 1, n))
BY NullsCut DEF Marks

(* No rows added, nothing changes.                                         *)
LEMMA MarksNone ==
  ASSUME NEW a, NEW w, Marks(a, w), NEW g, NEW q, NEW y, Nulls(g, q, y), Len(y) = 0
  PROVE  Rest(a, a) /\ Marks(a, w \o y)
<1>1. w \o y = w
  BY DEF Marks, Nulls
<1> QED BY <1>1 DEF Rest

(* Setting the bits of the rows added, which are not null, one by one: the *)
(* mask may be longer than the rows before and after.                      *)
LEMMA MarksSet ==
  ASSUME NEW a, NEW w, Marks(a, w), WholeAt(a, w), a.masked, NEW y \in Seq(WantRow), \A i \in 1..Len(y) : y[i] # <<>>
  PROVE  LET b == Fixed!Masked(a, Fixed!SetBits(a.mask, Len(w), Len(w) + Len(y), TRUE)) IN Rest(b, a) /\ Marks(b, w \o y)
<1> DEFINE x == w \o y
           from == Len(w)
           to == Len(w) + Len(y)
           m == Fixed!SetBits(a.mask, from, to, Yes)
<1>0. w \in Seq(WantRow) /\ Nulls(a.masked, a.mask, w) /\ a.mask \in Seq(Bits)
  BY MarksOf
<1>1. Marks(a, x)
  BY MarksMore
<1>2. x \in Seq(WantRow) /\ Len(x) = to /\ \A i \in 1..Len(x) : i > from /\ i <= to => x[i] # <<>>
  BY <1>0
<1>3. from \in Nat /\ to \in Nat /\ from <= to /\ (a.masked => from <= Len(a.mask))
  BY <1>0 DEF WholeAt, WholeTo
<1> HIDE DEF x, from, to
<1>4. Nulls(a.masked, a.mask, x)
  BY <1>1 DEF Marks
<1>5. to <= Len(x) /\ \A i \in 1..Len(x) : x[i] = <<>> <=> (~(i > from /\ i <= to) /\ x[i] = <<>>)
  BY <1>2, <1>3
<1>6. Nulls(a.masked, IF a.masked THEN m ELSE a.mask, x)
  BY <1>2, <1>3, <1>4, <1>5, NullsValid
<1> HIDE DEF m
<1>7. Nulls(TRUE, m, x)
  BY <1>6 DEF Nulls
<1>8. {"masked", "mask"} \subseteq DOMAIN a
  BY DEF Marks
<1> QED BY <1>7, <1>8, MaskedIs DEF Marks, m, x, from, to, Yes

(* Extended adds the mask of the rows appended, where either side may have *)
(* none.                                                                   *)
LEMMA MarksExtended ==
  ASSUME NEW a, NEW w, Marks(a, w), WholeAt(a, w), NEW g, NEW m, NEW q, NEW y, Nulls(g, q, y),
         g => q = m, a.masked /\ g => Len(a.mask) = Len(w)
  PROVE  LET b == Fixed!Extended(a, Len(w), g, m, Len(y)) IN Rest(b, a) /\ Marks(b, w \o y)
<1>4. CASE Len(y) = 0
  BY <1>4, MarksNone DEF Fixed!Extended
<1> SUFFICES ASSUME Len(y) # 0
             PROVE  LET b == Fixed!Extended(a, Len(w), g, m, Len(y)) IN Rest(b, a) /\ Marks(b, w \o y)
  BY <1>4
<1> DEFINE t == IF a.masked THEN IF g THEN a.mask \o q ELSE Fixed!Fit(a.mask, Len(w) + Len(y), Yes)
                ELSE IF g THEN Fixed!All(Len(w), Yes) \o q ELSE a.mask
           b == Fixed!Extended(a, Len(w), g, m, Len(y))
<1>0. Nulls(a.masked, a.mask, w) /\ a.masked \in BOOLEAN /\ g \in BOOLEAN /\ {"masked", "mask"} \subseteq DOMAIN a
  BY MarksOf DEF Nulls, Marks
<1>1. Nulls(a.masked \/ g, t, w \o y)
  BY <1>0, NullsJoin DEF WholeAt
<1>2. CASE a.masked \/ g
  <2>1. b = Fixed!Masked(a, t)
    BY <1>0, <1>2 DEF Fixed!Extended, Yes
  <2>2. Nulls(TRUE, t, w \o y)
    BY <1>1, <1>2
  <2> HIDE DEF t, b
  <2>3. Rest(b, a) /\ b.masked = TRUE /\ b.mask = t /\ {"masked", "mask"} \subseteq DOMAIN b
    BY <1>0, <2>1, MaskedIs
  <2> QED BY <2>2, <2>3 DEF Marks, b
<1>3. CASE ~a.masked /\ ~g
  <2>1. b = a
    BY <1>3 DEF Fixed!Extended
  <2>2. t = a.mask
    BY <1>3
  <2> HIDE DEF t, b
  <2>3. Marks(b, w \o y)
    BY <1>0, <1>1, <1>3, <2>1, <2>2 DEF Marks
  <2> QED BY <2>1, <2>3 DEF b, Rest
<1> QED BY <1>0, <1>2, <1>3

(* Inserted splices the mask of the rows inserted, where either side may   *)
(* have none.                                                              *)
LEMMA MarksInserted ==
  ASSUME NEW a, NEW w, Marks(a, w), a.masked => Len(a.mask) >= Len(w), NEW g, NEW q, NEW y, Nulls(g, q, y),
         g => Len(q) >= Len(y), NEW at \in Nat, at <= Len(w)
  PROVE  LET b == Fixed!Inserted(a, Len(w), at, g, q, Len(y)) IN Rest(b, a) /\ Marks(b, Fixed!Spliced(w, at, y))
<1>4. CASE Len(y) = 0
  <2>1. Fixed!Spliced(w, at, y) = w
    BY <1>4, MarksOf, SplicedNone DEF Nulls
  <2> QED BY <1>4, <2>1 DEF Fixed!Inserted, Rest
<1> SUFFICES ASSUME Len(y) # 0
             PROVE  LET b == Fixed!Inserted(a, Len(w), at, g, q, Len(y)) IN Rest(b, a) /\ Marks(b, Fixed!Spliced(w, at, y))
  BY <1>4
<1> DEFINE t == Fixed!Spliced(SubSeq(IF a.masked THEN a.mask ELSE Fixed!All(Len(w), Yes), 1, Len(w)), at,
                              IF g THEN SubSeq(q, 1, Len(y)) ELSE Fixed!All(Len(y), Yes))
           b == Fixed!Inserted(a, Len(w), at, g, q, Len(y))
           x == Fixed!Spliced(w, at, y)
<1>0. Nulls(a.masked, a.mask, w) /\ a.masked \in BOOLEAN /\ g \in BOOLEAN /\ {"masked", "mask"} \subseteq DOMAIN a
      /\ w \in Seq(WantRow) /\ y \in Seq(WantRow)
  BY MarksOf DEF Nulls, Marks
<1>2. CASE a.masked \/ g
  <2>1. b = Fixed!Masked(a, t)
    BY <1>0, <1>2 DEF Fixed!Inserted, Fixed!MaskOr, Yes
  <2>2. Nulls(TRUE, t, x)
    BY <1>0, <1>2, NullsSpliced
  <2> HIDE DEF t, b, x
  <2>3. Rest(b, a) /\ b.masked = TRUE /\ b.mask = t /\ {"masked", "mask"} \subseteq DOMAIN b
    BY <1>0, <2>1, MaskedIs
  <2> QED BY <2>2, <2>3 DEF Marks, b, x
<1>3. CASE ~a.masked /\ ~g
  <2>1. b = a
    BY <1>3 DEF Fixed!Inserted
  <2>2. x \in Seq(WantRow) /\ AsSpliced(x, w, at, y)
    BY <1>0, SplicedIs
  <2>6. \A i \in 1..Len(w) : w[i] # <<>>
    BY <1>0, <1>3 DEF Nulls
  <2>7. \A i \in 1..Len(y) : y[i] # <<>>
    BY <1>3 DEF Nulls
  <2>3. (\A i \in 1..Len(w) : w[i] # <<>>) /\ (\A i \in 1..Len(y) : y[i] # <<>>)
    BY <2>6, <2>7
  <2> HIDE DEF b, x
  <2>4. ASSUME NEW i \in 1..Len(x) PROVE x[i] # <<>>
    <3>0. Len(x) = Len(w) + Len(y)
      BY <2>2 DEF AsSpliced
    <3>1. CASE i <= at
      BY <1>0, <2>2, <2>3, <3>0, <3>1 DEF AsSpliced
    <3>2. CASE i > at /\ i <= at + Len(y)
      <4>1. x[i] = y[i - at] /\ i - at \in 1..Len(y)
        BY <1>0, <2>2, <3>2 DEF AsSpliced
      <4> QED BY <2>3, <4>1
    <3>3. CASE i > at + Len(y)
      <4>0. ~(i <= at) /\ ~(i <= at + Len(y))
        BY <1>0, <3>3
      <4>1. x[i] = w[i - Len(y)]
        BY <2>2, <4>0 DEF AsSpliced
      <4>2. i - Len(y) \in 1..Len(w)
        BY <1>0, <3>0, <3>3
      <4> QED BY <2>3, <4>1, <4>2
    <3> QED BY <1>0, <3>1, <3>2, <3>3
  <2>5. Nulls(a.masked, a.mask, x)
    BY <1>0, <1>3, <2>2, <2>4 DEF Nulls
  <2> QED BY <1>0, <2>1, <2>5 DEF b, x, Rest, Marks
<1> QED BY <1>0, <1>2, <1>3

(* An array without a mask marks rows none of which is null.               *)
LEMMA UnmaskedIs ==
  ASSUME NEW a, {"masked", "mask"} \subseteq DOMAIN a, NEW x \in Seq(WantRow), \A i \in 1..Len(x) : x[i] # <<>>
  PROVE  LET b == Fixed!Unmasked(a) IN Rest(b, a) /\ Marks(b, x)
<1> DEFINE b == [a EXCEPT !.masked = FALSE, !.mask = <<>>]
<1>1. b.masked = FALSE /\ b.mask = <<>> /\ DOMAIN b = DOMAIN a
  OBVIOUS
<1>2. \A f \in DOMAIN a \ {"masked", "mask"} : b[f] = a[f]
  OBVIOUS
<1> HIDE DEF b
<1>3. Nulls(FALSE, <<>>, x)
  BY DEF Nulls
<1>4. Marks(b, x)
  BY <1>1, <1>3 DEF Marks
<1> QED BY <1>1, <1>2, <1>4 DEF Rest, Fixed!Unmasked, b

(* What holds of every array apart from its data; an array changed in its  *)
(* data only; one of the same fields, kind and unit; one whose data is b's *)
(* and whose mask marks the nulls of x.                                    *)
Frame(a, w) == Fields(a) /\ a.unit \in Nat /\ Marks(a, w)
Moved(b, a) ==
  /\ DOMAIN b = DOMAIN a /\ b.kind = a.kind /\ b.unit = a.unit
  /\ b.masked = a.masked /\ b.mask = a.mask
Like(b, a) == DOMAIN b = DOMAIN a /\ b.kind = a.kind /\ b.unit = a.unit
Turned(c, b, a, x) == Like(c, a) /\ Rest(c, b) /\ Frame(c, x)

(* Changing the data and then the mask turns one array into another of the *)
(* same kind.                                                              *)
LEMMA TurnedIs ==
  ASSUME NEW a, NEW w, Frame(a, w), NEW b, Moved(b, a), NEW c, NEW x, Rest(c, b), Marks(c, x)
  PROVE  Turned(c, b, a, x)
BY DEF Turned, Frame, Moved, Rest, Like, Fields

(* A change of the data leaves the mask, what it marks, and whether it is  *)
(* whole.                                                                  *)
LEMMA MovedMarks ==
  ASSUME NEW a, NEW w, Frame(a, w), NEW b, Moved(b, a)
  PROVE  /\ Marks(b, w) /\ Frame(b, w) /\ (WholeAt(a, w) => WholeAt(b, w)) /\ b.mask = a.mask /\ b.masked = a.masked
         /\ w \in Seq(WantRow) /\ Len(w) \in Nat /\ a.mask \in Seq(Bits)
BY MarksOf DEF Frame, Moved, Marks, Fields, WholeAt

(* A whole mask covers the rows.                                           *)
LEMMA WholeFrame ==
  ASSUME NEW a, NEW w, Frame(a, w), WholeAt(a, w)
  PROVE  a.masked => Len(a.mask) >= Len(w)
BY DEF WholeAt, WholeTo

(* A sequence of rows with one more.                                       *)
LEMMA OneMore ==
  ASSUME NEW w \in Seq(WantRow), NEW r \in WantRow
  PROVE  /\ w \o <<r>> \in Seq(WantRow) /\ Len(w \o <<r>>) = Len(w) + 1 /\ <<r>> \in Seq(WantRow) /\ Len(<<r>>) = 1
         /\ (w \o <<r>>)[Len(w) + 1] = r /\ <<r>>[1] = r
         /\ \A i \in 1..Len(w) : (w \o <<r>>)[i] = w[i]
OBVIOUS

(* A value appended: its row is valid.                                     *)
LEMMA TurnPush ==
  ASSUME NEW a, NEW w, Frame(a, w), WholeAt(a, w), NEW b, Moved(b, a), NEW r \in WantRow, r # <<>>
  PROVE  Turned(Fixed!ValidAt(b, Len(w) + 1), b, a, w \o <<r>>)
<1> DEFINE x == w \o <<r>>
           n == Len(w) + 1
           c == Fixed!ValidAt(b, n)
<1>0. Marks(b, w) /\ WholeAt(b, w) /\ w \in Seq(WantRow) /\ Len(w) \in Nat
  BY MovedMarks
<1>1. <<r>> \in Seq(WantRow) /\ (\A i \in 1..Len(<<r>>) : <<r>>[i] # <<>>)
      /\ x \in Seq(WantRow) /\ Len(x) = n /\ x[n] = r /\ n \in Nat
  BY <1>0, OneMore
<1>2. Marks(b, x)
  BY <1>0, <1>1, MarksMore
<1>3. AsRange(x, x, n - 1, n, r)
  BY <1>1 DEF AsRange
<1>4. b.masked => n - 1 <= Len(b.mask)
  BY <1>0 DEF WholeAt, WholeTo
<1>5. n \in 1..Len(x)
  BY <1>0, <1>1
<1> HIDE DEF x, n
<1>6. Rest(c, b) /\ Marks(c, x)
  BY <1>1, <1>2, <1>3, <1>4, <1>5, MarksValidAt
<1> HIDE DEF c
<1>7. Turned(c, b, a, x)
  BY <1>6, TurnedIs
<1> QED BY <1>7 DEF c, x, n

(* A value set: its row is valid, whatever it was.                         *)
LEMMA TurnSet ==
  ASSUME NEW a, NEW w, Frame(a, w), WholeAt(a, w), NEW b, Moved(b, a), NEW r \in WantRow, r # <<>>, NEW i \in 1..Len(w)
  PROVE  Turned(Fixed!ValidAt(b, i), b, a, [w EXCEPT ![i] = r])
<1> DEFINE x == [w EXCEPT ![i] = r]
           c == Fixed!ValidAt(b, i)
<1>0. Marks(b, w) /\ WholeAt(b, w) /\ w \in Seq(WantRow) /\ Len(w) \in Nat
  BY MovedMarks
<1>1. x \in Seq(WantRow) /\ AsRange(x, w, i - 1, i, r)
  BY <1>0, SetIs
<1>4. b.masked => i - 1 <= Len(b.mask)
  BY <1>0 DEF WholeAt, WholeTo
<1> HIDE DEF x
<1>6. Rest(c, b) /\ Marks(c, x)
  BY <1>0, <1>1, <1>4, MarksValidAt
<1> HIDE DEF c
<1>7. Turned(c, b, a, x)
  BY <1>6, TurnedIs
<1> QED BY <1>7 DEF c, x

(* A range set: its rows are valid, whatever they were.                    *)
LEMMA TurnRange ==
  ASSUME NEW a, NEW w, Frame(a, w), WholeAt(a, w), NEW b, Moved(b, a), NEW r \in WantRow, r # <<>>,
         NEW from \in Nat, NEW to \in Nat, from <= to, to <= Len(w),
         NEW x \in Seq(WantRow), AsRange(x, w, from, to, r)
  PROVE  Turned(Fixed!OnMask(b, Fixed!SetBits(a.mask, from, to, TRUE)), b, a, x)
<1> DEFINE c == Fixed!OnMask(b, Fixed!SetBits(b.mask, from, to, TRUE))
<1>0. Marks(b, w) /\ WholeAt(b, w) /\ w \in Seq(WantRow) /\ Len(w) \in Nat /\ a.mask = b.mask
  BY MovedMarks
<1>4. b.masked => from <= Len(b.mask)
  BY <1>0, MovedMarks DEF WholeAt, WholeTo
<1>6. Rest(c, b) /\ Marks(c, x)
  BY <1>0, <1>4, MarksValid
<1> HIDE DEF c
<1>7. Turned(c, b, a, x)
  BY <1>6, TurnedIs
<1> QED BY <1>0, <1>7 DEF c

(* Nulls appended: the last rows are null, and no other.                   *)
LEMMA TurnNulls ==
  ASSUME NEW a, NEW w, Frame(a, w), WholeAt(a, w), NEW b, Moved(b, a), NEW k \in Nat
  PROVE  Turned(Fixed!NullTo(b, Len(w) + k, k), b, a, w \o Fixed!All(k, <<>>))
<1> DEFINE r == << <<0, 0>> >>
           y == Fixed!All(k, r)
           z == w \o y
           e == Fixed!All(k, <<>>)
           x == w \o e
           c == Fixed!NullTo(b, Len(z), k)
<1>0. Marks(b, w) /\ WholeAt(b, w) /\ w \in Seq(WantRow) /\ Len(w) \in Nat
  BY MovedMarks
<1>1. r \in WantRow /\ r # <<>> /\ <<>> \in WantRow
  BY DEF WantRow, Cell
<1> HIDE DEF r
<1>2. y \in Seq(WantRow) /\ Len(y) = k /\ \A i \in 1..k : y[i] = r
  BY <1>1, AllIs
<1>3. e \in Seq(WantRow) /\ Len(e) = k /\ \A i \in 1..k : e[i] = <<>>
  BY <1>1, AllIs
<1> HIDE DEF y, e
<1>4. z \in Seq(WantRow) /\ AsJoin(z, w, y) /\ x \in Seq(WantRow) /\ AsJoin(x, w, e)
  BY <1>0, <1>2, <1>3, JoinIs
<1>5. Marks(b, z)
  BY <1>0, <1>1, <1>2, MarksMore
<1> HIDE DEF z, x
<1>6. Len(z) = Len(w) + k /\ Len(x) = Len(z) /\ Len(z) - k = Len(w)
  BY <1>0, <1>2, <1>3, <1>4 DEF AsJoin
<1>7. AsRange(x, z, Len(z) - k, Len(z), <<>>)
  <2>1. ASSUME NEW i \in 1..Len(z) PROVE x[i] = IF i > Len(w) /\ i <= Len(z) THEN <<>> ELSE z[i]
    <3>1. CASE i > Len(w)
      <4>1. x[i] = e[i - Len(w)] /\ i - Len(w) \in 1..k
        BY <1>0, <1>4, <1>6, <3>1 DEF AsJoin
      <4> QED BY <1>3, <3>1, <4>1
    <3>2. CASE ~(i > Len(w))
      BY <1>0, <1>4, <1>6, <3>2 DEF AsJoin
    <3> QED BY <3>1, <3>2
  <2> QED BY <1>6, <2>1 DEF AsRange
<1>8. k <= Len(z) /\ (b.masked => Len(z) - k <= Len(b.mask))
  BY <1>0, <1>6 DEF WholeAt, WholeTo
<1>9. Rest(c, b) /\ Marks(c, x)
  BY <1>4, <1>5, <1>7, <1>8, MarksNullTo
<1> HIDE DEF c
<1>10. Turned(c, b, a, x)
  BY <1>9, TurnedIs
<1> QED BY <1>6, <1>10 DEF c, x, e

(* A value that was just appended becomes null.                            *)
LEMMA TurnNullLast ==
  ASSUME NEW a, NEW w, NEW r \in WantRow, w \in Seq(WantRow), Frame(a, w \o <<r>>), a.masked => Len(a.mask) >= Len(w)
  PROVE  Turned(Fixed!NullTo(a, Len(w) + 1, 1), a, a, Append(w, <<>>))
<1> DEFINE z == w \o <<r>>
           x == Append(w, <<>>)
           c == Fixed!NullTo(a, Len(z), 1)
<1>1. z \in Seq(WantRow) /\ Len(z) = Len(w) + 1 /\ \A i \in 1..Len(w) : z[i] = w[i]
  BY OneMore
<1>2. <<>> \in WantRow
  BY DEF WantRow
<1>3. x \in Seq(WantRow) /\ Len(x) = Len(w) + 1 /\ x[Len(w) + 1] = <<>> /\ \A i \in 1..Len(w) : x[i] = w[i]
  BY <1>2
<1> HIDE DEF z, x
<1>4. AsRange(x, z, Len(z) - 1, Len(z), <<>>)
  BY <1>1, <1>3 DEF AsRange
<1>5. 1 \in Nat /\ 1 <= Len(z) /\ (a.masked => Len(z) - 1 <= Len(a.mask)) /\ Marks(a, z)
  BY <1>1 DEF Frame, z
<1>9. Rest(c, a) /\ Marks(c, x)
  BY <1>3, <1>4, <1>5, MarksNullTo
<1> HIDE DEF c
<1>10. Turned(c, a, a, x)
  <2>1. Moved(a, a)
    BY DEF Moved
  <2>2. Frame(a, z)
    BY DEF z
  <2> QED BY <1>9, <2>1, <2>2, TurnedIs
<1> QED BY <1>1, <1>10 DEF c, x

(* A range deleted, from the mask too.                                     *)
LEMMA TurnDelete ==
  ASSUME NEW a, NEW w, Frame(a, w), WholeAt(a, w), NEW b, Moved(b, a),
         NEW from \in Nat, NEW to \in Nat, from <= to, to <= Len(w)
  PROVE  Turned(Fixed!OnMask(b, Fixed!Without(a.mask, from, to)), b, a, Fixed!Without(w, from, to))
<1> DEFINE c == Fixed!OnMask(b, Fixed!Without(b.mask, from, to))
           x == Fixed!Without(w, from, to)
<1>0. Marks(b, w) /\ WholeAt(b, w) /\ a.mask = b.mask
  BY MovedMarks
<1>1. Rest(c, b) /\ Marks(c, x)
  BY <1>0, MarksWithout
<1> HIDE DEF c, x
<1>2. Turned(c, b, a, x)
  BY <1>1, TurnedIs
<1> QED BY <1>0, <1>2 DEF c, x

(* A window cloned, with the window of the mask.                           *)
LEMMA TurnWindow ==
  ASSUME NEW a, NEW w, Frame(a, w), a.masked => Len(a.mask) >= Len(w), NEW b, Moved(b, a),
         NEW from \in Nat, NEW n \in Nat, from + n <= Len(w)
  PROVE  Turned(Fixed!OnMask(b, Fixed!Window(a.mask, from, n)), b, a, Fixed!Window(w, from, n))
<1> DEFINE c == Fixed!OnMask(b, Fixed!Window(b.mask, from, n))
           x == Fixed!Window(w, from, n)
<1>0. Marks(b, w) /\ a.mask = b.mask /\ a.masked = b.masked
  BY MovedMarks
<1>1. Rest(c, b) /\ Marks(c, x)
  BY <1>0, MarksWindow
<1> HIDE DEF c, x
<1>2. Turned(c, b, a, x)
  BY <1>1, TurnedIs
<1> QED BY <1>0, <1>2 DEF c, x

(* Values appended: a whole mask need not change, and may be fitted.       *)
LEMMA TurnMore ==
  ASSUME NEW a, NEW w, Frame(a, w), WholeAt(a, w), NEW b, Moved(b, a), NEW y \in Seq(WantRow),
         \A i \in 1..Len(y) : y[i] # <<>>
  PROVE  /\ Turned(b, b, a, w \o y)
         /\ Turned(Fixed!OnMask(b, Fixed!Fit(a.mask, Len(w) + Len(y), TRUE)), b, a, w \o y)
<1> DEFINE x == w \o y
           c == Fixed!OnMask(b, Fixed!Fit(b.mask, Len(x), TRUE))
<1>0. Marks(b, w) /\ WholeAt(b, w) /\ a.mask = b.mask /\ w \in Seq(WantRow)
  BY MovedMarks
<1>1. Marks(b, x)
  BY <1>0, MarksMore
<1>2. Len(x) = Len(w) + Len(y)
  BY <1>0
<1>3. Rest(b, b)
  BY DEF Rest
<1> HIDE DEF x
<1>4. Rest(c, b) /\ Marks(c, x)
  BY <1>1, MarksFit
<1> HIDE DEF c
<1>5. Turned(c, b, a, x) /\ Turned(b, b, a, x)
  BY <1>1, <1>3, <1>4, TurnedIs
<1> QED BY <1>0, <1>2, <1>5 DEF c, x

(* The first rows kept, under the same mask.                               *)
LEMMA TurnCut ==
  ASSUME NEW a, NEW w, Frame(a, w), NEW b, Moved(b, a), NEW n \in Nat, n <= Len(w)
  PROVE  Turned(b, b, a, SubSeq(w, 1, n))
<1>0. Marks(b, w)
  BY MovedMarks
<1>1. Marks(b, SubSeq(w, 1, n))
  BY <1>0, MarksCut
<1>3. Rest(b, b)
  BY DEF Rest
<1> QED BY <1>1, <1>3, TurnedIs

(* A resize that leaves the mask as it is: it still marks the nulls of the *)
(* rows that stay, as its bits past them are set.                          *)
LEMMA TurnFit ==
  ASSUME NEW a, NEW w, Frame(a, w), WholeAt(a, w), NEW b, Moved(b, a), NEW n \in Nat, NEW r \in WantRow, r # <<>>
  PROVE  Turned(b, b, a, Fixed!Fit(w, n, r))
<1>0. w \in Seq(WantRow) /\ Len(w) \in Nat
  BY MovedMarks
<1>1. CASE n <= Len(w)
  BY <1>1, TurnCut DEF Fixed!Fit
<1>2. CASE ~(n <= Len(w))
  <2> DEFINE k == n - Len(w)
             y == Fixed!All(k, r)
  <2>1. k \in Nat
    BY <1>0, <1>2
  <2>2. Fixed!Fit(w, n, r) = w \o y
    BY <1>2 DEF Fixed!Fit
  <2> HIDE DEF k
  <2>3. y \in Seq(WantRow) /\ Len(y) = k /\ \A i \in 1..k : y[i] = r
    BY <2>1, AllIs
  <2> HIDE DEF y
  <2> QED BY <2>2, <2>3, TurnMore
<1> QED BY <1>1, <1>2

(* Rows of another array appended with their mask.                         *)
LEMMA TurnExtended ==
  ASSUME NEW a, NEW w, Frame(a, w), WholeAt(a, w), NEW b, Moved(b, a), NEW g, NEW m, NEW q, NEW y, Nulls(g, q, y),
         g => q = m, a.masked /\ g => Len(a.mask) = Len(w)
  PROVE  Turned(Fixed!Extended(b, Len(w), g, m, Len(y)), b, a, w \o y)
<1> DEFINE c == Fixed!Extended(b, Len(w), g, m, Len(y))
           x == w \o y
<1>0. Marks(b, w) /\ WholeAt(b, w) /\ a.mask = b.mask /\ a.masked = b.masked
  BY MovedMarks
<1>1. Rest(c, b) /\ Marks(c, x)
  BY <1>0, MarksExtended
<1> HIDE DEF c, x
<1>2. Turned(c, b, a, x)
  BY <1>1, TurnedIs
<1> QED BY <1>0, <1>2 DEF c, x

(* Rows that are not null appended, their bits set one by one.             *)
LEMMA TurnJoined ==
  ASSUME NEW a, NEW w, Frame(a, w), WholeAt(a, w), a.masked, NEW b, Moved(b, a),
         NEW y \in Seq(WantRow), \A i \in 1..Len(y) : y[i] # <<>>
  PROVE  Turned(Fixed!Masked(b, Fixed!SetBits(a.mask, Len(w), Len(w) + Len(y), TRUE)), b, a, w \o y)
<1> DEFINE c == Fixed!Masked(b, Fixed!SetBits(b.mask, Len(w), Len(w) + Len(y), TRUE))
           x == w \o y
<1>0. Marks(b, w) /\ WholeAt(b, w) /\ a.mask = b.mask /\ b.masked
  BY MovedMarks
<1>1. Rest(c, b) /\ Marks(c, x)
  BY <1>0, MarksSet
<1> HIDE DEF c, x
<1>2. Turned(c, b, a, x)
  BY <1>1, TurnedIs
<1> QED BY <1>0, <1>2 DEF c, x

(* Rows of another array inserted with their mask.                         *)
LEMMA TurnInserted ==
  ASSUME NEW a, NEW w, Frame(a, w), WholeAt(a, w), NEW b, Moved(b, a), NEW g, NEW q, NEW y, Nulls(g, q, y),
         g => Len(q) >= Len(y), NEW at \in Nat, at <= Len(w)
  PROVE  Turned(Fixed!Inserted(b, Len(w), at, g, q, Len(y)), b, a, Fixed!Spliced(w, at, y))
<1> DEFINE c == Fixed!Inserted(b, Len(w), at, g, q, Len(y))
           x == Fixed!Spliced(w, at, y)
<1>0. Marks(b, w) /\ (b.masked => Len(b.mask) >= Len(w))
  BY MovedMarks, WholeFrame
<1>1. Rest(c, b) /\ Marks(c, x)
  BY <1>0, MarksInserted
<1> HIDE DEF c, x
<1>2. Turned(c, b, a, x)
  BY <1>1, TurnedIs
<1> QED BY <1>0, <1>2 DEF c, x

(* A result without a mask, of rows that are not null.                     *)
LEMMA TurnUnmasked ==
  ASSUME NEW a, NEW w, Frame(a, w), NEW b, Moved(b, a), NEW x \in Seq(WantRow), \A i \in 1..Len(x) : x[i] # <<>>
  PROVE  Turned(Fixed!Unmasked(b), b, a, x)
<1> DEFINE c == Fixed!Unmasked(b)
<1>0. {"masked", "mask"} \subseteq DOMAIN b
  BY MovedMarks DEF Marks
<1>1. Rest(c, b) /\ Marks(c, x)
  BY <1>0, UnmaskedIs
<1> HIDE DEF c
<1>2. Turned(c, b, a, x)
  BY <1>1, TurnedIs
<1> QED BY <1>2 DEF c

(* An array of which only the values moved, given a mask that marks the    *)
(* rows x (what a scatter does), has turned into one with those rows.      *)
LEMMA TurnMasked ==
  ASSUME NEW a, NEW w, Frame(a, w), NEW b, Moved(b, a), NEW m, NEW x, Nulls(TRUE, m, x)
  PROVE  Turned(Fixed!Masked(b, m), b, a, x)
<1> DEFINE c == Fixed!Masked(b, m)
<1>0. {"masked", "mask"} \subseteq DOMAIN b
  BY MovedMarks DEF Marks
<1>1. Rest(c, b) /\ Marks(c, x)
  BY <1>0, MaskedIs DEF Marks
<1> HIDE DEF c
<1>2. Turned(c, b, a, x)
  BY <1>1, TurnedIs
<1> QED BY <1>2 DEF c

(* set_null.                                                               *)
LEMMA TurnSetNull ==
  ASSUME NEW a, NEW w, Frame(a, w), WholeAt(a, w), NEW i \in 1..Len(w)
  PROVE  Turned(Fixed!SetNull(a, Len(w), i), a, a, [w EXCEPT ![i] = <<>>])
<1> DEFINE x == [w EXCEPT ![i] = <<>>]
           c == Fixed!SetNull(a, Len(w), i)
<1>0. Moved(a, a)
  BY DEF Moved
<1>1. Marks(a, w) /\ w \in Seq(WantRow)
  BY <1>0, MovedMarks
<1>2. <<>> \in WantRow
  BY DEF WantRow
<1>3. x \in Seq(WantRow) /\ AsRange(x, w, i - 1, i, <<>>)
  BY <1>1, <1>2, SetIs
<1> HIDE DEF x
<1>4. Rest(c, a) /\ Marks(c, x)
  BY <1>1, <1>3, MarksSetNull
<1> HIDE DEF c
<1>5. Turned(c, a, a, x)
  BY <1>0, <1>4, TurnedIs
<1> QED BY <1>5 DEF c, x

(* A range of rows made null.                                              *)
LEMMA TurnRangeNull ==
  ASSUME NEW a, NEW w, Frame(a, w), WholeAt(a, w), NEW from \in Nat, NEW to \in Nat, from <= to, to <= Len(w),
         NEW x \in Seq(WantRow), AsRange(x, w, from, to, <<>>)
  PROVE  Turned(Fixed!Masked(a, Fixed!SetBits(Fixed!MaskOr(a, Len(w)), from, to, FALSE)), a, a, x)
<1> DEFINE n == Len(w)
           c == Fixed!Masked(a, Fixed!SetBits(Fixed!MaskOr(a, n), from, to, FALSE))
<1>0. Moved(a, a)
  BY DEF Moved
<1>1. Marks(a, w) /\ n \in Nat /\ n >= Len(w)
  BY <1>0, MovedMarks
<1>2. a.masked => from <= Len(a.mask)
  BY <1>0, MovedMarks DEF WholeAt, WholeTo
<1> HIDE DEF n
<1>4. Rest(c, a) /\ Marks(c, x)
  BY <1>1, <1>2, MarksNull
<1> HIDE DEF c
<1>5. Turned(c, a, a, x)
  BY <1>0, <1>4, TurnedIs
<1> QED BY <1>5 DEF c, n

(* set_null_mask with a mask of the column's length.                       *)
LEMMA TurnRepair ==
  ASSUME NEW a, NEW w, Frame(a, w), a.masked
  PROVE  Turned(Fixed!Masked(a, Fixed!Fit(a.mask, Len(w), TRUE)), a, a, w)
<1> DEFINE m == Fixed!Fit(a.mask, Len(w), Yes)
<1>0. Moved(a, a)
  BY DEF Moved
<1>1. Nulls(TRUE, a.mask, w)
  BY DEF Frame, Marks
<1>2. Nulls(TRUE, m, w)
  BY <1>1, NullsFit
<1>3. m = Fixed!Fit(a.mask, Len(w), TRUE)
  BY DEF Yes
<1> HIDE DEF m
<1> QED BY <1>0, <1>2, <1>3, TurnMasked

(* The boolean array's helpers for masks are those of the fixed-width      *)
(* arrays: both instance the same module.                                  *)
LEMMA BoolSame ==
  /\ \A n, v : Bool!All(n, v) = Fixed!All(n, v)
  /\ \A s, f, t : Bool!Without(s, f, t) = Fixed!Without(s, f, t)
  /\ \A s, f, n : Bool!Window(s, f, n) = Fixed!Window(s, f, n)
  /\ \A s, i, t : Bool!Spliced(s, i, t) = Fixed!Spliced(s, i, t)
  /\ \A s, n, v : Bool!Fit(s, n, v) = Fixed!Fit(s, n, v)
  /\ \A m, f, t, v : Bool!SetBits(m, f, t, v) = Fixed!SetBits(m, f, t, v)
  /\ \A m, i, v : Bool!SetBit(m, i, v) = Fixed!SetBit(m, i, v)
  /\ \A a, i : Bool!IsNull(a, i) = Fixed!IsNull(a, i)
  /\ \A a : Bool!Unmasked(a) = Fixed!Unmasked(a)
  /\ \A a, m : Bool!Masked(a, m) = Fixed!Masked(a, m)
  /\ \A a, m : Bool!OnMask(a, m) = Fixed!OnMask(a, m)
  /\ \A a, n : Bool!MaskOr(a, n) = Fixed!MaskOr(a, n)
  /\ \A a, i : Bool!ValidAt(a, i) = Fixed!ValidAt(a, i)
  /\ \A a, n, k : Bool!NullTo(a, n, k) = Fixed!NullTo(a, n, k)
  /\ \A a, n, g, m, k : Bool!Extended(a, n, g, m, k) = Fixed!Extended(a, n, g, m, k)
  /\ \A a, n, i, g, m, k : Bool!Inserted(a, n, i, g, m, k) = Fixed!Inserted(a, n, i, g, m, k)
  /\ \A a, o, k : Bool!RowBits(a, o, k) = Fixed!RowBits(a, o, k)
<1>1. \A n, v : Bool!All(n, v) = Fixed!All(n, v)
  BY DEF Bool!All, Fixed!All
<1>2. \A s, f, t : Bool!Without(s, f, t) = Fixed!Without(s, f, t)
  BY DEF Bool!Without, Fixed!Without
<1>3. \A s, f, n : Bool!Window(s, f, n) = Fixed!Window(s, f, n)
  BY DEF Bool!Window, Fixed!Window
<1>4. \A s, i, t : Bool!Spliced(s, i, t) = Fixed!Spliced(s, i, t)
  BY DEF Bool!Spliced, Fixed!Spliced
<1>5. \A s, n, v : Bool!Fit(s, n, v) = Fixed!Fit(s, n, v)
  BY DEF Bool!Fit, Fixed!Fit, Bool!All, Fixed!All
<1>6. \A m, f, t, v : Bool!SetBits(m, f, t, v) = Fixed!SetBits(m, f, t, v)
  BY DEF Bool!SetBits, Fixed!SetBits, Bool!Fit, Fixed!Fit, Bool!All, Fixed!All
<1>7. \A m, i, v : Bool!SetBit(m, i, v) = Fixed!SetBit(m, i, v)
  BY DEF Bool!SetBit, Fixed!SetBit, Bool!SetBits, Fixed!SetBits, Bool!Fit, Fixed!Fit, Bool!All, Fixed!All
<1>8. \A a, i : Bool!IsNull(a, i) = Fixed!IsNull(a, i)
  BY DEF Bool!IsNull, Fixed!IsNull
<1>9. \A a : Bool!Unmasked(a) = Fixed!Unmasked(a)
  BY DEF Bool!Unmasked, Fixed!Unmasked
<1>10. \A a, m : Bool!Masked(a, m) = Fixed!Masked(a, m)
  BY DEF Bool!Masked, Fixed!Masked
<1>11. \A a, m : Bool!OnMask(a, m) = Fixed!OnMask(a, m)
  BY DEF Bool!OnMask, Fixed!OnMask, Bool!Masked, Fixed!Masked
<1>12. \A a, n : Bool!MaskOr(a, n) = Fixed!MaskOr(a, n)
  BY DEF Bool!MaskOr, Fixed!MaskOr, Bool!All, Fixed!All
<1>13. \A a, i : Bool!ValidAt(a, i) = Fixed!ValidAt(a, i)
  BY DEF Bool!ValidAt, Fixed!ValidAt, Bool!OnMask, Fixed!OnMask, Bool!Masked, Fixed!Masked, Bool!SetBit, Fixed!SetBit, Bool!SetBits, Fixed!SetBits, Bool!Fit, Fixed!Fit, Bool!All, Fixed!All
<1>14. \A a, n, k : Bool!NullTo(a, n, k) = Fixed!NullTo(a, n, k)
  BY DEF Bool!NullTo, Fixed!NullTo, Bool!Masked, Fixed!Masked, Bool!SetBits, Fixed!SetBits, Bool!Fit, Fixed!Fit, Bool!All, Fixed!All, Bool!MaskOr, Fixed!MaskOr
<1>15. \A a, n, g, m, k : Bool!Extended(a, n, g, m, k) = Fixed!Extended(a, n, g, m, k)
  BY DEF Bool!Extended, Fixed!Extended, Bool!Masked, Fixed!Masked, Bool!Fit, Fixed!Fit, Bool!All, Fixed!All
<1>16. \A a, n, i, g, m, k : Bool!Inserted(a, n, i, g, m, k) = Fixed!Inserted(a, n, i, g, m, k)
  BY DEF Bool!Inserted, Fixed!Inserted, Bool!Masked, Fixed!Masked, Bool!Spliced, Fixed!Spliced, Bool!MaskOr, Fixed!MaskOr, Bool!All, Fixed!All
<1>17. \A a, o, k : Bool!RowBits(a, o, k) = Fixed!RowBits(a, o, k)
  BY DEF Bool!RowBits, Fixed!RowBits
<1> QED BY <1>1, <1>2, <1>3, <1>4, <1>5, <1>6, <1>7, <1>8, <1>9, <1>10, <1>11, <1>12, <1>13, <1>14, <1>15, <1>16, <1>17

(* So are the string array's.                                              *)
LEMMA TextSame ==
  /\ \A n, v : Text!All(n, v) = Fixed!All(n, v)
  /\ \A s, f, t : Text!Without(s, f, t) = Fixed!Without(s, f, t)
  /\ \A s, f, n : Text!Window(s, f, n) = Fixed!Window(s, f, n)
  /\ \A s, i, t : Text!Spliced(s, i, t) = Fixed!Spliced(s, i, t)
  /\ \A s, n, v : Text!Fit(s, n, v) = Fixed!Fit(s, n, v)
  /\ \A m, f, t, v : Text!SetBits(m, f, t, v) = Fixed!SetBits(m, f, t, v)
  /\ \A m, i, v : Text!SetBit(m, i, v) = Fixed!SetBit(m, i, v)
  /\ \A a, i : Text!IsNull(a, i) = Fixed!IsNull(a, i)
  /\ \A a : Text!Unmasked(a) = Fixed!Unmasked(a)
  /\ \A a, m : Text!Masked(a, m) = Fixed!Masked(a, m)
  /\ \A a, m : Text!OnMask(a, m) = Fixed!OnMask(a, m)
  /\ \A a, n : Text!MaskOr(a, n) = Fixed!MaskOr(a, n)
  /\ \A a, i : Text!ValidAt(a, i) = Fixed!ValidAt(a, i)
  /\ \A a, n, k : Text!NullTo(a, n, k) = Fixed!NullTo(a, n, k)
  /\ \A a, n, g, m, k : Text!Extended(a, n, g, m, k) = Fixed!Extended(a, n, g, m, k)
  /\ \A a, n, i, g, m, k : Text!Inserted(a, n, i, g, m, k) = Fixed!Inserted(a, n, i, g, m, k)
<1>1. \A n, v : Text!All(n, v) = Fixed!All(n, v)
  BY DEF Text!All, Fixed!All
<1>2. \A s, f, t : Text!Without(s, f, t) = Fixed!Without(s, f, t)
  BY DEF Text!Without, Fixed!Without
<1>3. \A s, f, n : Text!Window(s, f, n) = Fixed!Window(s, f, n)
  BY DEF Text!Window, Fixed!Window
<1>4. \A s, i, t : Text!Spliced(s, i, t) = Fixed!Spliced(s, i, t)
  BY DEF Text!Spliced, Fixed!Spliced
<1>5. \A s, n, v : Text!Fit(s, n, v) = Fixed!Fit(s, n, v)
  BY DEF Text!Fit, Fixed!Fit, Text!All, Fixed!All
<1>6. \A m, f, t, v : Text!SetBits(m, f, t, v) = Fixed!SetBits(m, f, t, v)
  BY DEF Text!SetBits, Fixed!SetBits, Text!Fit, Fixed!Fit, Text!All, Fixed!All
<1>7. \A m, i, v : Text!SetBit(m, i, v) = Fixed!SetBit(m, i, v)
  BY DEF Text!SetBit, Fixed!SetBit, Text!SetBits, Fixed!SetBits, Text!Fit, Fixed!Fit, Text!All, Fixed!All
<1>8. \A a, i : Text!IsNull(a, i) = Fixed!IsNull(a, i)
  BY DEF Text!IsNull, Fixed!IsNull
<1>9. \A a : Text!Unmasked(a) = Fixed!Unmasked(a)
  BY DEF Text!Unmasked, Fixed!Unmasked
<1>10. \A a, m : Text!Masked(a, m) = Fixed!Masked(a, m)
  BY DEF Text!Masked, Fixed!Masked
<1>11. \A a, m : Text!OnMask(a, m) = Fixed!OnMask(a, m)
  BY DEF Text!OnMask, Fixed!OnMask, Text!Masked, Fixed!Masked
<1>12. \A a, n : Text!MaskOr(a, n) = Fixed!MaskOr(a, n)
  BY DEF Text!MaskOr, Fixed!MaskOr, Text!All, Fixed!All
<1>13. \A a, i : Text!ValidAt(a, i) = Fixed!ValidAt(a, i)
  BY DEF Text!ValidAt, Fixed!ValidAt, Text!OnMask, Fixed!OnMask, Text!Masked, Fixed!Masked, Text!SetBit, Fixed!SetBit, Text!SetBits, Fixed!SetBits, Text!Fit, Fixed!Fit, Text!All, Fixed!All
<1>14. \A a, n, k : Text!NullTo(a, n, k) = Fixed!NullTo(a, n, k)
  BY DEF Text!NullTo, Fixed!NullTo, Text!Masked, Fixed!Masked, Text!SetBits, Fixed!SetBits, Text!Fit, Fixed!Fit, Text!All, Fixed!All, Text!MaskOr, Fixed!MaskOr
<1>15. \A a, n, g, m, k : Text!Extended(a, n, g, m, k) = Fixed!Extended(a, n, g, m, k)
  BY DEF Text!Extended, Fixed!Extended, Text!Masked, Fixed!Masked, Text!Fit, Fixed!Fit, Text!All, Fixed!All
<1>16. \A a, n, i, g, m, k : Text!Inserted(a, n, i, g, m, k) = Fixed!Inserted(a, n, i, g, m, k)
  BY DEF Text!Inserted, Fixed!Inserted, Text!Masked, Fixed!Masked, Text!Spliced, Fixed!Spliced, Text!MaskOr, Fixed!MaskOr, Text!All, Fixed!All
<1> QED BY <1>1, <1>2, <1>3, <1>4, <1>5, <1>6, <1>7, <1>8, <1>9, <1>10, <1>11, <1>12, <1>13, <1>14, <1>15, <1>16

(* So are the categorical array's.                                         *)
LEMMA CatSame ==
  /\ \A n, v : Cat!All(n, v) = Fixed!All(n, v)
  /\ \A s, f, t : Cat!Without(s, f, t) = Fixed!Without(s, f, t)
  /\ \A s, f, n : Cat!Window(s, f, n) = Fixed!Window(s, f, n)
  /\ \A s, i, t : Cat!Spliced(s, i, t) = Fixed!Spliced(s, i, t)
  /\ \A s, n, v : Cat!Fit(s, n, v) = Fixed!Fit(s, n, v)
  /\ \A m, f, t, v : Cat!SetBits(m, f, t, v) = Fixed!SetBits(m, f, t, v)
  /\ \A m, i, v : Cat!SetBit(m, i, v) = Fixed!SetBit(m, i, v)
  /\ \A a, i : Cat!IsNull(a, i) = Fixed!IsNull(a, i)
  /\ \A a : Cat!Unmasked(a) = Fixed!Unmasked(a)
  /\ \A a, m : Cat!Masked(a, m) = Fixed!Masked(a, m)
  /\ \A a, m : Cat!OnMask(a, m) = Fixed!OnMask(a, m)
  /\ \A a, n : Cat!MaskOr(a, n) = Fixed!MaskOr(a, n)
  /\ \A a, i : Cat!ValidAt(a, i) = Fixed!ValidAt(a, i)
  /\ \A a, n, k : Cat!NullTo(a, n, k) = Fixed!NullTo(a, n, k)
  /\ \A a, n, g, m, k : Cat!Extended(a, n, g, m, k) = Fixed!Extended(a, n, g, m, k)
  /\ \A a, n, i, g, m, k : Cat!Inserted(a, n, i, g, m, k) = Fixed!Inserted(a, n, i, g, m, k)
  /\ \A a, o, k : Cat!RowBits(a, o, k) = Fixed!RowBits(a, o, k)
<1>1. \A n, v : Cat!All(n, v) = Fixed!All(n, v)
  BY DEF Cat!All, Fixed!All
<1>2. \A s, f, t : Cat!Without(s, f, t) = Fixed!Without(s, f, t)
  BY DEF Cat!Without, Fixed!Without
<1>3. \A s, f, n : Cat!Window(s, f, n) = Fixed!Window(s, f, n)
  BY DEF Cat!Window, Fixed!Window
<1>4. \A s, i, t : Cat!Spliced(s, i, t) = Fixed!Spliced(s, i, t)
  BY DEF Cat!Spliced, Fixed!Spliced
<1>5. \A s, n, v : Cat!Fit(s, n, v) = Fixed!Fit(s, n, v)
  BY DEF Cat!Fit, Fixed!Fit, Cat!All, Fixed!All
<1>6. \A m, f, t, v : Cat!SetBits(m, f, t, v) = Fixed!SetBits(m, f, t, v)
  BY DEF Cat!SetBits, Fixed!SetBits, Cat!Fit, Fixed!Fit, Cat!All, Fixed!All
<1>7. \A m, i, v : Cat!SetBit(m, i, v) = Fixed!SetBit(m, i, v)
  BY DEF Cat!SetBit, Fixed!SetBit, Cat!SetBits, Fixed!SetBits, Cat!Fit, Fixed!Fit, Cat!All, Fixed!All
<1>8. \A a, i : Cat!IsNull(a, i) = Fixed!IsNull(a, i)
  BY DEF Cat!IsNull, Fixed!IsNull
<1>9. \A a : Cat!Unmasked(a) = Fixed!Unmasked(a)
  BY DEF Cat!Unmasked, Fixed!Unmasked
<1>10. \A a, m : Cat!Masked(a, m) = Fixed!Masked(a, m)
  BY DEF Cat!Masked, Fixed!Masked
<1>11. \A a, m : Cat!OnMask(a, m) = Fixed!OnMask(a, m)
  BY DEF Cat!OnMask, Fixed!OnMask, Cat!Masked, Fixed!Masked
<1>12. \A a, n : Cat!MaskOr(a, n) = Fixed!MaskOr(a, n)
  BY DEF Cat!MaskOr, Fixed!MaskOr, Cat!All, Fixed!All
<1>13. \A a, i : Cat!ValidAt(a, i) = Fixed!ValidAt(a, i)
  BY DEF Cat!ValidAt, Fixed!ValidAt, Cat!OnMask, Fixed!OnMask, Cat!Masked, Fixed!Masked, Cat!SetBit, Fixed!SetBit, Cat!SetBits, Fixed!SetBits, Cat!Fit, Fixed!Fit, Cat!All, Fixed!All
<1>14. \A a, n, k : Cat!NullTo(a, n, k) = Fixed!NullTo(a, n, k)
  BY DEF Cat!NullTo, Fixed!NullTo, Cat!Masked, Fixed!Masked, Cat!SetBits, Fixed!SetBits, Cat!Fit, Fixed!Fit, Cat!All, Fixed!All, Cat!MaskOr, Fixed!MaskOr
<1>15. \A a, n, g, m, k : Cat!Extended(a, n, g, m, k) = Fixed!Extended(a, n, g, m, k)
  BY DEF Cat!Extended, Fixed!Extended, Cat!Masked, Fixed!Masked, Cat!Fit, Fixed!Fit, Cat!All, Fixed!All
<1>16. \A a, n, i, g, m, k : Cat!Inserted(a, n, i, g, m, k) = Fixed!Inserted(a, n, i, g, m, k)
  BY DEF Cat!Inserted, Fixed!Inserted, Cat!Masked, Fixed!Masked, Cat!Spliced, Fixed!Spliced, Cat!MaskOr, Fixed!MaskOr, Cat!All, Fixed!All
<1>17. \A a, o, k : Cat!RowBits(a, o, k) = Fixed!RowBits(a, o, k)
  BY DEF Cat!RowBits, Fixed!RowBits
<1> QED BY <1>1, <1>2, <1>3, <1>4, <1>5, <1>6, <1>7, <1>8, <1>9, <1>10, <1>11, <1>12, <1>13, <1>14, <1>15, <1>16, <1>17

-----------------------------------------------------------------------------
(* Data next to the rows, in an array of any kind                          *)

(* A value and its row: the row is null or holds the value in the unit u.  *)
(* The data of an array that is one item a row, corresponding to the rows  *)
(* by R. An array with other data.                                         *)
Is(u) == {p \in Cell \X WantRow : p[2] # <<>> => p[2] = << <<u, p[1]>> >>}
Kept(S, R, a, w) == Frame(a, w) /\ a.data \in Seq(S) /\ Len(a.data) = Len(w) /\ Pairs(R, a.data, w)
Put(b, a, d) == Moved(b, a) /\ b.data = d

(* A cell and its row correspond, and so do a cell and a null.             *)
LEMMA IsIs ==
  ASSUME NEW u \in Nat, NEW v \in Cell
  PROVE  /\ << <<u, v>> >> \in WantRow /\ << <<u, v>> >> # <<>> /\ <<>> \in WantRow
         /\ <<v, << <<u, v>> >> >> \in Is(u) /\ <<v, <<>> >> \in Is(u)
<1>1. << <<u, v>> >> \in WantRow /\ << <<u, v>> >> # <<>> /\ <<>> \in WantRow
  BY DEF WantRow
<1> HIDE DEF WantRow
<1>2. <<v, << <<u, v>> >> >> \in Cell \X WantRow /\ <<v, <<>> >> \in Cell \X WantRow
  BY <1>1
<1> QED BY <1>1, <1>2 DEF Is

(* Replacing the data moves nothing else.                                  *)
LEMMA DataPut ==
  ASSUME NEW a, Fields(a), NEW d
  PROVE  Put([a EXCEPT !.data = d], a, d) /\ \A f \in DOMAIN a \ {"data"} : [a EXCEPT !.data = d][f] = a[f]
BY DEF Put, Moved, Fields

(* What is known of an array that keeps the rows w.                        *)
LEMMA KeptOf ==
  ASSUME NEW S, NEW R, NEW a, NEW w, Kept(S, R, a, w)
  PROVE  /\ Frame(a, w) /\ Fields(a) /\ a.unit \in Nat /\ a.masked \in BOOLEAN /\ a.data \in Seq(S) /\ w \in Seq(WantRow) /\ Len(w) \in Nat
         /\ Len(a.data) = Len(w) /\ Pairs(R, a.data, w) /\ a.mask \in Seq(Bits) /\ Nulls(a.masked, a.mask, w)
BY MarksOf DEF Kept, Frame

(* An array made of data that corresponds to rows and of a mask that marks *)
(* their nulls keeps those rows.                                           *)
LEMMA KeptMade ==
  ASSUME NEW S, NEW R, NEW a, NEW b, NEW c, NEW x, NEW d, Turned(c, b, a, x), Fields(a), Put(b, a, d),
         d \in Seq(S), Len(d) = Len(x), Pairs(R, d, x)
  PROVE  Like(c, a) /\ Kept(S, R, c, x)
BY DEF Turned, Kept, Rest, Put, Moved, Fields

(* Push on an array of one item a row.                                     *)
LEMMA KeptPush ==
  ASSUME NEW S, NEW R, NEW a, NEW w, Kept(S, R, a, w), WholeAt(a, w), NEW v \in S, NEW r \in WantRow, r # <<>>,
         <<v, r>> \in R, NEW b, Put(b, a, Append(a.data, v))
  PROVE  LET c == Fixed!ValidAt(b, Len(w) + 1) IN Turned(c, b, a, w \o <<r>>) /\ Kept(S, R, c, w \o <<r>>)
<1> DEFINE c == Fixed!ValidAt(b, Len(w) + 1)
           x == w \o <<r>>
           d == a.data \o <<v>>
<1>0. /\ Frame(a, w) /\ Fields(a) /\ a.data \in Seq(S) /\ w \in Seq(WantRow) /\ Len(w) \in Nat
      /\ Len(a.data) = Len(w) /\ Pairs(R, a.data, w)
  BY KeptOf
<1>1. Append(a.data, v) = d /\ d \in Seq(S) /\ Len(d) = Len(w) + 1 /\ <<v>> \in Seq(S)
  BY <1>0, AppendIsConcat
<1>2. Pairs(R, d, x)
  BY <1>0, <1>1, PairsOne, PairsJoin
<1>3. Len(x) = Len(w) + 1
  BY <1>0, OneMore
<1>4. Turned(c, b, a, x)
  BY <1>0, TurnPush DEF Put
<1> HIDE DEF c, x, d
<1>5. Kept(S, R, c, x)
  BY <1>0, <1>1, <1>2, <1>3, <1>4, KeptMade
<1> QED BY <1>4, <1>5 DEF c, x

(* Set on an array of one item a row.                                      *)
LEMMA KeptSet ==
  ASSUME NEW S, NEW R, NEW a, NEW w, Kept(S, R, a, w), WholeAt(a, w), NEW v \in S, NEW r \in WantRow, r # <<>>,
         <<v, r>> \in R, NEW i \in 1..Len(w), NEW b, Put(b, a, [a.data EXCEPT ![i] = v])
  PROVE  LET c == Fixed!ValidAt(b, i) IN Turned(c, b, a, [w EXCEPT ![i] = r]) /\ Kept(S, R, c, [w EXCEPT ![i] = r])
<1> DEFINE c == Fixed!ValidAt(b, i)
           x == [w EXCEPT ![i] = r]
           d == [a.data EXCEPT ![i] = v]
<1>0. /\ Frame(a, w) /\ Fields(a) /\ a.data \in Seq(S) /\ w \in Seq(WantRow) /\ Len(w) \in Nat
      /\ Len(a.data) = Len(w) /\ Pairs(R, a.data, w)
  BY KeptOf
<1>1. d \in Seq(S) /\ AsRange(d, a.data, i - 1, i, v) /\ x \in Seq(WantRow) /\ AsRange(x, w, i - 1, i, r)
      /\ i \in Nat /\ i - 1 \in Nat
  BY <1>0, SetIs
<1>4. Turned(c, b, a, x)
  BY <1>0, TurnSet DEF Put
<1> HIDE DEF c, x, d
<1>2. Pairs(R, d, x)
  BY <1>0, <1>1, PairsRange
<1>3. Len(x) = Len(w) /\ Len(d) = Len(w)
  BY <1>0, <1>1 DEF AsRange
<1>5. Kept(S, R, c, x)
  BY <1>0, <1>1, <1>2, <1>3, <1>4, KeptMade DEF d
<1> QED BY <1>4, <1>5 DEF c, x

(* A range set on an array of one item a row.                              *)
LEMMA KeptRange ==
  ASSUME NEW S, NEW R, NEW a, NEW w, Kept(S, R, a, w), WholeAt(a, w), NEW v, NEW r \in WantRow, r # <<>>,
         <<v, r>> \in R, NEW from \in Nat, NEW to \in Nat, from <= to, to <= Len(w),
         NEW d \in Seq(S), AsRange(d, a.data, from, to, v), NEW x \in Seq(WantRow), AsRange(x, w, from, to, r),
         NEW b, Put(b, a, d)
  PROVE  LET c == Fixed!OnMask(b, Fixed!SetBits(a.mask, from, to, TRUE))
         IN  Turned(c, b, a, x) /\ Kept(S, R, c, x)
<1> DEFINE c == Fixed!OnMask(b, Fixed!SetBits(a.mask, from, to, TRUE))
<1>0. /\ Frame(a, w) /\ Fields(a) /\ a.data \in Seq(S) /\ w \in Seq(WantRow) /\ Len(w) \in Nat
      /\ Len(a.data) = Len(w) /\ Pairs(R, a.data, w)
  BY KeptOf
<1>4. Turned(c, b, a, x)
  BY <1>0, TurnRange DEF Put
<1> HIDE DEF c
<1>2. Pairs(R, d, x)
  BY <1>0, PairsRange
<1>3. Len(x) = Len(w) /\ Len(d) = Len(w)
  BY <1>0 DEF AsRange
<1>5. Kept(S, R, c, x)
  BY <1>0, <1>2, <1>3, <1>4, KeptMade
<1> QED BY <1>4, <1>5 DEF c

(* Resize on an array of one item a row.                                   *)
LEMMA KeptFit ==
  ASSUME NEW S, NEW R, NEW a, NEW w, Kept(S, R, a, w), WholeAt(a, w), NEW v \in S, NEW r \in WantRow, r # <<>>,
         <<v, r>> \in R, NEW n \in Nat, NEW b, Put(b, a, Fixed!Fit(a.data, n, v))
  PROVE  Turned(b, b, a, Fixed!Fit(w, n, r)) /\ Kept(S, R, b, Fixed!Fit(w, n, r))
<1> DEFINE x == Fixed!Fit(w, n, r)
           d == Fixed!Fit(a.data, n, v)
<1>0. /\ Frame(a, w) /\ Fields(a) /\ a.data \in Seq(S) /\ w \in Seq(WantRow) /\ Len(w) \in Nat
      /\ Len(a.data) = Len(w) /\ Pairs(R, a.data, w)
  BY KeptOf
<1>1. d \in Seq(S) /\ AsFit(d, a.data, n, v) /\ x \in Seq(WantRow) /\ AsFit(x, w, n, r)
  BY <1>0, FitIs
<1>4. Turned(b, b, a, x)
  BY <1>0, TurnFit DEF Put
<1>2. Pairs(R, d, x)
  BY <1>0, PairsFit
<1> HIDE DEF x, d
<1>3. Len(x) = n /\ Len(d) = n
  BY <1>0, <1>1 DEF AsFit
<1>5. Kept(S, R, b, x)
  BY <1>0, <1>1, <1>2, <1>3, <1>4, KeptMade DEF d
<1> QED BY <1>4, <1>5 DEF x

(* A range deleted from an array of one item a row.                        *)
LEMMA KeptDelete ==
  ASSUME NEW S, NEW R, NEW a, NEW w, Kept(S, R, a, w), WholeAt(a, w),
         NEW from \in Nat, NEW to \in Nat, from <= to, to <= Len(w), NEW b, Put(b, a, Fixed!Without(a.data, from, to))
  PROVE  LET c == Fixed!OnMask(b, Fixed!Without(a.mask, from, to))
             x == Fixed!Without(w, from, to)
         IN  Turned(c, b, a, x) /\ Kept(S, R, c, x)
<1> DEFINE c == Fixed!OnMask(b, Fixed!Without(a.mask, from, to))
           x == Fixed!Without(w, from, to)
           d == Fixed!Without(a.data, from, to)
<1>0. /\ Frame(a, w) /\ Fields(a) /\ a.data \in Seq(S) /\ w \in Seq(WantRow) /\ Len(w) \in Nat
      /\ Len(a.data) = Len(w) /\ Pairs(R, a.data, w)
  BY KeptOf
<1>1. d \in Seq(S) /\ AsWithout(d, a.data, from, to) /\ x \in Seq(WantRow) /\ AsWithout(x, w, from, to)
  BY <1>0, WithoutIs
<1>4. Turned(c, b, a, x)
  BY <1>0, TurnDelete DEF Put
<1>2. Pairs(R, d, x)
  BY <1>0, PairsWithout
<1> HIDE DEF c, x, d
<1>3. Len(x) = Len(d)
  BY <1>0, <1>1 DEF AsWithout
<1>5. Kept(S, R, c, x)
  BY <1>0, <1>1, <1>2, <1>3, <1>4, KeptMade DEF d
<1> QED BY <1>4, <1>5 DEF c, x

(* A window of an array of one item a row.                                 *)
LEMMA KeptWindow ==
  ASSUME NEW S, NEW R, NEW a, NEW w, Kept(S, R, a, w), a.masked => Len(a.mask) >= Len(w),
         NEW from \in Nat, NEW n \in Nat, from + n <= Len(w), NEW b, Put(b, a, Fixed!Window(a.data, from, n))
  PROVE  LET c == Fixed!OnMask(b, Fixed!Window(a.mask, from, n))
             x == Fixed!Window(w, from, n)
         IN  Turned(c, b, a, x) /\ Kept(S, R, c, x)
<1> DEFINE c == Fixed!OnMask(b, Fixed!Window(a.mask, from, n))
           x == Fixed!Window(w, from, n)
           d == Fixed!Window(a.data, from, n)
<1>0. /\ Frame(a, w) /\ Fields(a) /\ a.data \in Seq(S) /\ w \in Seq(WantRow) /\ Len(w) \in Nat
      /\ Len(a.data) = Len(w) /\ Pairs(R, a.data, w)
  BY KeptOf
<1>1. d \in Seq(S) /\ AsWindow(d, a.data, from, n) /\ x \in Seq(WantRow) /\ AsWindow(x, w, from, n)
  BY <1>0, WindowIs
<1>4. Turned(c, b, a, x)
  BY <1>0, TurnWindow DEF Put
<1>2. Pairs(R, d, x)
  BY <1>0, PairsWindow
<1> HIDE DEF c, x, d
<1>3. Len(x) = Len(d)
  BY <1>0, <1>1 DEF AsWindow
<1>5. Kept(S, R, c, x)
  BY <1>0, <1>1, <1>2, <1>3, <1>4, KeptMade DEF d
<1> QED BY <1>4, <1>5 DEF c, x

(* The rows of another array appended to an array of one item a row.       *)
LEMMA KeptExtended ==
  ASSUME NEW S, NEW R, NEW a, NEW w, Kept(S, R, a, w), WholeAt(a, w),
         NEW g, NEW m, NEW q, NEW y, Nulls(g, q, y), g => q = m, a.masked /\ g => Len(a.mask) = Len(w),
         NEW e \in Seq(S), Len(e) = Len(y), Pairs(R, e, y), NEW b, Put(b, a, a.data \o e)
  PROVE  LET c == Fixed!Extended(b, Len(w), g, m, Len(y)) IN Turned(c, b, a, w \o y) /\ Kept(S, R, c, w \o y)
<1> DEFINE c == Fixed!Extended(b, Len(w), g, m, Len(y))
           x == w \o y
           d == a.data \o e
<1>0. /\ Frame(a, w) /\ Fields(a) /\ a.data \in Seq(S) /\ w \in Seq(WantRow) /\ Len(w) \in Nat
      /\ Len(a.data) = Len(w) /\ Pairs(R, a.data, w) /\ y \in Seq(WantRow)
  BY KeptOf DEF Pairs
<1>1. d \in Seq(S) /\ Len(d) = Len(x)
  <2>1. d \in Seq(S) /\ AsJoin(d, a.data, e)
    BY <1>0, JoinIs
  <2>2. x \in Seq(WantRow) /\ AsJoin(x, w, y)
    BY <1>0, JoinIs
  <2> QED BY <1>0, <2>1, <2>2 DEF AsJoin
<1>4. Turned(c, b, a, x)
  BY <1>0, TurnExtended DEF Put
<1>2. Pairs(R, d, x)
  BY <1>0, PairsJoin
<1> HIDE DEF c, x, d
<1>5. Kept(S, R, c, x)
  BY <1>0, <1>1, <1>2, <1>4, KeptMade DEF d
<1> QED BY <1>4, <1>5 DEF c, x

(* The rows of an array without a mask appended, their bits set one by one. *)
LEMMA KeptJoined ==
  ASSUME NEW S, NEW R, NEW a, NEW w, Kept(S, R, a, w), WholeAt(a, w), a.masked, NEW m, NEW y, Nulls(FALSE, m, y),
         NEW e \in Seq(S), Len(e) = Len(y), Pairs(R, e, y), NEW b, Put(b, a, a.data \o e)
  PROVE  LET c == Fixed!Masked(b, Fixed!SetBits(a.mask, Len(w), Len(w) + Len(y), TRUE))
         IN  Turned(c, b, a, w \o y) /\ Kept(S, R, c, w \o y)
<1> DEFINE c == Fixed!Masked(b, Fixed!SetBits(a.mask, Len(w), Len(w) + Len(y), TRUE))
           x == w \o y
           d == a.data \o e
<1>0. /\ Frame(a, w) /\ Fields(a) /\ a.data \in Seq(S) /\ w \in Seq(WantRow) /\ Len(w) \in Nat
      /\ Len(a.data) = Len(w) /\ Pairs(R, a.data, w) /\ y \in Seq(WantRow)
  BY KeptOf DEF Pairs
<1>1. d \in Seq(S) /\ Len(d) = Len(x)
  <2>1. d \in Seq(S) /\ AsJoin(d, a.data, e)
    BY <1>0, JoinIs
  <2>2. x \in Seq(WantRow) /\ AsJoin(x, w, y)
    BY <1>0, JoinIs
  <2> QED BY <1>0, <2>1, <2>2 DEF AsJoin
<1>3. \A i \in 1..Len(y) : y[i] # <<>>
  BY DEF Nulls
<1>4. Turned(c, b, a, x)
  BY <1>0, <1>3, TurnJoined DEF Put
<1>2. Pairs(R, d, x)
  BY <1>0, PairsJoin
<1> HIDE DEF c, x, d
<1>5. Kept(S, R, c, x)
  BY <1>0, <1>1, <1>2, <1>4, KeptMade DEF d
<1> QED BY <1>4, <1>5 DEF c, x

(* The rows of another array inserted in an array of one item a row.       *)
LEMMA KeptInserted ==
  ASSUME NEW S, NEW R, NEW a, NEW w, Kept(S, R, a, w), WholeAt(a, w),
         NEW g, NEW q, NEW y, Nulls(g, q, y), g => Len(q) >= Len(y), NEW at \in Nat, at <= Len(w),
         NEW e \in Seq(S), Len(e) = Len(y), Pairs(R, e, y), NEW b, Put(b, a, Fixed!Spliced(a.data, at, e))
  PROVE  LET c == Fixed!Inserted(b, Len(w), at, g, q, Len(y))
             x == Fixed!Spliced(w, at, y)
         IN  Turned(c, b, a, x) /\ Kept(S, R, c, x)
<1> DEFINE c == Fixed!Inserted(b, Len(w), at, g, q, Len(y))
           x == Fixed!Spliced(w, at, y)
           d == Fixed!Spliced(a.data, at, e)
<1>0. /\ Frame(a, w) /\ Fields(a) /\ a.data \in Seq(S) /\ w \in Seq(WantRow) /\ Len(w) \in Nat
      /\ Len(a.data) = Len(w) /\ Pairs(R, a.data, w) /\ y \in Seq(WantRow)
  BY KeptOf DEF Pairs
<1>1. d \in Seq(S) /\ AsSpliced(d, a.data, at, e) /\ x \in Seq(WantRow) /\ AsSpliced(x, w, at, y)
  BY <1>0, SplicedIs
<1>4. Turned(c, b, a, x)
  BY <1>0, TurnInserted DEF Put
<1>2. Pairs(R, d, x)
  BY <1>0, PairsSpliced
<1> HIDE DEF c, x, d
<1>3. Len(x) = Len(d)
  BY <1>0, <1>1 DEF AsSpliced
<1>5. Kept(S, R, c, x)
  BY <1>0, <1>1, <1>2, <1>3, <1>4, KeptMade DEF d
<1> QED BY <1>4, <1>5 DEF c, x

(* Values appended to an array of one item a row, with the mask left or    *)
(* fitted.                                                                 *)
LEMMA KeptMore ==
  ASSUME NEW S, NEW R, NEW a, NEW w, Kept(S, R, a, w), WholeAt(a, w),
         NEW e \in Seq(S), NEW y \in Seq(WantRow), \A i \in 1..Len(y) : y[i] # <<>>, Len(e) = Len(y), Pairs(R, e, y),
         NEW b, Put(b, a, a.data \o e)
  PROVE  LET c == Fixed!OnMask(b, Fixed!Fit(a.mask, Len(w) + Len(y), TRUE))
         IN  Turned(b, b, a, w \o y) /\ Kept(S, R, b, w \o y) /\ Turned(c, b, a, w \o y) /\ Kept(S, R, c, w \o y)
<1> DEFINE c == Fixed!OnMask(b, Fixed!Fit(a.mask, Len(w) + Len(y), TRUE))
           x == w \o y
           d == a.data \o e
<1>0. /\ Frame(a, w) /\ Fields(a) /\ a.data \in Seq(S) /\ w \in Seq(WantRow) /\ Len(w) \in Nat
      /\ Len(a.data) = Len(w) /\ Pairs(R, a.data, w)
  BY KeptOf
<1>1. d \in Seq(S) /\ Len(d) = Len(x)
  <2>1. d \in Seq(S) /\ AsJoin(d, a.data, e)
    BY <1>0, JoinIs
  <2>2. x \in Seq(WantRow) /\ AsJoin(x, w, y)
    BY <1>0, JoinIs
  <2> QED BY <1>0, <2>1, <2>2 DEF AsJoin
<1>4. Turned(c, b, a, x) /\ Turned(b, b, a, x)
  BY <1>0, TurnMore DEF Put
<1>2. Pairs(R, d, x)
  BY <1>0, PairsJoin
<1> HIDE DEF c, x, d
<1>5. Kept(S, R, c, x) /\ Kept(S, R, b, x)
  BY <1>0, <1>1, <1>2, <1>4, KeptMade DEF d
<1> QED BY <1>4, <1>5 DEF c, x

(* Nulls appended to an array of one item a row, over any value.           *)
LEMMA KeptNulls ==
  ASSUME NEW S, NEW R, NEW a, NEW w, Kept(S, R, a, w), WholeAt(a, w), NEW k \in Nat,
         NEW v \in S, <<v, <<>> >> \in R, NEW b, Put(b, a, a.data \o Fixed!All(k, v))
  PROVE  LET c == Fixed!NullTo(b, Len(w) + k, k)
             x == w \o Fixed!All(k, <<>>)
         IN  Turned(c, b, a, x) /\ Kept(S, R, c, x)
<1> DEFINE c == Fixed!NullTo(b, Len(w) + k, k)
           e == Fixed!All(k, v)
           y == Fixed!All(k, <<>>)
           x == w \o y
           d == a.data \o e
<1>0. /\ Frame(a, w) /\ Fields(a) /\ a.data \in Seq(S) /\ w \in Seq(WantRow) /\ Len(w) \in Nat
      /\ Len(a.data) = Len(w) /\ Pairs(R, a.data, w) /\ <<>> \in WantRow
  BY KeptOf DEF WantRow
<1>1. e \in Seq(S) /\ Len(e) = k /\ y \in Seq(WantRow) /\ Len(y) = k
  BY <1>0, AllIs
<1>2. Pairs(R, e, y)
  BY <1>0, PairsAll
<1>4. Turned(c, b, a, x)
  BY <1>0, TurnNulls DEF Put
<1> HIDE DEF e, y
<1>3. d \in Seq(S) /\ Len(d) = Len(x)
  <2>1. d \in Seq(S) /\ AsJoin(d, a.data, e)
    BY <1>0, <1>1, JoinIs
  <2>2. x \in Seq(WantRow) /\ AsJoin(x, w, y)
    BY <1>0, <1>1, JoinIs
  <2> QED BY <1>0, <1>1, <2>1, <2>2 DEF AsJoin
<1>6. Pairs(R, d, x)
  BY <1>0, <1>1, <1>2, PairsJoin
<1> HIDE DEF c, x, d
<1>5. Kept(S, R, c, x)
  BY <1>0, <1>3, <1>4, <1>6, KeptMade DEF d, e
<1> QED BY <1>4, <1>5 DEF c, x, y

(* The last row of an array of one item a row made null.                   *)
LEMMA KeptNullLast ==
  ASSUME NEW S, NEW R, NEW a, NEW w, w \in Seq(WantRow), NEW r \in WantRow, Kept(S, R, a, w \o <<r>>),
         a.masked => Len(a.mask) >= Len(w), \A v \in S : <<v, <<>> >> \in R
  PROVE  LET c == Fixed!NullTo(a, Len(w) + 1, 1)
         IN  Turned(c, a, a, Append(w, <<>>)) /\ Kept(S, R, c, Append(w, <<>>))
<1> DEFINE c == Fixed!NullTo(a, Len(w) + 1, 1)
           x == Append(w, <<>>)
           z == w \o <<r>>
<1>0. /\ Frame(a, z) /\ Fields(a) /\ a.data \in Seq(S) /\ z \in Seq(WantRow) /\ Len(a.data) = Len(z) /\ Pairs(R, a.data, z)
  BY KeptOf
<1>1. Turned(c, a, a, x)
  BY <1>0, TurnNullLast
<1>2. Len(z) = Len(w) + 1 /\ \A i \in 1..Len(w) : z[i] = w[i]
  BY OneMore
<1>3. <<>> \in WantRow
  BY DEF WantRow
<1>4. x \in Seq(WantRow) /\ Len(x) = Len(w) + 1 /\ x[Len(w) + 1] = <<>> /\ \A i \in 1..Len(w) : x[i] = w[i]
  BY <1>3
<1> HIDE DEF z, x, c
<1>5. Len(x) = Len(z) /\ \A i \in 1..Len(x) : x[i] = z[i] \/ x[i] = <<>>
  BY <1>2, <1>4
<1>6. Pairs(R, a.data, x)
  BY <1>0, <1>4, <1>5, PairsNull
<1>7. Put(a, a, a.data)
  BY DEF Put, Moved
<1>8. Kept(S, R, c, x)
  BY <1>0, <1>1, <1>5, <1>6, <1>7, KeptMade
<1> QED BY <1>1, <1>8 DEF x, c

(* New values for all rows of an array of one item a row.                  *)
LEMMA KeptUnmasked ==
  ASSUME NEW S, NEW R, NEW a, NEW w, Kept(S, R, a, w), NEW e \in Seq(S), NEW y \in Seq(WantRow),
         \A i \in 1..Len(y) : y[i] # <<>>, Len(e) = Len(y), Pairs(R, e, y), NEW b, Put(b, a, e)
  PROVE  LET c == Fixed!Unmasked(b) IN Turned(c, b, a, y) /\ Kept(S, R, c, y)
<1> DEFINE c == Fixed!Unmasked(b)
<1>0. Frame(a, w) /\ Fields(a)
  BY KeptOf
<1>4. Turned(c, b, a, y)
  BY <1>0, TurnUnmasked DEF Put
<1> HIDE DEF c
<1>5. Kept(S, R, c, y)
  BY <1>0, <1>4, KeptMade
<1> QED BY <1>4, <1>5 DEF c

-----------------------------------------------------------------------------
(* Arrays of fixed width                                                   *)

(* A fixed-width array that keeps the rows w: one number a row.            *)
FixedKept(a, w) == Kept(Int, Is(a.unit), a, w)

(* What is known of a fixed-width array that keeps the rows w.             *)
LEMMA FixedOf ==
  ASSUME NEW a, NEW w, FixedKept(a, w)
  PROVE  /\ Kept(Int, Is(a.unit), a, w) /\ Frame(a, w) /\ Fields(a) /\ a.unit \in Nat /\ a.masked \in BOOLEAN
         /\ a.data \in Seq(Int) /\ w \in Seq(WantRow) /\ Len(w) \in Nat /\ Len(a.data) = Len(w)
         /\ a.mask \in Seq(Bits) /\ Nulls(a.masked, a.mask, w) /\ Fixed!Length(a) = Len(w) /\ Pairs(Is(a.unit), a.data, w)
BY KeptOf DEF FixedKept, Fixed!Length

(* A fixed-width array made with a mask that marks the nulls of x, over    *)
(* numbers that correspond to x, keeps x.                                  *)
LEMMA FixedTurned ==
  ASSUME NEW a, NEW b, NEW c, NEW x, Turned(c, b, a, x), Kept(Int, Is(a.unit), c, x)
  PROVE  Like(c, a) /\ FixedKept(c, x)
BY DEF Turned, Like, FixedKept

(* The row that holds a value.                                             *)
Rowed(u, v) == << <<u, v>> >>
(* The row of a cell is no null, and corresponds to it.                    *)
LEMMA RowedIs ==
  ASSUME NEW u \in Nat, NEW v \in Cell
  PROVE  Rowed(u, v) \in WantRow /\ Rowed(u, v) # <<>> /\ <<v, Rowed(u, v)>> \in Is(u) /\ <<v, <<>> >> \in Is(u)
BY IsIs DEF Rowed

(* Numbers are cells.                                                      *)
LEMMA IntCell == \A v \in Int : v \in Cell
BY DEF Cell

(* Setting a bit does not shorten a mask.                                  *)
LEMMA ValidGrows ==
  ASSUME NEW a, NEW w, Frame(a, w), NEW n \in Nat, a.masked => Len(a.mask) >= n, NEW i \in Nat, i >= 1, NEW b, Moved(b, a)
  PROVE  LET c == Fixed!ValidAt(b, i) IN c.masked => Len(c.mask) >= n
<1> DEFINE m == Fixed!SetBits(a.mask, i - 1, i, Yes)
           c == Fixed!ValidAt(b, i)
<1>0. Marks(b, w) /\ a.masked = b.masked /\ a.mask = b.mask /\ a.mask \in Seq(Bits) /\ {"masked", "mask"} \subseteq DOMAIN b
  BY MovedMarks DEF Marks
<1>1. m \in Seq(Bits) /\ AsSetBits(m, a.mask, i - 1, i, Yes)
  BY <1>0, i - 1 \in Nat, SetBitsIs, YesNo
<1>2. c = Fixed!OnMask(b, m)
  BY <1>0 DEF Fixed!ValidAt, Fixed!SetBit, Yes
<1> HIDE DEF m, c
<1>3. Len(m) >= Len(a.mask) /\ Len(a.mask) \in Nat /\ Len(m) \in Nat
  BY <1>0, <1>1 DEF AsSetBits
<1>4. CASE a.masked
  <2>1. c.mask = m
    BY <1>0, <1>2, <1>4, MaskedIs DEF Fixed!OnMask
  <2> QED BY <1>3, <1>4, <2>1 DEF c
<1>5. CASE ~a.masked
  <2>1. c = b
    BY <1>0, <1>2, <1>5 DEF Fixed!OnMask
  <2> QED BY <1>0, <1>5, <2>1 DEF c
<1> QED BY <1>4, <1>5

(* push of a fixed-width array adds the value's row.                       *)
LEMMA FixedPush ==
  ASSUME NEW a, NEW w, FixedKept(a, w), WholeAt(a, w), NEW v \in Int
  PROVE  LET c == Fixed!Push(a, v)
         IN  Like(c, a) /\ FixedKept(c, w \o <<Rowed(a.unit, v)>>) /\ (c.masked => Len(c.mask) >= Len(w))
<1> DEFINE r == Rowed(a.unit, v)
           b == [a EXCEPT !.data = Append(a.data, v)]
           x == w \o <<r>>
           c == Fixed!ValidAt(b, Len(w) + 1)
<1>0. r \in WantRow /\ r # <<>> /\ <<v, r>> \in Is(a.unit) /\ Fields(a) /\ Frame(a, w) /\ Len(w) \in Nat /\ Fixed!Length(a) = Len(w)
  BY FixedOf, RowedIs, IntCell
<1>1. Put(b, a, Append(a.data, v))
  BY <1>0, DataPut
<1>2. Fixed!Push(a, v) = c
  BY <1>0 DEF Fixed!Push
<1>3. Kept(Int, Is(a.unit), a, w)
  BY FixedOf
<1> HIDE DEF r, b
<1>4. Turned(c, b, a, x) /\ Kept(Int, Is(a.unit), c, x)
  BY <1>0, <1>1, <1>3, KeptPush
<1>5. c.masked => Len(c.mask) >= Len(w)
  <2> DEFINE n == Len(w) + 1
  <2>1. n \in Nat /\ n >= 1
    BY <1>0
  <2> HIDE DEF n
  <2>2. Moved(b, a) /\ (a.masked => Len(a.mask) >= Len(w))
    BY <1>0, <1>1, WholeFrame DEF Put
  <2>3. LET e == Fixed!ValidAt(b, n) IN e.masked => Len(e.mask) >= Len(w)
    BY <1>0, <2>1, <2>2, ValidGrows
  <2> QED BY <2>3 DEF n
<1> HIDE DEF c, x
<1>6. Like(c, a) /\ FixedKept(c, x)
  BY <1>4, FixedTurned
<1> QED BY <1>2, <1>5, <1>6 DEF r, x

(* push_null of a fixed-width array adds a null.                           *)
LEMMA FixedPushNull ==
  ASSUME NEW a, NEW w, FixedKept(a, w), WholeAt(a, w)
  PROVE  LET c == Fixed!PushNull(a) IN Like(c, a) /\ FixedKept(c, Append(w, <<>>))
<1> DEFINE b == Fixed!Push(a, 0)
           r == Rowed(a.unit, 0)
           c == Fixed!NullTo(b, Len(w) + 1, 1)
           x == Append(w, <<>>)
<1>0. a.unit \in Nat /\ w \in Seq(WantRow) /\ Fixed!Length(a) = Len(w) /\ r \in WantRow
  BY 0 \in Int, FixedOf, RowedIs, IntCell
<1>1. Like(b, a) /\ FixedKept(b, w \o <<r>>) /\ (b.masked => Len(b.mask) >= Len(w))
  BY FixedPush
<1>2. Fixed!PushNull(a) = c
  BY <1>0 DEF Fixed!PushNull, Fixed!Zero
<1> HIDE DEF b, r
<1>3. \A v \in Int : <<v, <<>> >> \in Is(b.unit)
  BY <1>0, <1>1, RowedIs, IntCell DEF Like
<1>4. Turned(c, b, b, x) /\ Kept(Int, Is(b.unit), c, x)
  BY <1>0, <1>1, <1>3, FixedOf, KeptNullLast
<1> HIDE DEF c, x
<1>5. Like(c, b) /\ FixedKept(c, x)
  BY <1>4, FixedTurned
<1>6. Like(c, a)
  BY <1>1, <1>5 DEF Like
<1> QED BY <1>2, <1>5, <1>6 DEF x

(* push_nulls of a fixed-width array adds that many nulls.                 *)
LEMMA FixedPushNulls ==
  ASSUME NEW a, NEW w, FixedKept(a, w), WholeAt(a, w), NEW k \in Nat
  PROVE  LET c == Fixed!PushNulls(a, k) IN Like(c, a) /\ FixedKept(c, w \o Fixed!All(k, <<>>))
<1> DEFINE b == [a EXCEPT !.data = a.data \o Fixed!All(k, 0)]
           x == w \o Fixed!All(k, <<>>)
           c == Fixed!NullTo(b, Len(w) + k, k)
<1>0. <<0, <<>> >> \in Is(a.unit) /\ Fields(a) /\ Len(w) \in Nat /\ Fixed!Length(a) = Len(w) /\ Kept(Int, Is(a.unit), a, w)
  BY 0 \in Int, FixedOf, RowedIs, IntCell
<1>1. Put(b, a, a.data \o Fixed!All(k, 0))
  BY <1>0, DataPut
<1>2. Fixed!PushNulls(a, k) = c
  BY <1>0 DEF Fixed!PushNulls, Fixed!Zero
<1> HIDE DEF b
<1>4. Turned(c, b, a, x) /\ Kept(Int, Is(a.unit), c, x)
  BY <1>0, <1>1, KeptNulls, 0 \in Int
<1> HIDE DEF c, x
<1>6. Like(c, a) /\ FixedKept(c, x)
  BY <1>4, FixedTurned
<1> QED BY <1>2, <1>6 DEF x

(* set of a fixed-width array replaces one row, null or not.               *)
LEMMA FixedSet ==
  ASSUME NEW a, NEW w, FixedKept(a, w), WholeAt(a, w), NEW i \in 1..Len(w), NEW v \in Int
  PROVE  LET c == Fixed!Set(a, i, v) IN Like(c, a) /\ FixedKept(c, [w EXCEPT ![i] = Rowed(a.unit, v)])
<1> DEFINE r == Rowed(a.unit, v)
           b == [a EXCEPT !.data = [a.data EXCEPT ![i] = v]]
           x == [w EXCEPT ![i] = r]
           c == Fixed!ValidAt(b, i)
<1>0. r \in WantRow /\ r # <<>> /\ <<v, r>> \in Is(a.unit) /\ Fields(a)
  BY FixedOf, RowedIs, IntCell
<1>1. Put(b, a, [a.data EXCEPT ![i] = v])
  BY <1>0, DataPut
<1>2. Fixed!Set(a, i, v) = c
  BY DEF Fixed!Set
<1>3. Kept(Int, Is(a.unit), a, w)
  BY FixedOf
<1> HIDE DEF r, b
<1>4. Turned(c, b, a, x) /\ Kept(Int, Is(a.unit), c, x)
  BY <1>0, <1>1, <1>3, KeptSet
<1> HIDE DEF c, x
<1>5. Like(c, a) /\ FixedKept(c, x)
  BY <1>4, FixedTurned
<1> QED BY <1>2, <1>5 DEF r, x

(* A range set in a fixed-width array replaces those rows.                 *)
LEMMA FixedSetRange ==
  ASSUME NEW a, NEW w, FixedKept(a, w), WholeAt(a, w), NEW from \in Nat, NEW to \in Nat, from <= to, to <= Len(w), NEW v \in Int,
         NEW x \in Seq(WantRow), AsRange(x, w, from, to, Rowed(a.unit, v))
  PROVE  LET c == Fixed!SetRange(a, from, to, v) IN Like(c, a) /\ FixedKept(c, x)
<1> DEFINE r == Rowed(a.unit, v)
           d == [i \in DOMAIN a.data |-> IF i > from /\ i <= to THEN v ELSE a.data[i]]
           b == [a EXCEPT !.data = d]
           c == Fixed!OnMask(b, Fixed!SetBits(a.mask, from, to, TRUE))
<1>0. /\ r \in WantRow /\ r # <<>> /\ <<v, r>> \in Is(a.unit) /\ Fields(a) /\ Kept(Int, Is(a.unit), a, w)
      /\ a.data \in Seq(Int)
  BY FixedOf, RowedIs, IntCell
<1>1. Put(b, a, d)
  BY <1>0, DataPut
<1>2. Fixed!SetRange(a, from, to, v) = c
  BY DEF Fixed!SetRange
<1>3. d \in Seq(Int) /\ AsRange(d, a.data, from, to, v)
  BY <1>0, RangeIs, Zenon
<1> HIDE DEF b, d
<1>4. Turned(c, b, a, x) /\ Kept(Int, Is(a.unit), c, x)
  BY <1>0, <1>1, <1>3, KeptRange
<1> HIDE DEF c
<1>5. Like(c, a) /\ FixedKept(c, x)
  BY <1>4, FixedTurned
<1> QED BY <1>2, <1>5

(* resize of a fixed-width array cuts the rows or adds the given one.      *)
LEMMA FixedResize ==
  ASSUME NEW a, NEW w, FixedKept(a, w), WholeAt(a, w), NEW n \in Nat, NEW v \in Int
  PROVE  LET c == Fixed!Resize(a, n, v) IN Like(c, a) /\ FixedKept(c, Fixed!Fit(w, n, Rowed(a.unit, v)))
<1> DEFINE r == Rowed(a.unit, v)
           b == [a EXCEPT !.data = Fixed!Fit(a.data, n, v)]
           x == Fixed!Fit(w, n, r)
<1>0. r \in WantRow /\ r # <<>> /\ <<v, r>> \in Is(a.unit) /\ Fields(a) /\ Kept(Int, Is(a.unit), a, w)
  BY FixedOf, RowedIs, IntCell
<1>1. Put(b, a, Fixed!Fit(a.data, n, v))
  BY <1>0, DataPut
<1>2. Fixed!Resize(a, n, v) = b
  BY DEF Fixed!Resize
<1> HIDE DEF r, b
<1>4. Turned(b, b, a, x) /\ Kept(Int, Is(a.unit), b, x)
  BY <1>0, <1>1, KeptFit
<1> HIDE DEF x
<1>5. Like(b, a) /\ FixedKept(b, x)
  BY <1>4, FixedTurned
<1> QED BY <1>2, <1>5 DEF r, x

(* A range deleted from a fixed-width array takes those rows away.         *)
LEMMA FixedDelete ==
  ASSUME NEW a, NEW w, FixedKept(a, w), WholeAt(a, w), NEW from \in Nat, NEW to \in Nat, from <= to, to <= Len(w)
  PROVE  LET c == Fixed!DeleteRange(a, from, to) IN Like(c, a) /\ FixedKept(c, Fixed!Without(w, from, to))
<1> DEFINE b == [a EXCEPT !.data = Fixed!Without(a.data, from, to)]
           x == Fixed!Without(w, from, to)
           c == Fixed!OnMask(b, Fixed!Without(a.mask, from, to))
<1>0. Fields(a) /\ Kept(Int, Is(a.unit), a, w)
  BY FixedOf
<1>1. Put(b, a, Fixed!Without(a.data, from, to))
  BY <1>0, DataPut
<1>2. Fixed!DeleteRange(a, from, to) = c
  BY DEF Fixed!DeleteRange
<1> HIDE DEF b
<1>4. Turned(c, b, a, x) /\ Kept(Int, Is(a.unit), c, x)
  BY <1>0, <1>1, KeptDelete
<1> HIDE DEF c, x
<1>5. Like(c, a) /\ FixedKept(c, x)
  BY <1>4, FixedTurned
<1> QED BY <1>2, <1>5 DEF x

(* slice_clone of a fixed-width array keeps the rows of the window.        *)
LEMMA FixedSlice ==
  ASSUME NEW a, NEW w, FixedKept(a, w), a.masked => Len(a.mask) >= Len(w),
         NEW from \in Nat, NEW n \in Nat, from + n <= Len(w)
  PROVE  LET c == Fixed!SliceClone(a, from, n) IN Like(c, a) /\ FixedKept(c, Fixed!Window(w, from, n))
<1> DEFINE b == [a EXCEPT !.data = Fixed!Window(a.data, from, n)]
           x == Fixed!Window(w, from, n)
           c == Fixed!OnMask(b, Fixed!Window(a.mask, from, n))
<1>0. Fields(a) /\ Kept(Int, Is(a.unit), a, w)
  BY FixedOf
<1>1. Put(b, a, Fixed!Window(a.data, from, n))
  BY <1>0, DataPut
<1>2. Fixed!SliceClone(a, from, n) = c
  BY DEF Fixed!SliceClone
<1> HIDE DEF b
<1>4. Turned(c, b, a, x) /\ Kept(Int, Is(a.unit), c, x)
  BY <1>0, <1>1, KeptWindow
<1> HIDE DEF c, x
<1>5. Like(c, a) /\ FixedKept(c, x)
  BY <1>4, FixedTurned
<1> QED BY <1>2, <1>5 DEF x

(* append_array of a fixed-width array adds the rows of one of the same    *)
(* unit, unless both have a mask and this one's is longer than its rows.   *)
(* The bits of rows without a mask are set one by one.                     *)
LEMMA FixedAppend ==
  ASSUME NEW a, NEW w, FixedKept(a, w), WholeAt(a, w), NEW o, NEW y, FixedKept(o, y), o.unit = a.unit,
         a.masked /\ o.masked => Len(a.mask) = Len(w), o.masked => Len(o.mask) >= Len(y)
  PROVE  LET c == Fixed!AppendArray(a, o) IN Like(c, a) /\ FixedKept(c, w \o y)
<1> DEFINE b == [a EXCEPT !.data = a.data \o o.data]
           x == w \o y
           m == Fixed!RowBits(a, o, Len(y))
           one == Fixed!Masked(b, Fixed!SetBits(a.mask, Len(w), Len(w) + Len(y), TRUE))
           two == Fixed!Extended(b, Len(w), o.masked, m, Len(y))
           c == Fixed!AppendArray(a, o)
<1>0. /\ Fields(a) /\ Kept(Int, Is(a.unit), a, w) /\ Fixed!Length(a) = Len(w)
      /\ Nulls(o.masked, o.mask, y) /\ o.data \in Seq(Int) /\ Len(o.data) = Len(y) /\ Pairs(Is(a.unit), o.data, y)
      /\ Fixed!Length(o) = Len(y)
  BY FixedOf
<1>1. Put(b, a, a.data \o o.data)
  BY <1>0, DataPut
<1>2. c = IF Len(y) # 0 /\ a.masked /\ ~o.masked THEN one ELSE two
  BY <1>0 DEF Fixed!AppendArray
<1>3. Nulls(o.masked, m, y)
  BY <1>0, NullsRowBits
<1> HIDE DEF b, m
<1>4. Turned(c, b, a, x) /\ Kept(Int, Is(a.unit), c, x)
  <2>1. CASE Len(y) # 0 /\ a.masked /\ ~o.masked
    <3>1. Nulls(FALSE, o.mask, y)
      BY <1>0, <2>1 DEF Nulls
    <3>2. Turned(one, b, a, x) /\ Kept(Int, Is(a.unit), one, x)
      BY <1>0, <1>1, <2>1, <3>1, KeptJoined
    <3> QED BY <1>2, <2>1, <3>2
  <2>2. CASE ~(Len(y) # 0 /\ a.masked /\ ~o.masked)
    <3>1. Turned(two, b, a, x) /\ Kept(Int, Is(a.unit), two, x)
      BY <1>0, <1>1, <1>3, KeptExtended
    <3> QED BY <1>2, <2>2, <3>1
  <2> QED BY <2>1, <2>2
<1> HIDE DEF c, x
<1>5. Like(c, a) /\ FixedKept(c, x)
  BY <1>4, FixedTurned
<1> QED BY <1>5 DEF c, x

(* append_range of a fixed-width array adds the rows of the window, on the *)
(* same condition.                                                         *)
LEMMA FixedAppendRange ==
  ASSUME NEW a, NEW w, FixedKept(a, w), WholeAt(a, w), NEW o, NEW y, FixedKept(o, y), o.unit = a.unit,
         a.masked /\ o.masked => Len(a.mask) = Len(w), o.masked => Len(o.mask) >= Len(y),
         NEW from \in Nat, NEW n \in Nat, from + n <= Len(y)
  PROVE  LET c == Fixed!AppendRange(a, o, from, n) IN Like(c, a) /\ FixedKept(c, w \o Fixed!Window(y, from, n))
<1> DEFINE z == Fixed!Window(y, from, n)
           e == Fixed!Window(o.data, from, n)
           q == IF o.masked THEN Fixed!Window(o.mask, from, n) ELSE o.mask
           b == [a EXCEPT !.data = a.data \o e]
           x == w \o z
           c == Fixed!Extended(b, Len(w), o.masked, Fixed!Window(o.mask, from, n), Len(z))
<1>0. /\ Fields(a) /\ Kept(Int, Is(a.unit), a, w) /\ Fixed!Length(a) = Len(w)
      /\ Nulls(o.masked, o.mask, y) /\ o.data \in Seq(Int) /\ y \in Seq(WantRow) /\ Len(o.data) = Len(y) /\ Pairs(Is(a.unit), o.data, y)
  BY FixedOf
<1>1. Put(b, a, a.data \o e)
  BY <1>0, DataPut
<1>3. e \in Seq(Int) /\ AsWindow(e, o.data, from, n) /\ z \in Seq(WantRow) /\ AsWindow(z, y, from, n)
  BY <1>0, WindowIs
<1>5. Len(e) = n /\ Len(z) = n
  BY <1>3 DEF AsWindow
<1>6. Pairs(Is(a.unit), e, z)
  BY <1>0, PairsWindow
<1>7. Nulls(o.masked, q, z)
  BY <1>0, NullsWindow
<1>2. Fixed!AppendRange(a, o, from, n) = c
  BY <1>0, <1>5 DEF Fixed!AppendRange
<1>8. o.masked => q = Fixed!Window(o.mask, from, n)
  OBVIOUS
<1> HIDE DEF b, e, z, q
<1>4. Turned(c, b, a, x) /\ Kept(Int, Is(a.unit), c, x)
  BY <1>0, <1>1, <1>3, <1>5, <1>6, <1>7, <1>8, KeptExtended
<1> HIDE DEF c, x
<1>9. Like(c, a) /\ FixedKept(c, x)
  BY <1>4, FixedTurned
<1> QED BY <1>2, <1>9 DEF x, z

(* insert_rows of a fixed-width array puts the other's rows in at the      *)
(* place.                                                                  *)
LEMMA FixedInsert ==
  ASSUME NEW a, NEW w, FixedKept(a, w), WholeAt(a, w), NEW o, NEW y, FixedKept(o, y), o.unit = a.unit,
         o.masked => Len(o.mask) >= Len(y), NEW at \in Nat, at <= Len(w)
  PROVE  LET c == Fixed!InsertRows(a, at, o) IN Like(c, a) /\ FixedKept(c, Fixed!Spliced(w, at, y))
<1> DEFINE b == [a EXCEPT !.data = Fixed!Spliced(a.data, at, o.data)]
           x == Fixed!Spliced(w, at, y)
           c == Fixed!Inserted(b, Len(w), at, o.masked, o.mask, Len(y))
<1>0. /\ Fields(a) /\ Kept(Int, Is(a.unit), a, w) /\ Fixed!Length(a) = Len(w)
      /\ Nulls(o.masked, o.mask, y) /\ o.data \in Seq(Int) /\ Len(o.data) = Len(y) /\ Pairs(Is(a.unit), o.data, y)
      /\ Fixed!Length(o) = Len(y)
  BY FixedOf
<1>1. Put(b, a, Fixed!Spliced(a.data, at, o.data))
  BY <1>0, DataPut
<1>2. Fixed!InsertRows(a, at, o) = c
  BY <1>0 DEF Fixed!InsertRows
<1> HIDE DEF b
<1>4. Turned(c, b, a, x) /\ Kept(Int, Is(a.unit), c, x)
  BY <1>0, <1>1, KeptInserted
<1> HIDE DEF c, x
<1>5. Like(c, a) /\ FixedKept(c, x)
  BY <1>4, FixedTurned
<1> QED BY <1>2, <1>5 DEF x

(* split of a fixed-width array: the first rows, and the rest.             *)
LEMMA FixedSplit ==
  ASSUME NEW a, NEW w, FixedKept(a, w), WholeAt(a, w), NEW at \in Nat, at <= Len(w)
  PROVE  LET h == Fixed!Split(a, at)
         IN  /\ Like(h[1], a) /\ FixedKept(h[1], SubSeq(w, 1, at))
             /\ Like(h[2], a) /\ FixedKept(h[2], Fixed!Without(w, 0, at))
<1>0. w \in Seq(WantRow) /\ Len(w) \in Nat /\ Fixed!Length(a) = Len(w) /\ (a.masked => Len(a.mask) >= Len(w))
  BY FixedOf, KeptOf, WholeFrame
<1>1. Fixed!Split(a, at)[1] = Fixed!SliceClone(a, 0, at) /\ Fixed!Split(a, at)[2] = Fixed!DeleteRange(a, 0, at)
  BY DEF Fixed!Split
<1>2. Like(Fixed!SliceClone(a, 0, at), a) /\ FixedKept(Fixed!SliceClone(a, 0, at), Fixed!Window(w, 0, at))
  BY <1>0, FixedSlice
<1>3. Like(Fixed!DeleteRange(a, 0, at), a) /\ FixedKept(Fixed!DeleteRange(a, 0, at), Fixed!Without(w, 0, at))
  BY <1>0, FixedDelete
<1>4. Fixed!Window(w, 0, at) = SubSeq(w, 1, at)
  BY DEF Fixed!Window
<1> QED BY <1>1, <1>2, <1>3, <1>4

(* An array filled with one value, whatever was there.                     *)
LEMMA FixedFilled ==
  ASSUME NEW a, NEW w, FixedKept(a, w), NEW v \in Int, NEW n \in Nat
  PROVE  LET c == Fixed!Filled(a, v, n) IN Like(c, a) /\ FixedKept(c, Fixed!All(n, Rowed(a.unit, v)))
<1> DEFINE r == Rowed(a.unit, v)
           e == Fixed!All(n, v)
           b == [a EXCEPT !.data = e]
           x == Fixed!All(n, r)
           c == Fixed!Unmasked(b)
<1>0. r \in WantRow /\ r # <<>> /\ <<v, r>> \in Is(a.unit) /\ Fields(a) /\ Kept(Int, Is(a.unit), a, w)
  BY FixedOf, RowedIs, IntCell
<1>1. Put(b, a, e)
  BY <1>0, DataPut
<1>2. Fixed!Filled(a, v, n) = c
  BY DEF Fixed!Filled
<1> HIDE DEF r
<1>3. e \in Seq(Int) /\ Len(e) = n /\ x \in Seq(WantRow) /\ Len(x) = n /\ \A i \in 1..n : x[i] = r
  BY <1>0, AllIs
<1>6. Pairs(Is(a.unit), e, x)
  BY <1>0, PairsAll
<1> HIDE DEF b, e, x
<1>4. Turned(c, b, a, x) /\ Kept(Int, Is(a.unit), c, x)
  BY <1>0, <1>1, <1>3, <1>6, KeptUnmasked
<1> HIDE DEF c
<1>5. Like(c, a) /\ FixedKept(c, x)
  BY <1>4, FixedTurned
<1> QED BY <1>2, <1>5 DEF r, x

(* A sequence of rows with two more.                                       *)
LEMMA TwoMore ==
  ASSUME NEW w \in Seq(WantRow), NEW r \in WantRow, NEW q \in WantRow
  PROVE  /\ <<r, q>> \in Seq(WantRow) /\ Len(<<r, q>>) = 2 /\ (w \o <<r>>) \o <<q>> = w \o <<r, q>>
         /\ (r # <<>> /\ q # <<>> => \A i \in 1..Len(<<r, q>>) : <<r, q>>[i] # <<>>)
<1> DEFINE y == <<r, q>>
<1>1. y \in Seq(WantRow) /\ Len(y) = 2 /\ y[1] = r /\ y[2] = q
  OBVIOUS
<1>2. <<r>> \o <<q>> = y
  <2> DEFINE z == <<r>> \o <<q>>
  <2>1. z \in Seq(WantRow) /\ Len(z) = 2 /\ z[1] = r /\ z[2] = q
    OBVIOUS
  <2> HIDE DEF z, y
  <2>2. Len(z) = Len(y) /\ \A i \in 1..Len(z) : z[i] = y[i]
    BY <1>1, <2>1
  <2>3. z = y
    BY <1>1, <2>1, <2>2, SeqEqual
  <2> QED BY <2>3 DEF z
<1>3. (w \o <<r>>) \o <<q>> = w \o (<<r>> \o <<q>>)
  BY <<r>> \in Seq(WantRow), <<q>> \in Seq(WantRow), ConcatAssociative
<1> HIDE DEF y
<1>4. (w \o <<r>>) \o <<q>> = w \o y
  BY <1>2, <1>3
<1>5. r # <<>> /\ q # <<>> => \A i \in 1..Len(y) : y[i] # <<>>
  BY <1>1
<1> QED BY <1>1, <1>4, <1>5 DEF y

(* Two items and their rows correspond.                                    *)
LEMMA PairsTwo ==
  ASSUME NEW R, NEW v, NEW u, NEW r \in WantRow, NEW q \in WantRow, <<v, r>> \in R, <<u, q>> \in R
  PROVE  Pairs(R, <<v, u>>, <<r, q>>)
BY DEF Pairs

(* The bits of rows that are added to a whole mask may be set, with no     *)
(* row's null changed.                                                     *)
LEMMA OpenedMask ==
  ASSUME NEW a, NEW w, NEW x, Frame(a, w), WholeAt(a, w), Nulls(TRUE, a.mask, x), a.masked, NEW k \in Nat
  PROVE  Nulls(TRUE, [i \in DOMAIN a.mask |-> a.mask[i] \/ (i > Len(w) /\ i <= Len(w) + k)], x)
<1> DEFINE m == [i \in DOMAIN a.mask |-> a.mask[i] \/ (i > Len(w) /\ i <= Len(w) + k)]
<1>0. a.mask \in Seq(BOOLEAN) /\ x \in Seq(WantRow)
  BY DEF Nulls, Bits
<1>3. Len(w) \in Nat
  BY MarksOf DEF Frame
<1>1. m \in Seq(BOOLEAN) /\ Len(m) = Len(a.mask)
  <2> DEFINE n == Len(a.mask)
             p == [i \in 1..n |-> a.mask[i] \/ (i > Len(w) /\ i <= Len(w) + k)]
  <2>1. n \in Nat /\ m = p
    BY <1>0
  <2>2. \A i \in 1..n : p[i] \in BOOLEAN
    OBVIOUS
  <2> HIDE DEF p, n
  <2>3. DOMAIN p = 1..n
    BY DEF p
  <2>4. p \in Seq(BOOLEAN) /\ Len(p) = n
    BY <2>1, <2>2, <2>3 DEF p
  <2> QED BY <2>1, <2>4 DEF n
<1>2. ASSUME NEW i \in 1..Len(a.mask) PROVE m[i] # TRUE <=> a.mask[i] # TRUE
  <2>1. m[i] = (a.mask[i] \/ (i > Len(w) /\ i <= Len(w) + k)) /\ a.mask[i] \in BOOLEAN
    BY <1>0
  <2>2. i > Len(w) => a.mask[i] = TRUE
    BY <1>3 DEF WholeAt, WholeTo, Yes
  <2> HIDE DEF m
  <2> QED BY <2>1, <2>2
<1> HIDE DEF m
<1>5. \A i \in 1..Len(x) : (i <= Len(a.mask) /\ a.mask[i] # TRUE) <=> x[i] = <<>>
  BY DEF Nulls, Yes
<1>6. \A i \in 1..Len(x) : (i <= Len(m) /\ m[i] # TRUE) <=> x[i] = <<>>
  <2> SUFFICES ASSUME NEW i \in 1..Len(x) PROVE (i <= Len(m) /\ m[i] # TRUE) <=> x[i] = <<>>
    OBVIOUS
  <2>1. CASE i <= Len(m)
    <3>1. m[i] # TRUE <=> a.mask[i] # TRUE
      <4>1. i \in 1..Len(a.mask)
        BY <1>1, <2>1
      <4> QED BY ONLY <1>2, <4>1
    <3> QED BY <1>1, <1>5, <2>1, <3>1
  <2>2. CASE ~(i <= Len(m))
    BY <1>1, <1>5, <2>2
  <2> QED BY <2>1, <2>2
<1>4. Nulls(TRUE, m, x)
  BY <1>0, <1>1, <1>6 DEF Nulls, Bits, Yes
<1> QED BY <1>4 DEF m

(* extend_from_slice of a fixed-width array adds the values' rows.         *)
LEMMA FixedExtend ==
  ASSUME NEW a, NEW w, FixedKept(a, w), WholeAt(a, w), NEW v \in Int, NEW u \in Int
  PROVE  LET c == Fixed!ExtendFromSlice(a, <<v, u>>)
         IN  Like(c, a) /\ FixedKept(c, w \o <<Rowed(a.unit, v), Rowed(a.unit, u)>>)
<1> DEFINE r == Rowed(a.unit, v)
           q == Rowed(a.unit, u)
           y == <<r, q>>
           e == <<v, u>>
           b == [a EXCEPT !.data = a.data \o e]
           x == w \o y
           m == [i \in DOMAIN a.mask |-> a.mask[i] \/ (i > Len(w) /\ i <= Len(w) + 2)]
           c == Fixed!OnMask(b, m)
<1>0. r \in WantRow /\ r # <<>> /\ <<v, r>> \in Is(a.unit) /\ q \in WantRow /\ q # <<>> /\ <<u, q>> \in Is(a.unit)
  BY FixedOf, RowedIs, IntCell
<1>1. Fields(a) /\ Frame(a, w) /\ Kept(Int, Is(a.unit), a, w) /\ Fixed!Length(a) = Len(w) /\ w \in Seq(WantRow)
  BY FixedOf
<1>2. Put(b, a, a.data \o e)
  BY <1>1, DataPut
<1>3. Fixed!ExtendFromSlice(a, <<v, u>>) = c
  BY <1>1 DEF Fixed!ExtendFromSlice
<1> HIDE DEF r, q, b
<1>4. y \in Seq(WantRow) /\ Len(y) = 2 /\ (\A i \in 1..Len(y) : y[i] # <<>>)
  BY <1>0, <1>1, TwoMore
<1>5. Pairs(Is(a.unit), e, y)
  BY <1>0, PairsTwo
<1>6. e \in Seq(Int) /\ Len(e) = 2
  OBVIOUS
<1> HIDE DEF y, e
<1>7. Turned(b, b, a, x) /\ Kept(Int, Is(a.unit), b, x)
  BY <1>1, <1>2, <1>4, <1>5, <1>6, KeptMore
<1>8. Like(c, a) /\ FixedKept(c, x)
  <2>1. CASE a.masked
    <3>0. Moved(b, a) /\ b.masked = a.masked /\ b.mask = a.mask
      BY <1>2 DEF Put, Moved
    <3>1. Nulls(TRUE, a.mask, x)
      BY <1>7, <2>1, <3>0 DEF Kept, Frame, Marks
    <3>2. Nulls(TRUE, m, x)
      BY <1>1, <2>1, <3>1, 2 \in Nat, OpenedMask, Zenon
    <3>3. c = Fixed!Masked(b, m)
      BY <2>1, <3>0 DEF Fixed!OnMask
    <3> HIDE DEF m, c, x
    <3>4. Turned(c, b, a, x)
      BY <1>1, <3>0, <3>2, <3>3, TurnMasked
    <3>5. b.data \in Seq(Int) /\ Len(b.data) = Len(x) /\ Pairs(Is(a.unit), b.data, x)
      BY <1>7 DEF Kept
    <3>6. Kept(Int, Is(a.unit), c, x)
      BY <1>1, <3>0, <3>4, <3>5, KeptMade DEF Put
    <3> QED BY <3>4, <3>6, FixedTurned
  <2>2. CASE ~a.masked
    <3>1. c = b
      BY <1>2, <2>2 DEF Fixed!OnMask, Put, Moved
    <3> HIDE DEF c
    <3> QED BY <1>7, <3>1, FixedTurned
  <2> QED BY <2>1, <2>2
<1> QED BY <1>3, <1>8 DEF x, y, r, q

(* Rows of a fixed-width array made null, over the values that are there.  *)
LEMMA FixedNulled ==
  ASSUME NEW a, NEW w, FixedKept(a, w), NEW c, NEW x \in Seq(WantRow), Turned(c, a, a, x), Len(x) = Len(w),
         \A i \in 1..Len(x) : x[i] = w[i] \/ x[i] = <<>>
  PROVE  Like(c, a) /\ FixedKept(c, x)
<1>1. Fields(a) /\ Frame(a, w) /\ a.unit \in Nat /\ a.data \in Seq(Int) /\ Len(a.data) = Len(w) /\ Pairs(Is(a.unit), a.data, w)
  BY FixedOf
<1>2. \A v \in Int : <<v, <<>> >> \in Is(a.unit)
  BY <1>1, RowedIs, IntCell
<1>3. Pairs(Is(a.unit), a.data, x)
  BY <1>1, <1>2, PairsNull
<1>4. Put(a, a, a.data)
  BY DEF Put, Moved
<1>5. Kept(Int, Is(a.unit), c, x)
  BY <1>1, <1>3, <1>4, KeptMade
<1> QED BY <1>5, FixedTurned

-----------------------------------------------------------------------------
(* Scatter *)
AsPicked(t, s, u, dst, src) ==
  /\ Len(t) = Len(s)
  /\ \A d \in 1..Len(s) : t[d] = IF dst[2] = d THEN u[src[2]] ELSE IF dst[1] = d THEN u[src[1]] ELSE s[d]

(* Of two writes to one place the second is the last.                      *)
LEMMA LastIs ==
  ASSUME NEW n \in Nat, NEW dst \in [1..2 -> 1..n], NEW d, \E i \in DOMAIN dst : dst[i] = d
  PROVE  (CHOOSE i \in DOMAIN dst : dst[i] = d /\ \A j \in DOMAIN dst : dst[j] = d => j <= i)
           = IF dst[2] = d THEN 2 ELSE 1
<1> DEFINE k == IF dst[2] = d THEN 2 ELSE 1
           P(i) == i \in DOMAIN dst /\ dst[i] = d /\ \A j \in DOMAIN dst : dst[j] = d => j <= i
<1>0. DOMAIN dst = 1..2
  OBVIOUS
<1>1. P(k)
  BY <1>0
<1>2. \A i : P(i) => i = k
  <2> SUFFICES ASSUME NEW i, P(i) PROVE i = k
    OBVIOUS
  <2>1. i \in 1..2 /\ k \in 1..2 /\ dst[k] = d /\ k <= i /\ i <= k
    BY <1>0, <1>1
  <2> QED BY <2>1
<1> HIDE DEF k
<1>3. (CHOOSE i \in DOMAIN dst : dst[i] = d /\ \A j \in DOMAIN dst : dst[j] = d => j <= i) = k
  BY <1>1, <1>2
<1> QED BY <1>3 DEF k

(* The values that a scatter leaves, and its mask. *)
Picked(s, u, dst, src) ==
  [d \in 1..Len(s) |-> IF dst[2] = d THEN u[src[2]] ELSE IF dst[1] = d THEN u[src[1]] ELSE s[d]]

(* It is a sequence of the same items.                                     *)
LEMMA PickedIs ==
  ASSUME NEW S, NEW s \in Seq(S), NEW u \in Seq(S), NEW dst, NEW src \in [1..2 -> 1..Len(u)]
  PROVE  Picked(s, u, dst, src) \in Seq(S) /\ AsPicked(Picked(s, u, dst, src), s, u, dst, src)
<1> DEFINE t == [d \in 1..Len(s) |-> IF dst[2] = d THEN u[src[2]] ELSE IF dst[1] = d THEN u[src[1]] ELSE s[d]]
<1>1. src[1] \in 1..Len(u) /\ src[2] \in 1..Len(u)
  OBVIOUS
<1>2. u[src[1]] \in S /\ u[src[2]] \in S
  BY <1>1
<1>3. t \in Seq(S) /\ Len(t) = Len(s)
  BY <1>2
<1>4. \A d \in 1..Len(s) : t[d] = IF dst[2] = d THEN u[src[2]] ELSE IF dst[1] = d THEN u[src[1]] ELSE s[d]
  OBVIOUS
<1>5. t = Picked(s, u, dst, src)
  BY DEF Picked
<1> HIDE DEF t
<1>6. AsPicked(t, s, u, dst, src)
  BY <1>3, <1>4 DEF AsPicked
<1> QED BY <1>3, <1>5, <1>6

(* Items and rows scattered alike correspond.                              *)
LEMMA PairsPicked ==
  ASSUME NEW S, NEW R, NEW c \in Seq(S), NEW w, Pairs(R, c, w), NEW d \in Seq(S), NEW y, Pairs(R, d, y),
         NEW dst \in [1..2 -> 1..Len(w)], NEW src \in [1..2 -> 1..Len(y)],
         NEW e \in Seq(S), AsPicked(e, c, d, dst, src), NEW x \in Seq(WantRow), AsPicked(x, w, y, dst, src)
  PROVE  Pairs(R, e, x)
<1>0. w \in Seq(WantRow) /\ Len(c) >= Len(w) /\ Len(x) = Len(w) /\ Len(e) = Len(c)
  BY DEF Pairs, AsPicked
<1>1. src[1] \in 1..Len(y) /\ src[2] \in 1..Len(y)
  OBVIOUS
<1>2. <<d[src[1]], y[src[1]]>> \in R /\ <<d[src[2]], y[src[2]]>> \in R
  BY <1>1 DEF Pairs
<1>3. ASSUME NEW i \in 1..Len(x) PROVE <<e[i], x[i]>> \in R
  <2>0. i \in 1..Len(c) /\ i \in 1..Len(w)
    BY <1>0
  <2>1. CASE dst[2] = i
    <3>1. e[i] = d[src[2]] /\ x[i] = y[src[2]]
      BY <2>0, <2>1 DEF AsPicked
    <3> QED BY <1>2, <3>1
  <2>2. CASE dst[2] # i /\ dst[1] = i
    <3>1. e[i] = d[src[1]] /\ x[i] = y[src[1]]
      BY <2>0, <2>2 DEF AsPicked
    <3> QED BY <1>2, <3>1
  <2>3. CASE dst[2] # i /\ dst[1] # i
    <3>1. e[i] = c[i] /\ x[i] = w[i]
      BY <2>0, <2>3 DEF AsPicked
    <3> QED BY <2>0, <3>1 DEF Pairs
  <2> QED BY <2>1, <2>2, <2>3
<1> QED BY <1>0, <1>3 DEF Pairs

(* Bits of a mask, of the rows that are written and of the others. *)
AsPickedBits(t, m, l, p, dst, src) ==
  /\ Len(t) = Len(m)
  /\ \A d \in 1..Len(m) : t[d] = IF dst[2] = d THEN (IF l THEN p[src[2]] ELSE Yes)
                                 ELSE IF dst[1] = d THEN (IF l THEN p[src[1]] ELSE Yes) ELSE m[d]

(* The mask of a scatter marks the nulls of the scattered rows.            *)
LEMMA NullsPicked ==
  ASSUME NEW g, NEW w, Nulls(TRUE, g, w), Len(g) >= Len(w), NEW l, NEW p, NEW y, Nulls(l, p, y), l => Len(p) >= Len(y),
         NEW dst \in [1..2 -> 1..Len(w)], NEW src \in [1..2 -> 1..Len(y)],
         NEW t \in Seq(Bits), AsPickedBits(t, g, l, p, dst, src), NEW x \in Seq(WantRow), AsPicked(x, w, y, dst, src)
  PROVE  Nulls(TRUE, t, x)
<1>0. w \in Seq(WantRow) /\ y \in Seq(WantRow) /\ Len(x) = Len(w) /\ Len(t) = Len(g)
  BY DEF Nulls, AsPicked, AsPickedBits
<1>2. ASSUME NEW k \in 1..2
      PROVE  (IF l THEN p[src[k]] ELSE Yes) # Yes <=> y[src[k]] = <<>>
  <2>1. src[k] \in 1..Len(y)
    OBVIOUS
  <2>2. CASE l
    BY <2>1, <2>2 DEF Nulls
  <2>3. CASE ~l
    BY <2>1, <2>3 DEF Nulls
  <2> QED BY <2>2, <2>3
<1>3. ASSUME NEW i \in 1..Len(x) PROVE (i <= Len(t) /\ t[i] # Yes) <=> x[i] = <<>>
  <2>0. i \in 1..Len(g) /\ i \in 1..Len(w) /\ i <= Len(t)
    BY <1>0
  <2>1. CASE dst[2] = i
    <3>1. t[i] = (IF l THEN p[src[2]] ELSE Yes) /\ x[i] = y[src[2]]
      BY <2>0, <2>1 DEF AsPicked, AsPickedBits
    <3> QED BY <1>2, <2>0, <3>1
  <2>2. CASE dst[2] # i /\ dst[1] = i
    <3>1. t[i] = (IF l THEN p[src[1]] ELSE Yes) /\ x[i] = y[src[1]]
      BY <2>0, <2>2 DEF AsPicked, AsPickedBits
    <3> QED BY <1>2, <2>0, <3>1
  <2>3. CASE dst[2] # i /\ dst[1] # i
    <3>1. t[i] = g[i] /\ x[i] = w[i]
      BY <2>0, <2>3 DEF AsPicked, AsPickedBits
    <3> QED BY <2>0, <3>1 DEF Nulls
  <2> QED BY <2>1, <2>2, <2>3
<1> QED BY <1>0, <1>3 DEF Nulls

(* scatter over arrays of one item a row: the items that correspond to the *)
(* scattered rows, under a mask that marks their nulls.                    *)
LEMMA ScatterIs ==
  ASSUME NEW S, NEW R, NEW a, NEW w, Frame(a, w), a.masked => Len(a.mask) >= Len(w),
         a.data \in Seq(S), Pairs(R, a.data, w), NEW o, NEW y, o.data \in Seq(S), Pairs(R, o.data, y),
         Nulls(o.masked, o.mask, y), o.masked => Len(o.mask) >= Len(y),
         NEW dst \in [1..2 -> 1..Len(w)], NEW src \in [1..2 -> 1..Len(y)],
         NEW x \in Seq(WantRow), AsPicked(x, w, y, dst, src)
  PROVE  \E d \in Seq(S) : /\ Len(d) = Len(a.data) /\ Pairs(R, d, x)
                           /\ Turned(Fixed!ScatterPrim(a, dst, o, src), [a EXCEPT !.data = d], a, x)
<1> DEFINE hit == {dst[i] : i \in DOMAIN dst}
           last(d) == CHOOSE i \in DOMAIN dst : dst[i] = d /\ \A j \in DOMAIN dst : dst[j] = d => j <= i
           at(d) == IF dst[2] = d THEN 2 ELSE 1
           n == Len(a.data)
           m == Fixed!MaskOr(a, n)
           f == [d \in DOMAIN a.data |-> IF d \in hit THEN o.data[src[last(d)]] ELSE a.data[d]]
           g == [d \in DOMAIN m |-> IF d \notin hit THEN m[d] ELSE ~o.masked \/ o.mask[src[last(d)]]]
           e == Picked(a.data, o.data, dst, src)
           b == [a EXCEPT !.data = f]
           c == Fixed!ScatterPrim(a, dst, o, src)
<1>0. /\ Len(w) \in Nat /\ w \in Seq(WantRow) /\ y \in Seq(WantRow) /\ Len(a.data) >= Len(w) /\ Len(o.data) >= Len(y) /\ n \in Nat
      /\ o.masked \in BOOLEAN /\ a.masked \in BOOLEAN /\ a.mask \in Seq(Bits) /\ o.mask \in Seq(Bits) /\ Fields(a)
      /\ Nulls(a.masked, a.mask, w)
  BY MarksOf DEF Pairs, Nulls, Frame
<1>1. DOMAIN dst = 1..2 /\ \A d : d \in hit <=> dst[2] = d \/ dst[1] = d
  OBVIOUS
<1>2. ASSUME NEW d, d \in hit PROVE last(d) = at(d)
  <2>1. \E i \in DOMAIN dst : dst[i] = d
    BY <1>2
  <2> QED BY <1>0, <2>1, LastIs
<1>3. c = IF o.masked \/ a.masked THEN Fixed!Masked(b, g) ELSE b
  BY DEF Fixed!ScatterPrim, Fixed!Length
<1> HIDE DEF hit, last
<1>4. f = e
  <2>1. DOMAIN a.data = 1..n
    BY <1>0
  <2>2. ASSUME NEW d \in 1..n
        PROVE  (IF d \in hit THEN o.data[src[last(d)]] ELSE a.data[d])
                 = (IF dst[2] = d THEN o.data[src[2]] ELSE IF dst[1] = d THEN o.data[src[1]] ELSE a.data[d])
    BY <1>1, <1>2
  <2> QED BY <2>1, <2>2 DEF Picked
<1>5. src \in [1..2 -> 1..Len(o.data)]
  BY <1>0
<1>6. e \in Seq(S) /\ AsPicked(e, a.data, o.data, dst, src)
  BY <1>0, <1>5, PickedIs
<1> HIDE DEF e
<1>7. Pairs(R, e, x)
  BY <1>6, PairsPicked
<1>8. Len(e) = n
  BY <1>6 DEF AsPicked
<1>9. m \in Seq(Bits) /\ Len(m) >= Len(w) /\ Nulls(TRUE, m, w)
  <2>1. CASE a.masked
    BY <1>0, <2>1 DEF Fixed!MaskOr
  <2>2. CASE ~a.masked
    <3> DEFINE h == Fixed!All(n, Yes)
    <3>1. m = h
      BY <2>2 DEF Fixed!MaskOr, Yes
    <3>2. h \in Seq(Bits) /\ Len(h) = n /\ \A i \in 1..n : h[i] = Yes
      BY <1>0, YesNo, AllIs, Zenon
    <3>3. \A i \in 1..Len(w) : w[i] # <<>>
      BY <1>0, <2>2 DEF Nulls
    <3> HIDE DEF h, m, n
    <3>4. \A i \in 1..Len(w) : (i <= Len(h) /\ h[i] # Yes) <=> w[i] = <<>>
      BY <1>0, <3>2, <3>3 DEF n
    <3>5. Nulls(TRUE, h, w)
      BY <1>0, <3>2, <3>4 DEF Nulls
    <3> QED BY <1>0, <3>1, <3>2, <3>5 DEF n
  <2> QED BY <1>0, <2>1, <2>2
<1> HIDE DEF m
<1>10. g \in Seq(Bits) /\ AsPickedBits(g, m, o.masked, o.mask, dst, src)
  <2>0. DOMAIN m = 1..Len(m) /\ Len(m) \in Nat
    BY <1>9
  <2>1. ASSUME NEW d \in 1..Len(m)
        PROVE  /\ g[d] = IF dst[2] = d THEN (IF o.masked THEN o.mask[src[2]] ELSE Yes)
                         ELSE IF dst[1] = d THEN (IF o.masked THEN o.mask[src[1]] ELSE Yes) ELSE m[d]
               /\ g[d] \in Bits
    <3>0. g[d] = IF d \notin hit THEN m[d] ELSE ~o.masked \/ o.mask[src[last(d)]]
      BY <2>0
    <3>1. CASE d \notin hit
      BY <1>1, <1>9, <3>0, <3>1
    <3>2. CASE d \in hit
      <4> DEFINE k == src[at(d)]
      <4>1. g[d] = (~o.masked \/ o.mask[k]) /\ k \in 1..Len(y)
        BY <1>1, <1>2, <3>0, <3>2
      <4>2. (IF o.masked THEN o.mask[k] ELSE Yes) = IF dst[2] = d THEN (IF o.masked THEN o.mask[src[2]] ELSE Yes)
                         ELSE IF dst[1] = d THEN (IF o.masked THEN o.mask[src[1]] ELSE Yes) ELSE m[d]
        BY <1>1, <3>2
      <4> HIDE DEF k, g
      <4>3. CASE o.masked
        <5>1. o.mask[k] \in BOOLEAN
          BY <1>0, <4>1, <4>3 DEF Bits
        <5>2. g[d] = o.mask[k]
          BY ONLY <4>1, <4>3, <5>1
        <5> QED BY <4>2, <4>3, <5>1, <5>2 DEF Bits
      <4>4. CASE ~o.masked
        <5>1. g[d] = TRUE
          BY ONLY <4>1, <4>4
        <5> QED BY <4>2, <4>4, <5>1 DEF Bits, Yes
      <4> QED BY <1>0, <4>3, <4>4
    <3> QED BY <3>1, <3>2
  <2>2. g \in Seq(Bits) /\ Len(g) = Len(m)
    <3>1. g = [d \in 1..Len(m) |-> g[d]]
      BY <2>0
    <3> HIDE DEF g
    <3> QED BY <2>0, <2>1, <3>1
  <2> QED BY <2>1, <2>2 DEF AsPickedBits
<1> HIDE DEF g
<1>11. Put(b, a, e)
  BY <1>0, <1>4, DataPut
<1>12. b = [a EXCEPT !.data = e]
  BY <1>4
<1> HIDE DEF b, f
<1>13. CASE o.masked \/ a.masked
  <2>1. c = Fixed!Masked(b, g)
    BY <1>3, <1>13
  <2>2. Nulls(TRUE, g, x)
    BY <1>9, <1>10, NullsPicked
  <2> HIDE DEF c
  <2>3. Turned(c, b, a, x)
    BY <1>11, <2>1, <2>2, TurnMasked DEF Put
  <2> QED BY <1>6, <1>7, <1>8, <1>12, <2>3 DEF c
<1>14. CASE ~(o.masked \/ a.masked)
  <2>1. c = b
    BY <1>3, <1>14
  <2>2. (\A i \in 1..Len(w) : w[i] # <<>>) /\ (\A i \in 1..Len(y) : y[i] # <<>>)
    <3>1. \A i \in 1..Len(w) : w[i] # <<>>
      BY <1>0, <1>14 DEF Nulls
    <3>2. \A i \in 1..Len(y) : y[i] # <<>>
      BY <1>0, <1>14 DEF Nulls
    <3> QED BY <3>1, <3>2
  <2>3. ASSUME NEW i \in 1..Len(x) PROVE x[i] # <<>>
    <3>1. src[1] \in 1..Len(y) /\ src[2] \in 1..Len(y) /\ i \in 1..Len(w)
      BY <1>0 DEF AsPicked
    <3> QED BY <2>2, <3>1 DEF AsPicked
  <2>4. Nulls(a.masked, a.mask, x)
    BY <1>0, <1>14, <2>3 DEF Nulls
  <2> HIDE DEF c
  <2>5. Marks(b, x) /\ Rest(b, b) /\ Moved(b, a)
    BY <1>0, <1>11, <2>4 DEF Marks, Rest, Put, Moved, Fields
  <2>6. Turned(c, b, a, x)
    BY <2>1, <2>5, TurnedIs
  <2> QED BY <1>6, <1>7, <1>8, <1>12, <2>6 DEF c
<1> QED BY <1>13, <1>14

(* scatter of fixed-width arrays of one unit puts the other's rows at the  *)
(* places.                                                                 *)
LEMMA FixedScatter ==
  ASSUME NEW a, NEW w, FixedKept(a, w), a.masked => Len(a.mask) >= Len(w), NEW o, NEW y, FixedKept(o, y), o.unit = a.unit,
         o.masked => Len(o.mask) >= Len(y), NEW dst \in [1..2 -> 1..Len(w)], NEW src \in [1..2 -> 1..Len(y)],
         NEW x \in Seq(WantRow), AsPicked(x, w, y, dst, src)
  PROVE  LET c == Fixed!ScatterPrim(a, dst, o, src) IN Like(c, a) /\ FixedKept(c, x)
<1> DEFINE c == Fixed!ScatterPrim(a, dst, o, src)
<1>0. /\ Fields(a) /\ Frame(a, w) /\ a.data \in Seq(Int) /\ Len(a.data) = Len(w) /\ Pairs(Is(a.unit), a.data, w)
      /\ Nulls(o.masked, o.mask, y) /\ o.data \in Seq(Int) /\ Pairs(Is(a.unit), o.data, y) /\ Len(x) = Len(w)
  BY FixedOf DEF AsPicked
<1>1. PICK d \in Seq(Int) : Len(d) = Len(a.data) /\ Pairs(Is(a.unit), d, x) /\ Turned(c, [a EXCEPT !.data = d], a, x)
  BY <1>0, ScatterIs
<1>2. Put([a EXCEPT !.data = d], a, d)
  BY <1>0, DataPut
<1> HIDE DEF c
<1>3. Kept(Int, Is(a.unit), c, x)
  BY <1>0, <1>1, <1>2, KeptMade
<1>4. Like(c, a) /\ FixedKept(c, x)
  BY <1>1, <1>3, FixedTurned
<1> QED BY <1>4 DEF c

-----------------------------------------------------------------------------
(* Arrays of booleans                                                      *)

(* A boolean array that keeps the rows w: at least one bit a row, and a    *)
(* length of its own.                                                      *)
BoolKept(a, w) ==
  /\ Frame(a, w) /\ "len" \in DOMAIN a /\ a.data \in Seq(Bits) /\ a.len = Len(w) /\ Pairs(Is(a.unit), a.data, w)

(* Bits are cells.                                                         *)
LEMMA BitCell == (\A v \in Bits : v \in Cell) /\ Yes \in Bits /\ No \in Bits
BY YesNo DEF Cell, Bits

(* What is known of a boolean array that keeps the rows w.                 *)
LEMMA BoolOf ==
  ASSUME NEW a, NEW w, BoolKept(a, w)
  PROVE  /\ Frame(a, w) /\ Fields(a) /\ "len" \in DOMAIN a /\ a.unit \in Nat /\ a.masked \in BOOLEAN
         /\ a.data \in Seq(Bits) /\ w \in Seq(WantRow) /\ Len(w) \in Nat /\ a.len = Len(w) /\ Len(a.data) >= Len(w)
         /\ a.mask \in Seq(Bits) /\ Nulls(a.masked, a.mask, w) /\ Pairs(Is(a.unit), a.data, w)
BY MarksOf DEF BoolKept, Frame, Pairs

(* A boolean array made of bits that correspond to x, under a mask that    *)
(* marks the nulls of x, keeps x.                                          *)
LEMMA BoolMade ==
  ASSUME NEW a, NEW b, NEW c, NEW x, NEW d, Turned(c, b, a, x), Fields(a), "len" \in DOMAIN a, Put(b, a, d),
         b.len = Len(x), d \in Seq(Bits), Pairs(Is(a.unit), d, x)
  PROVE  Like(c, a) /\ BoolKept(c, x)
<1>1. c.data = d /\ c.len = b.len /\ c.unit = a.unit /\ "len" \in DOMAIN c
  BY DEF Turned, Rest, Put, Moved, Fields, Like
<1> QED BY <1>1 DEF Turned, BoolKept

(* Replacing the bits and the length moves nothing else.                   *)
LEMMA BoolsPut ==
  ASSUME NEW a, Fields(a), "len" \in DOMAIN a, NEW d, NEW n
  PROVE  Put(Bool!Bools(a, d, n), a, d) /\ Bool!Bools(a, d, n).len = n
BY DEF Put, Moved, Fields, Bool!Bools

(* An item written after the rows corresponds to one row more, whatever    *)
(* follows it.                                                             *)
LEMMA PairsPush ==
  ASSUME NEW S, NEW R, NEW c \in Seq(S), NEW w, Pairs(R, c, w), NEW v, NEW r \in WantRow, <<v, r>> \in R,
         NEW d \in Seq(S), Len(d) > Len(w), d[Len(w) + 1] = v, \A i \in 1..Len(w) : d[i] = c[i]
  PROVE  Pairs(R, d, w \o <<r>>)
<1>0. w \in Seq(WantRow)
  BY DEF Pairs
<1> DEFINE x == w \o <<r>>
<1>1. x \in Seq(WantRow) /\ Len(x) = Len(w) + 1 /\ x[Len(w) + 1] = r /\ \A i \in 1..Len(w) : x[i] = w[i]
  BY <1>0, OneMore
<1> HIDE DEF x
<1>2. ASSUME NEW i \in 1..Len(x) PROVE <<d[i], x[i]>> \in R
  <2>1. CASE i = Len(w) + 1
    BY <1>1, <2>1
  <2>2. CASE i # Len(w) + 1
    <3>1. i \in 1..Len(w)
      BY <1>0, <1>1, <2>2
    <3>2. d[i] = c[i] /\ x[i] = w[i]
      BY <1>1, <3>1
    <3> QED BY <3>1, <3>2 DEF Pairs
  <2> QED BY <2>1, <2>2
<1>3. Pairs(R, d, x)
  BY <1>0, <1>1, <1>2 DEF Pairs
<1> QED BY <1>3 DEF x

(* push of a boolean array adds the value's row, in the reserve or past    *)
(* it.                                                                     *)
LEMMA BoolPush ==
  ASSUME NEW a, NEW w, BoolKept(a, w), WholeAt(a, w), NEW v \in Bits
  PROVE  LET c == Bool!Push(a, v)
         IN  Like(c, a) /\ BoolKept(c, w \o <<Rowed(a.unit, v)>>) /\ (c.masked => Len(c.mask) >= Len(w))
<1> DEFINE r == Rowed(a.unit, v)
           n == Len(w) + 1
           d == Fixed!SetBits(a.data, Len(w), n, v)
           b == Bool!Bools(a, d, n)
           x == w \o <<r>>
           c == Fixed!ValidAt(b, n)
<1>0. /\ r \in WantRow /\ r # <<>> /\ <<v, r>> \in Is(a.unit) /\ Fields(a) /\ Frame(a, w) /\ Len(w) \in Nat /\ "len" \in DOMAIN a
      /\ a.len = Len(w) /\ a.data \in Seq(Bits) /\ Pairs(Is(a.unit), a.data, w) /\ Len(a.data) >= Len(w) /\ w \in Seq(WantRow)
  BY BoolOf, RowedIs, BitCell
<1>1. Put(b, a, d) /\ b.len = n
  BY <1>0, BoolsPut
<1>2. Bool!Push(a, v) = c
  <2>1. Fixed!SetBit(a.data, n, v) = d
    BY <1>0 DEF Fixed!SetBit
  <2> QED BY <1>0, <2>1, BoolSame DEF Bool!Push
<1> HIDE DEF r, b
<1>3. n \in Nat /\ n >= 1
  BY <1>0
<1>4. d \in Seq(Bits) /\ AsSetBits(d, a.data, Len(w), n, v)
  BY <1>0, <1>3, SetBitsIs, YesNo
<1> HIDE DEF d
<1>5. Len(d) > Len(w) /\ d[n] = v /\ \A i \in 1..Len(w) : d[i] = a.data[i]
  <2>1. Len(d) >= n /\ Len(d) \in Nat /\ \A i \in 1..Len(d) : d[i] = IF i > Len(w) /\ i <= n THEN v ELSE IF i <= Len(a.data) THEN a.data[i] ELSE No
    BY <1>0, <1>3, <1>4 DEF AsSetBits
  <2>2. Len(d) > Len(w) /\ n \in 1..Len(d) /\ n > Len(w) /\ n <= n
    BY <1>0, <2>1
  <2> HIDE DEF n
  <2>3. d[n] = v
    BY <2>1, <2>2
  <2>4. \A i \in 1..Len(w) : i \in 1..Len(d) /\ ~(i > Len(w)) /\ i <= Len(a.data)
    BY <1>0, <2>1, <2>2
  <2>5. \A i \in 1..Len(w) : d[i] = a.data[i]
    BY <2>1, <2>4
  <2> QED BY <2>2, <2>3, <2>5
<1>6. Pairs(Is(a.unit), d, x)
  BY <1>0, <1>4, <1>5, PairsPush
<1>7. Turned(c, b, a, x)
  BY <1>0, <1>1, TurnPush DEF Put
<1>8. Len(x) = n
  BY <1>0, OneMore
<1>9. c.masked => Len(c.mask) >= Len(w)
  <2>2. Moved(b, a) /\ (a.masked => Len(a.mask) >= Len(w))
    BY <1>0, <1>1, WholeFrame DEF Put
  <2> HIDE DEF n
  <2> QED BY <1>0, <1>3, <2>2, ValidGrows
<1> HIDE DEF c, x, n
<1>10. Like(c, a) /\ BoolKept(c, x)
  BY <1>0, <1>1, <1>4, <1>6, <1>7, <1>8, BoolMade
<1> QED BY <1>2, <1>9, <1>10 DEF r, x

(* Rows of a boolean array made null, over the bits that are there.        *)
LEMMA BoolNulled ==
  ASSUME NEW a, NEW w, BoolKept(a, w), NEW c, NEW x \in Seq(WantRow), Turned(c, a, a, x), Len(x) = Len(w),
         \A i \in 1..Len(x) : x[i] = w[i] \/ x[i] = <<>>
  PROVE  Like(c, a) /\ BoolKept(c, x)
<1>1. /\ Fields(a) /\ Frame(a, w) /\ a.unit \in Nat /\ a.data \in Seq(Bits) /\ a.len = Len(w) /\ Pairs(Is(a.unit), a.data, w)
      /\ "len" \in DOMAIN a
  BY BoolOf
<1>2. \A v \in Bits : <<v, <<>> >> \in Is(a.unit)
  BY <1>1, RowedIs, BitCell
<1>3. Pairs(Is(a.unit), a.data, x)
  BY <1>1, <1>2, PairsNull
<1>4. Put(a, a, a.data)
  BY DEF Put, Moved
<1> QED BY <1>1, <1>3, <1>4, BoolMade

(* Rows whose last becomes null.                                           *)
LEMMA LastNull ==
  ASSUME NEW w \in Seq(WantRow), NEW r \in WantRow
  PROVE  /\ Append(w, <<>>) \in Seq(WantRow) /\ Len(Append(w, <<>>)) = Len(w \o <<r>>)
         /\ \A i \in 1..Len(Append(w, <<>>)) : Append(w, <<>>)[i] = (w \o <<r>>)[i] \/ Append(w, <<>>)[i] = <<>>
<1> DEFINE x == Append(w, <<>>)
           z == w \o <<r>>
<1>1. Len(z) = Len(w) + 1 /\ \A i \in 1..Len(w) : z[i] = w[i]
  BY OneMore
<1>2. <<>> \in WantRow
  BY DEF WantRow
<1>3. x \in Seq(WantRow) /\ Len(x) = Len(w) + 1 /\ x[Len(w) + 1] = <<>> /\ \A i \in 1..Len(w) : x[i] = w[i]
  BY <1>2
<1> HIDE DEF x, z
<1>4. \A i \in 1..Len(x) : x[i] = z[i] \/ x[i] = <<>>
  BY <1>1, <1>3
<1> QED BY <1>1, <1>3, <1>4 DEF x, z

(* push_null of a boolean array adds a null.                               *)
LEMMA BoolPushNull ==
  ASSUME NEW a, NEW w, BoolKept(a, w), WholeAt(a, w)
  PROVE  LET c == Bool!PushNull(a) IN Like(c, a) /\ BoolKept(c, Append(w, <<>>))
<1> DEFINE b == Bool!Push(a, No)
           r == Rowed(a.unit, No)
           c == Fixed!NullTo(b, Len(w) + 1, 1)
           x == Append(w, <<>>)
           z == w \o <<r>>
<1>0. a.unit \in Nat /\ w \in Seq(WantRow) /\ a.len = Len(w) /\ r \in WantRow
  BY BoolOf, RowedIs, BitCell
<1>1. Like(b, a) /\ BoolKept(b, z) /\ (b.masked => Len(b.mask) >= Len(w))
  BY BoolPush, BitCell
<1>2. Bool!PushNull(a) = c
  BY <1>0, BoolSame DEF Bool!PushNull, No
<1> HIDE DEF b, r
<1>3. Frame(b, z)
  BY <1>1, BoolOf
<1>4. Turned(c, b, b, x)
  BY <1>0, <1>1, <1>3, TurnNullLast
<1>5. x \in Seq(WantRow) /\ Len(x) = Len(z) /\ \A i \in 1..Len(x) : x[i] = z[i] \/ x[i] = <<>>
  BY <1>0, LastNull
<1> HIDE DEF c, x, z
<1>6. Like(c, b) /\ BoolKept(c, x)
  BY <1>1, <1>4, <1>5, BoolNulled
<1>7. Like(c, a)
  BY <1>1, <1>6 DEF Like
<1> QED BY <1>2, <1>6, <1>7 DEF x

(* push_nulls of a boolean array adds that many nulls.                     *)
LEMMA BoolPushNulls ==
  ASSUME NEW a, NEW w, BoolKept(a, w), WholeAt(a, w), NEW k \in Nat
  PROVE  LET c == Bool!PushNulls(a, k) IN Like(c, a) /\ BoolKept(c, w \o Fixed!All(k, <<>>))
<1> DEFINE n == Len(w) + k
           d == Fixed!Fit(a.data, n, No)
           b == Bool!Bools(a, d, n)
           y == Fixed!All(k, <<>>)
           x == w \o y
           c == Fixed!NullTo(b, n, k)
<1>0. /\ Fields(a) /\ Frame(a, w) /\ Len(w) \in Nat /\ "len" \in DOMAIN a /\ a.unit \in Nat
      /\ a.len = Len(w) /\ a.data \in Seq(Bits) /\ Pairs(Is(a.unit), a.data, w) /\ Len(a.data) >= Len(w) /\ w \in Seq(WantRow)
      /\ <<>> \in WantRow
  BY BoolOf DEF WantRow
<1>1. Put(b, a, d) /\ b.len = n
  BY <1>0, BoolsPut
<1>2. Bool!PushNulls(a, k) = c
  BY <1>0, BoolSame DEF Bool!PushNulls, No
<1>3. n \in Nat
  BY <1>0
<1>4. Turned(c, b, a, x)
  BY <1>0, <1>1, TurnNulls DEF Put
<1> HIDE DEF b
<1>5. d \in Seq(Bits) /\ AsFit(d, a.data, n, No)
  BY <1>0, <1>3, FitIs, YesNo
<1>6. y \in Seq(WantRow) /\ Len(y) = k /\ \A i \in 1..k : y[i] = <<>>
  BY <1>0, AllIs, Zenon
<1> HIDE DEF y
<1>7. x \in Seq(WantRow) /\ AsJoin(x, w, y)
  BY <1>0, <1>6, JoinIs
<1> HIDE DEF x, d
<1>8. Len(x) = n /\ Len(d) = n
  BY <1>5, <1>6, <1>7 DEF AsJoin, AsFit
<1>9. ASSUME NEW i \in 1..Len(x) PROVE <<d[i], x[i]>> \in Is(a.unit)
  <2>1. CASE i <= Len(w)
    <3>1. x[i] = w[i] /\ d[i] = a.data[i] /\ i \in 1..Len(w)
      BY <1>0, <1>5, <1>7, <1>8, <2>1 DEF AsJoin, AsFit
    <3> QED BY <1>0, <3>1 DEF Pairs
  <2>2. CASE i > Len(w)
    <3>1. x[i] = y[i - Len(w)] /\ i - Len(w) \in 1..k
      BY <1>0, <1>7, <1>8, <2>2 DEF AsJoin
    <3>2. x[i] = <<>> /\ d[i] \in Bits
      BY <1>5, <1>6, <1>8, <3>1
    <3> QED BY <1>0, <3>2, RowedIs, BitCell
  <2> QED BY <1>0, <2>1, <2>2
<1>10. Pairs(Is(a.unit), d, x)
  BY <1>7, <1>8, <1>9, <1>3 DEF Pairs
<1> HIDE DEF n, c
<1>11. Like(c, a) /\ BoolKept(c, x)
  BY <1>0, <1>1, <1>4, <1>5, <1>8, <1>10, BoolMade
<1> QED BY <1>2, <1>11 DEF x, y

(* set_bits within the bits overwrites a range.                            *)
LEMMA SetBitsRange ==
  ASSUME NEW m \in Seq(Bits), NEW from \in Nat, NEW to \in Nat, to <= Len(m), NEW v \in Bits
  PROVE  Fixed!SetBits(m, from, to, v) \in Seq(Bits) /\ AsRange(Fixed!SetBits(m, from, to, v), m, from, to, v)
<1> DEFINE t == Fixed!SetBits(m, from, to, v)
<1>1. t \in Seq(Bits) /\ AsSetBits(t, m, from, to, v)
  BY SetBitsIs, YesNo
<1> HIDE DEF t
<1>2. Len(t) = Len(m)
  BY <1>1 DEF AsSetBits
<1>3. \A i \in 1..Len(m) : t[i] = IF i > from /\ i <= to THEN v ELSE m[i]
  BY <1>1, <1>2 DEF AsSetBits
<1>4. AsRange(t, m, from, to, v)
  BY <1>2, <1>3 DEF AsRange
<1> QED BY <1>1, <1>4 DEF t

(* set of a boolean array replaces one row.                                *)
LEMMA BoolSet ==
  ASSUME NEW a, NEW w, BoolKept(a, w), WholeAt(a, w), NEW i \in 1..Len(w), NEW v \in Bits
  PROVE  LET c == Bool!Set(a, i, v) IN Like(c, a) /\ BoolKept(c, [w EXCEPT ![i] = Rowed(a.unit, v)])
<1> DEFINE r == Rowed(a.unit, v)
           d == Fixed!SetBits(a.data, i - 1, i, v)
           b == [a EXCEPT !.data = d]
           x == [w EXCEPT ![i] = r]
           c == Fixed!ValidAt(b, i)
<1>0. /\ r \in WantRow /\ r # <<>> /\ <<v, r>> \in Is(a.unit) /\ Fields(a) /\ Frame(a, w) /\ Len(w) \in Nat /\ "len" \in DOMAIN a
      /\ a.len = Len(w) /\ a.data \in Seq(Bits) /\ Pairs(Is(a.unit), a.data, w) /\ Len(a.data) >= Len(w) /\ w \in Seq(WantRow)
  BY BoolOf, RowedIs, BitCell
<1>1. Put(b, a, d) /\ b.len = a.len
  BY <1>0, DataPut
<1>2. Bool!Set(a, i, v) = c
  <2>1. Fixed!SetBit(a.data, i, v) = d
    BY DEF Fixed!SetBit
  <2> QED BY <2>1, BoolSame DEF Bool!Set
<1> HIDE DEF r, b
<1>3. i \in Nat /\ i - 1 \in Nat /\ i <= Len(a.data)
  BY <1>0
<1>4. d \in Seq(Bits) /\ AsRange(d, a.data, i - 1, i, v)
  BY <1>0, <1>3, SetBitsRange
<1>5. x \in Seq(WantRow) /\ AsRange(x, w, i - 1, i, r)
  BY <1>0, SetIs
<1>7. Turned(c, b, a, x)
  BY <1>0, <1>1, TurnSet DEF Put
<1> HIDE DEF d, x, c
<1>6. Pairs(Is(a.unit), d, x)
  BY <1>0, <1>3, <1>4, <1>5, PairsRange
<1>8. Len(x) = Len(w)
  BY <1>5 DEF AsRange
<1>10. Like(c, a) /\ BoolKept(c, x)
  BY <1>0, <1>1, <1>4, <1>6, <1>7, <1>8, BoolMade
<1> QED BY <1>2, <1>10 DEF r, x

(* A range set in a boolean array replaces those rows.                     *)
LEMMA BoolSetRange ==
  ASSUME NEW a, NEW w, BoolKept(a, w), WholeAt(a, w), NEW from \in Nat, NEW to \in Nat, from <= to, to <= Len(w), NEW v \in Bits,
         NEW x \in Seq(WantRow), AsRange(x, w, from, to, Rowed(a.unit, v))
  PROVE  LET c == Bool!SetRange(a, from, to, v) IN Like(c, a) /\ BoolKept(c, x)
<1> DEFINE r == Rowed(a.unit, v)
           d == Fixed!SetBits(a.data, from, to, v)
           b == [a EXCEPT !.data = d]
           c == Fixed!OnMask(b, Fixed!SetBits(a.mask, from, to, TRUE))
<1>0. /\ r \in WantRow /\ r # <<>> /\ <<v, r>> \in Is(a.unit) /\ Fields(a) /\ Frame(a, w) /\ Len(w) \in Nat /\ "len" \in DOMAIN a
      /\ a.len = Len(w) /\ a.data \in Seq(Bits) /\ Pairs(Is(a.unit), a.data, w) /\ Len(a.data) >= Len(w) /\ w \in Seq(WantRow)
  BY BoolOf, RowedIs, BitCell
<1>1. Put(b, a, d) /\ b.len = a.len
  BY <1>0, DataPut
<1>2. Bool!SetRange(a, from, to, v) = c
  BY BoolSame DEF Bool!SetRange
<1> HIDE DEF b
<1>3. to <= Len(a.data)
  BY <1>0
<1>4. d \in Seq(Bits) /\ AsRange(d, a.data, from, to, v)
  BY <1>0, <1>3, SetBitsRange
<1>7. Turned(c, b, a, x)
  BY <1>0, <1>1, TurnRange DEF Put
<1> HIDE DEF d, c
<1>6. Pairs(Is(a.unit), d, x)
  BY <1>0, <1>3, <1>4, PairsRange
<1>8. Len(x) = Len(w)
  BY DEF AsRange
<1>10. Like(c, a) /\ BoolKept(c, x)
  BY <1>0, <1>1, <1>4, <1>6, <1>7, <1>8, BoolMade
<1> QED BY <1>2, <1>10

(* A range deleted from a boolean array takes those rows away, when no     *)
(* bits follow the last row.                                               *)
LEMMA BoolDelete ==
  ASSUME NEW a, NEW w, BoolKept(a, w), WholeAt(a, w), Len(a.data) = Len(w), NEW from \in Nat, NEW to \in Nat, from <= to, to <= Len(w)
  PROVE  LET c == Bool!DeleteRange(a, from, to) IN Like(c, a) /\ BoolKept(c, Fixed!Without(w, from, to))
<1> DEFINE d == Fixed!Without(a.data, from, to)
           b == Bool!Bools(a, d, Len(d))
           x == Fixed!Without(w, from, to)
           c == Fixed!OnMask(b, Fixed!Without(a.mask, from, to))
<1>0. /\ Fields(a) /\ Frame(a, w) /\ "len" \in DOMAIN a /\ a.data \in Seq(Bits) /\ Pairs(Is(a.unit), a.data, w) /\ w \in Seq(WantRow)
  BY BoolOf
<1>1. Put(b, a, d) /\ b.len = Len(d)
  BY <1>0, BoolsPut
<1>2. Bool!DeleteRange(a, from, to) = c
  BY BoolSame DEF Bool!DeleteRange
<1> HIDE DEF b
<1>4. d \in Seq(Bits) /\ AsWithout(d, a.data, from, to) /\ x \in Seq(WantRow) /\ AsWithout(x, w, from, to)
  BY <1>0, WithoutIs
<1>5. Len(d) = Len(x)
  BY <1>4 DEF AsWithout
<1>6. Pairs(Is(a.unit), d, x)
  BY <1>0, PairsWithout
<1>7. Turned(c, b, a, x)
  BY <1>0, <1>1, TurnDelete DEF Put
<1> HIDE DEF d, c, x
<1>10. Like(c, a) /\ BoolKept(c, x)
  BY <1>0, <1>1, <1>4, <1>5, <1>6, <1>7, BoolMade
<1> QED BY <1>2, <1>10 DEF x

(* slice_clone of a boolean array keeps the rows of the window.            *)
LEMMA BoolSlice ==
  ASSUME NEW a, NEW w, BoolKept(a, w), a.masked => Len(a.mask) >= Len(w), NEW from \in Nat, NEW n \in Nat, from + n <= Len(w)
  PROVE  LET c == Bool!SliceClone(a, from, n) IN Like(c, a) /\ BoolKept(c, Fixed!Window(w, from, n))
<1> DEFINE d == Fixed!Window(a.data, from, n)
           b == Bool!Bools(a, d, n)
           x == Fixed!Window(w, from, n)
           c == Fixed!OnMask(b, Fixed!Window(a.mask, from, n))
<1>0. /\ Fields(a) /\ Frame(a, w) /\ "len" \in DOMAIN a /\ a.data \in Seq(Bits) /\ Pairs(Is(a.unit), a.data, w) /\ w \in Seq(WantRow)
      /\ from + n <= Len(a.data)
  BY BoolOf
<1>1. Put(b, a, d) /\ b.len = n
  BY <1>0, BoolsPut
<1>2. Bool!SliceClone(a, from, n) = c
  BY BoolSame DEF Bool!SliceClone
<1> HIDE DEF b
<1>4. d \in Seq(Bits) /\ AsWindow(d, a.data, from, n) /\ x \in Seq(WantRow) /\ AsWindow(x, w, from, n)
  BY <1>0, WindowIs
<1>5. Len(x) = n
  BY <1>4 DEF AsWindow
<1>6. Pairs(Is(a.unit), d, x)
  BY <1>0, PairsWindow
<1>7. Turned(c, b, a, x)
  BY <1>0, <1>1, TurnWindow DEF Put
<1> HIDE DEF d, c, x
<1>10. Like(c, a) /\ BoolKept(c, x)
  BY <1>0, <1>1, <1>4, <1>5, <1>6, <1>7, BoolMade
<1> QED BY <1>2, <1>10 DEF x

(* The items that follow the rows may go.                                  *)
LEMMA PairsFirst ==
  ASSUME NEW S, NEW R, NEW c \in Seq(S), NEW w, Pairs(R, c, w), NEW n \in Nat, n = Len(w)
  PROVE  SubSeq(c, 1, n) \in Seq(S) /\ Len(SubSeq(c, 1, n)) = n /\ Pairs(R, SubSeq(c, 1, n), w)
<1> DEFINE d == SubSeq(c, 1, n)
<1>1. d \in Seq(S) /\ Len(d) = n /\ \A i \in 1..n : d[i] = c[i]
  BY DEF Pairs
<1> HIDE DEF d
<1>2. Pairs(R, d, w)
  BY <1>1, PairsPrefix
<1> QED BY <1>1, <1>2 DEF d

(* The length of two sequences joined.                                     *)
LEMMA JoinLen ==
  ASSUME NEW S, NEW s \in Seq(S), NEW t \in Seq(S)
  PROVE  s \o t \in Seq(S) /\ Len(s \o t) = Len(s) + Len(t) /\ Len(s) \in Nat /\ Len(t) \in Nat
OBVIOUS

(* Setting the bits of rows that are valid changes no row.                 *)
LEMMA NullsSet ==
  ASSUME NEW k, NEW m, NEW w, Nulls(k, m, w), NEW from \in Nat, NEW to \in Nat, k => from <= Len(m),
         from <= to, to <= Len(w), \A i \in 1..Len(w) : i > from /\ i <= to => w[i] # <<>>
  PROVE  Nulls(k, IF k THEN Fixed!SetBits(m, from, to, Yes) ELSE m, w)
<1>1. w \in Seq(WantRow)
  BY DEF Nulls
<1>2. \A i \in 1..Len(w) : w[i] = <<>> <=> ~(i > from /\ i <= to) /\ w[i] = <<>>
  OBVIOUS
<1> QED BY ONLY <1>1, <1>2, NullsValid, Nulls(k, m, w), from \in Nat, to \in Nat, k => from <= Len(m), from <= to, to <= Len(w)

(* resize of a boolean array to the rows it has changes none.              *)
LEMMA BoolResize ==
  ASSUME NEW a, NEW w, BoolKept(a, w), WholeAt(a, w), NEW v \in Bits
  PROVE  LET c == Bool!Resize(a, Len(w), v) IN Like(c, a) /\ BoolKept(c, Fixed!Fit(w, Len(w), Rowed(a.unit, v)))
<1> DEFINE n == Len(w)
           r == Rowed(a.unit, v)
           d == Fixed!Fit(a.data, n, v)
           b == [a EXCEPT !.data = d]
           x == Fixed!Fit(w, n, r)
<1>0. /\ r \in WantRow /\ r # <<>> /\ Fields(a) /\ Frame(a, w) /\ n \in Nat /\ "len" \in DOMAIN a
      /\ a.len = n /\ a.data \in Seq(Bits) /\ Pairs(Is(a.unit), a.data, w) /\ Len(a.data) >= n /\ w \in Seq(WantRow)
  BY BoolOf, RowedIs, BitCell
<1>1. Put(b, a, d) /\ b.len = a.len
  BY <1>0, DataPut
<1>2. Bool!Resize(a, n, v) = b
  BY BoolSame DEF Bool!Resize
<1>3. Turned(b, b, a, x)
  BY <1>0, <1>1, TurnFit DEF Put
<1>4. d \in Seq(Bits) /\ AsFit(d, a.data, n, v) /\ x \in Seq(WantRow) /\ AsFit(x, w, n, r)
  BY <1>0, FitIs
<1> HIDE DEF b, d, x, r
<1>5. Len(d) = Len(x) /\ Len(x) = n
  BY <1>4 DEF AsFit
<1>6. ASSUME NEW i \in 1..Len(x) PROVE <<d[i], x[i]>> \in Is(a.unit)
  <2>1. d[i] = a.data[i] /\ x[i] = w[i] /\ i \in 1..Len(w)
    BY <1>0, <1>4, <1>5 DEF AsFit
  <2> QED BY <1>0, <2>1 DEF Pairs
<1>7. Pairs(Is(a.unit), d, x)
  BY <1>0, <1>4, <1>5, <1>6 DEF Pairs
<1>8. Like(b, a) /\ BoolKept(b, x)
  BY <1>0, <1>1, <1>3, <1>4, <1>5, <1>7, BoolMade
<1> QED BY <1>2, <1>8 DEF x, r

(* append_array of a boolean array adds the other's rows, when no bits     *)
(* follow the last row and the masks can be joined.                        *)
LEMMA BoolAppend ==
  ASSUME NEW a, NEW w, BoolKept(a, w), WholeAt(a, w), Len(a.data) = Len(w), NEW o, NEW y, BoolKept(o, y), o.unit = a.unit,
         a.masked /\ o.masked => Len(a.mask) = Len(w), o.masked => Len(o.mask) >= Len(y)
  PROVE  LET c == Bool!AppendArray(a, o) IN Like(c, a) /\ BoolKept(c, w \o y)
<1> DEFINE e == SubSeq(o.data, 1, Len(y))
           d == a.data \o e
           n == Len(w) + Len(y)
           b == Bool!Bools(a, d, n)
           x == w \o y
           m == Fixed!RowBits(a, o, Len(y))
           c == Fixed!Extended(b, Len(w), o.masked, m, Len(y))
<1>0. /\ Fields(a) /\ Frame(a, w) /\ "len" \in DOMAIN a /\ a.data \in Seq(Bits) /\ Pairs(Is(a.unit), a.data, w) /\ w \in Seq(WantRow)
      /\ a.len = Len(w) /\ o.len = Len(y) /\ y \in Seq(WantRow) /\ Len(y) \in Nat
      /\ Nulls(o.masked, o.mask, y) /\ o.data \in Seq(Bits) /\ Pairs(Is(a.unit), o.data, y)
  BY BoolOf
<1>1. Put(b, a, d) /\ b.len = n
  BY <1>0, BoolsPut
<1>2. Bool!AppendArray(a, o) = c
  BY <1>0, BoolSame DEF Bool!AppendArray
<1>9. Nulls(o.masked, m, y)
  BY <1>0, NullsRowBits
<1> HIDE DEF m
<1>3. Turned(c, b, a, x)
  BY <1>0, <1>1, <1>9, TurnExtended DEF Put
<1> HIDE DEF b
<1>4. e \in Seq(Bits) /\ Len(e) = Len(y) /\ Pairs(Is(a.unit), e, y)
  BY <1>0, PairsFirst
<1> HIDE DEF e
<1>5. d \in Seq(Bits) /\ Pairs(Is(a.unit), d, x)
  BY <1>0, <1>4, PairsJoin
<1>6. Len(x) = n
  BY <1>0, JoinIs DEF AsJoin
<1> HIDE DEF c, d, x, n
<1>8. Like(c, a) /\ BoolKept(c, x)
  BY <1>0, <1>1, <1>3, <1>5, <1>6, BoolMade
<1> QED BY <1>2, <1>8 DEF x

(* append_range of a boolean array adds the rows of the window, on the     *)
(* same conditions.                                                        *)
LEMMA BoolAppendRange ==
  ASSUME NEW a, NEW w, BoolKept(a, w), WholeAt(a, w), Len(a.data) = Len(w), NEW o, NEW y, BoolKept(o, y), o.unit = a.unit,
         a.masked /\ o.masked => Len(a.mask) = Len(w), o.masked => Len(o.mask) >= Len(y),
         NEW from \in Nat, NEW n \in Nat, from + n <= Len(y)
  PROVE  LET c == Bool!AppendRange(a, o, from, n) IN Like(c, a) /\ BoolKept(c, w \o Fixed!Window(y, from, n))
<1> DEFINE z == Fixed!Window(y, from, n)
           e == Fixed!Window(o.data, from, n)
           q == IF o.masked THEN Fixed!Window(o.mask, from, n) ELSE o.mask
           m == Fixed!Window(o.mask, from, n)
           d == a.data \o e
           b == Bool!Bools(a, d, Len(w) + n)
           x == w \o z
           c == Fixed!Extended(b, Len(w), o.masked, m, Len(z))
<1>0. /\ Fields(a) /\ Frame(a, w) /\ "len" \in DOMAIN a /\ a.data \in Seq(Bits) /\ Pairs(Is(a.unit), a.data, w) /\ w \in Seq(WantRow)
      /\ a.len = Len(w) /\ o.len = Len(y) /\ y \in Seq(WantRow) /\ Len(y) \in Nat /\ from + n <= Len(o.data)
      /\ Nulls(o.masked, o.mask, y) /\ o.data \in Seq(Bits) /\ Pairs(Is(a.unit), o.data, y)
  BY BoolOf
<1>1. Put(b, a, d) /\ b.len = Len(w) + n
  BY <1>0, BoolsPut
<1>2. z \in Seq(WantRow) /\ AsWindow(z, y, from, n) /\ e \in Seq(Bits) /\ AsWindow(e, o.data, from, n)
  BY <1>0, WindowIs
<1>3. Len(z) = n
  BY <1>2 DEF AsWindow
<1>4. Bool!AppendRange(a, o, from, n) = c
  BY <1>0, <1>3, BoolSame DEF Bool!AppendRange
<1>5. Nulls(o.masked, q, z)
  BY <1>0, NullsWindow
<1>6. o.masked => q = m
  OBVIOUS
<1>7. Pairs(Is(a.unit), e, z)
  BY <1>0, PairsWindow
<1> HIDE DEF b, q, m, z, e
<1>8. Turned(c, b, a, x)
  BY <1>0, <1>1, <1>5, <1>6, TurnExtended DEF Put
<1>9. d \in Seq(Bits) /\ Pairs(Is(a.unit), d, x)
  BY <1>0, <1>2, <1>7, PairsJoin
<1>10. Len(x) = Len(w) + n
  BY <1>0, <1>2, <1>3, JoinLen
<1> HIDE DEF c, d, x
<1>11. Like(c, a) /\ BoolKept(c, x)
  BY <1>0, <1>1, <1>8, <1>9, <1>10, BoolMade
<1> QED BY <1>4, <1>11 DEF x, z

(* insert_rows of a boolean array puts the other's rows in at the place;   *)
(* bits that follow the last row go.                                       *)
LEMMA BoolInsert ==
  ASSUME NEW a, NEW w, BoolKept(a, w), WholeAt(a, w), NEW o, NEW y, BoolKept(o, y), o.unit = a.unit,
         o.masked => Len(o.mask) >= Len(y), NEW at \in Nat, at <= Len(w)
  PROVE  LET c == Bool!InsertRows(a, at, o) IN Like(c, a) /\ BoolKept(c, Fixed!Spliced(w, at, y))
<1>10. CASE Len(y) = 0
  <2>1. o.len = 0 /\ w \in Seq(WantRow) /\ y \in Seq(WantRow)
    BY <1>10, BoolOf
  <2>2. Bool!InsertRows(a, at, o) = a
    BY <2>1 DEF Bool!InsertRows
  <2>3. Fixed!Spliced(w, at, y) = w
    BY <1>10, <2>1, SplicedNone
  <2> QED BY <2>2, <2>3 DEF Like
<1> SUFFICES ASSUME Len(y) # 0
             PROVE  LET c == Bool!InsertRows(a, at, o) IN Like(c, a) /\ BoolKept(c, Fixed!Spliced(w, at, y))
  BY <1>10
<1> DEFINE f == SubSeq(a.data, 1, Len(w))
           e == SubSeq(o.data, 1, Len(y))
           d == Fixed!Spliced(f, at, e)
           n == Len(w) + Len(y)
           b == Bool!Bools(a, d, n)
           x == Fixed!Spliced(w, at, y)
           c == Fixed!Inserted(b, Len(w), at, o.masked, o.mask, Len(y))
<1>0. /\ Fields(a) /\ Frame(a, w) /\ "len" \in DOMAIN a /\ a.data \in Seq(Bits) /\ Pairs(Is(a.unit), a.data, w) /\ w \in Seq(WantRow)
      /\ a.len = Len(w) /\ o.len = Len(y) /\ y \in Seq(WantRow) /\ Len(y) \in Nat /\ Len(w) \in Nat
      /\ Nulls(o.masked, o.mask, y) /\ o.data \in Seq(Bits) /\ Pairs(Is(a.unit), o.data, y)
  BY BoolOf
<1>1. Put(b, a, d) /\ b.len = n
  BY <1>0, BoolsPut
<1>2. Bool!InsertRows(a, at, o) = c
  BY <1>0, BoolSame DEF Bool!InsertRows
<1>3. Turned(c, b, a, x)
  BY <1>0, <1>1, TurnInserted DEF Put
<1> HIDE DEF b
<1>4. e \in Seq(Bits) /\ Len(e) = Len(y) /\ Pairs(Is(a.unit), e, y)
  BY <1>0, PairsFirst
<1>5. f \in Seq(Bits) /\ Len(f) = Len(w) /\ Pairs(Is(a.unit), f, w)
  BY <1>0, PairsFirst
<1> HIDE DEF e, f
<1>6. Pairs(Is(a.unit), d, x)
  BY <1>4, <1>5, PairsSpliced
<1>7. d \in Seq(Bits) /\ AsSpliced(d, f, at, e) /\ x \in Seq(WantRow) /\ AsSpliced(x, w, at, y)
  BY <1>0, <1>4, <1>5, SplicedIs
<1>8. Len(x) = n
  BY <1>7 DEF AsSpliced
<1> HIDE DEF c, d, x, n
<1>9. Like(c, a) /\ BoolKept(c, x)
  BY <1>0, <1>1, <1>3, <1>6, <1>7, <1>8, BoolMade
<1> QED BY <1>2, <1>9 DEF x

(* A window from the start is a beginning.                                 *)
LEMMA WindowFirst ==
  ASSUME NEW s, NEW n \in Nat
  PROVE  Fixed!Window(s, 0, n) = SubSeq(s, 1, n)
BY DEF Fixed!Window

(* split of a boolean array: the first rows, and the rest.                 *)
LEMMA BoolSplit ==
  ASSUME NEW a, NEW w, BoolKept(a, w), WholeAt(a, w), NEW at \in Nat, at <= Len(w)
  PROVE  LET h == Bool!Split(a, at)
         IN  /\ Like(h[1], a) /\ BoolKept(h[1], SubSeq(w, 1, at))
             /\ Like(h[2], a) /\ BoolKept(h[2], Fixed!Without(w, 0, at))
<1> DEFINE d == Fixed!Without(a.data, 0, at)
           b == Bool!Bools(a, d, Len(w) - at)
           x == Fixed!Without(w, 0, at)
           c == Fixed!OnMask(b, Fixed!Without(a.mask, 0, at))
<1>0. /\ Fields(a) /\ Frame(a, w) /\ "len" \in DOMAIN a /\ a.data \in Seq(Bits) /\ Pairs(Is(a.unit), a.data, w) /\ w \in Seq(WantRow)
      /\ at <= Len(a.data) /\ a.len = Len(w) /\ (a.masked => Len(a.mask) >= Len(w)) /\ Len(w) \in Nat
  BY BoolOf, WholeFrame
<1>1. Bool!Split(a, at)[1] = Bool!SliceClone(a, 0, at)
  BY WindowFirst, BoolSame DEF Bool!Split, Bool!SliceClone
<1>2. Bool!Split(a, at)[2] = c
  BY <1>0, BoolSame DEF Bool!Split
<1>3. Like(Bool!SliceClone(a, 0, at), a) /\ BoolKept(Bool!SliceClone(a, 0, at), Fixed!Window(w, 0, at))
  BY <1>0, BoolSlice
<1>4. Put(b, a, d) /\ b.len = Len(w) - at
  BY <1>0, BoolsPut
<1> HIDE DEF b
<1>5. d \in Seq(Bits) /\ AsWithout(d, a.data, 0, at) /\ x \in Seq(WantRow) /\ AsWithout(x, w, 0, at)
  BY <1>0, WithoutIs
<1>6. Pairs(Is(a.unit), d, x)
  BY <1>0, PairsWithout
<1>7. Turned(c, b, a, x)
  BY <1>0, <1>4, TurnDelete DEF Put
<1>8. Len(x) = Len(w) - at
  BY <1>0, <1>5 DEF AsWithout
<1> HIDE DEF d, c, x
<1>10. Like(c, a) /\ BoolKept(c, x)
  BY <1>0, <1>4, <1>5, <1>6, <1>7, <1>8, BoolMade
<1> QED BY <1>1, <1>2, <1>3, <1>10, WindowFirst DEF x

(* extend_from_slice of a boolean array adds the values' rows.             *)
LEMMA BoolExtend ==
  ASSUME NEW a, NEW w, BoolKept(a, w), WholeAt(a, w), NEW v \in Bits, NEW u \in Bits
  PROVE  LET c == Bool!ExtendFromSlice(a, <<v, u>>)
         IN  Like(c, a) /\ BoolKept(c, w \o <<Rowed(a.unit, v), Rowed(a.unit, u)>>)
<1> DEFINE y == <<Rowed(a.unit, v), Rowed(a.unit, u)>>
           e == <<v, u>>
           f == SubSeq(a.data, 1, Len(w))
           d == f \o e
           n == Len(w) + Len(y)
           b == Bool!Bools(a, d, n)
           x == w \o y
           c == Fixed!OnMask(b, Fixed!Fit(a.mask, n, TRUE))
<1>0. /\ Fields(a) /\ Frame(a, w) /\ "len" \in DOMAIN a /\ a.data \in Seq(Bits) /\ Pairs(Is(a.unit), a.data, w) /\ w \in Seq(WantRow)
      /\ a.len = Len(w) /\ Len(w) \in Nat /\ a.unit \in Nat
  BY BoolOf
<1>1. Put(b, a, d) /\ b.len = n
  BY <1>0, BoolsPut
<1>2. Bool!ExtendFromSlice(a, <<v, u>>) = c
  BY <1>0, BoolSame DEF Bool!ExtendFromSlice
<1>3. /\ Rowed(a.unit, v) \in WantRow /\ Rowed(a.unit, v) # <<>> /\ <<v, Rowed(a.unit, v)>> \in Is(a.unit)
      /\ Rowed(a.unit, u) \in WantRow /\ Rowed(a.unit, u) # <<>> /\ <<u, Rowed(a.unit, u)>> \in Is(a.unit)
  BY <1>0, RowedIs, BitCell
<1>4. y \in Seq(WantRow) /\ Len(y) = 2 /\ (\A i \in 1..Len(y) : y[i] # <<>>) /\ Pairs(Is(a.unit), e, y)
  BY <1>0, <1>3, TwoMore, PairsTwo
<1>5. e \in Seq(Bits) /\ Len(e) = 2
  OBVIOUS
<1>6. f \in Seq(Bits) /\ Len(f) = Len(w) /\ Pairs(Is(a.unit), f, w)
  BY <1>0, PairsFirst
<1> HIDE DEF y, e, f, b
<1>7. d \in Seq(Bits) /\ Pairs(Is(a.unit), d, x)
  BY <1>4, <1>5, <1>6, PairsJoin
<1>8. Turned(c, b, a, x)
  BY <1>0, <1>1, <1>4, TurnMore DEF Put
<1>9. Len(x) = n
  BY <1>0, <1>4, JoinIs DEF AsJoin
<1> HIDE DEF c, d, x, n
<1>10. Like(c, a) /\ BoolKept(c, x)
  BY <1>0, <1>1, <1>7, <1>8, <1>9, BoolMade
<1> QED BY <1>2, <1>10 DEF x, y

(* push_bits of a boolean array adds the bits' rows after the last, in the *)
(* reserve or past it.                                                     *)
LEMMA BoolPushBits ==
  ASSUME NEW a, NEW w, BoolKept(a, w), WholeAt(a, w), NEW v \in Bits, NEW u \in Bits
  PROVE  LET c == Bool!PushBits(a, <<v, u>>)
         IN  Like(c, a) /\ BoolKept(c, w \o <<Rowed(a.unit, v), Rowed(a.unit, u)>>)
<1> DEFINE y == <<Rowed(a.unit, v), Rowed(a.unit, u)>>
           e == <<v, u>>
           f == SubSeq(a.data, 1, Len(w))
           n == Len(w) + Len(y)
           t == Fixed!Without(a.data, 0, n)
           g == (f \o e) \o t
           k == IF n > Len(a.data) THEN n ELSE Len(a.data)
           d == Fixed!Fit(g, k, No)
           b == Bool!Bools(a, d, n)
           x == w \o y
           c == Fixed!OnMask(b, Fixed!SetBits(a.mask, Len(w), n, TRUE))
<1>0. /\ Fields(a) /\ Frame(a, w) /\ "len" \in DOMAIN a /\ a.data \in Seq(Bits) /\ Pairs(Is(a.unit), a.data, w) /\ w \in Seq(WantRow)
      /\ a.len = Len(w) /\ Len(w) \in Nat /\ a.unit \in Nat /\ Len(a.data) \in Nat
  BY BoolOf
<1>1. Put(b, a, d) /\ b.len = n
  BY <1>0, BoolsPut
<1>2. Bool!PushBits(a, <<v, u>>) = c
  BY <1>0, BoolSame DEF Bool!PushBits, No
<1>3. /\ Rowed(a.unit, v) \in WantRow /\ Rowed(a.unit, v) # <<>> /\ <<v, Rowed(a.unit, v)>> \in Is(a.unit)
      /\ Rowed(a.unit, u) \in WantRow /\ Rowed(a.unit, u) # <<>> /\ <<u, Rowed(a.unit, u)>> \in Is(a.unit)
  BY <1>0, RowedIs, BitCell
<1>4. y \in Seq(WantRow) /\ Len(y) = 2 /\ (\A i \in 1..Len(y) : y[i] # <<>>) /\ Pairs(Is(a.unit), e, y)
  BY <1>0, <1>3, TwoMore, PairsTwo
<1>5. e \in Seq(Bits) /\ Len(e) = 2
  OBVIOUS
<1>6. f \in Seq(Bits) /\ Len(f) = Len(w) /\ Pairs(Is(a.unit), f, w)
  BY <1>0, PairsFirst
<1>14. n \in Nat /\ k \in Nat /\ n <= k /\ n = Len(w) + 2
  BY <1>0, <1>4
<1>15. t \in Seq(Bits)
  BY <1>0, <1>14 DEF Fixed!Without
<1> HIDE DEF y, e, f, b, t
<1> DEFINE h == f \o e
<1>7. h \in Seq(Bits) /\ Pairs(Is(a.unit), h, x)
  BY <1>4, <1>5, <1>6, PairsJoin
<1>21. Len(f \o e) = Len(f) + Len(e)
  BY ONLY <1>5, <1>6, JoinLen
<1>16. Len(h) = n
  BY ONLY <1>5, <1>6, <1>14, <1>21
<1> HIDE DEF h
<1>17. g \in Seq(Bits) /\ AsJoin(g, h, t)
  BY <1>7, <1>15, JoinIs DEF h
<1> HIDE DEF g, k
<1>18. d \in Seq(Bits) /\ AsFit(d, g, k, No)
  BY <1>14, <1>17, FitIs, YesNo
<1>9. x \in Seq(WantRow) /\ Len(x) = n
  BY <1>0, <1>4, JoinIs DEF AsJoin
<1> HIDE DEF d, n
<1>19. Len(d) >= Len(x) /\ \A i \in 1..Len(x) : d[i] = h[i]
  BY <1>9, <1>14, <1>15, <1>16, <1>17, <1>18 DEF AsJoin, AsFit
<1>20. Pairs(Is(a.unit), d, x)
  BY <1>7, <1>19, PairsPrefix
<1> HIDE DEF x
<1>8. Turned(c, b, a, x)
  <2>0. Moved(b, a)
    BY <1>1 DEF Put
  <2>1. Turned(b, b, a, x)
    BY <1>0, <1>4, <2>0, TurnMore DEF x
  <2>2. Frame(b, x) /\ b.mask = a.mask /\ b.masked = a.masked /\ (b.masked => Len(w) <= Len(b.mask))
    BY <1>0, <2>0, <2>1, MovedMarks, WholeFrame DEF Turned
  <2> DEFINE r == Rowed(a.unit, v)
             p == Fixed!SetBits(a.mask, Len(w), n, Yes)
  <2>3. Nulls(a.masked, a.mask, x)
    BY <2>2 DEF Frame, Marks
  <2>4. \A i \in 1..Len(x) : i > Len(w) /\ i <= n => x[i] # <<>>
    <3>1. x \in Seq(WantRow) /\ AsJoin(x, w, y)
      BY <1>0, <1>4, JoinIs DEF x
    <3> SUFFICES ASSUME NEW i \in 1..Len(x), i > Len(w) PROVE x[i] # <<>>
      OBVIOUS
    <3>2. x[i] = y[i - Len(w)] /\ i - Len(w) \in 1..Len(y)
      BY <1>0, <1>4, <3>1 DEF AsJoin
    <3> QED BY <1>4, <3>2
  <2>5. Nulls(a.masked, IF a.masked THEN p ELSE a.mask, x)
    BY <1>0, <1>9, <1>14, <2>2, <2>3, <2>4, NullsSet
  <2>6. p = Fixed!SetBits(a.mask, Len(w), n, TRUE)
    BY DEF Yes
  <2> HIDE DEF p
  <2>7. Rest(c, b) /\ Marks(c, x)
    BY <2>2, <2>5, <2>6, OnMaskIs DEF Frame
  <2> HIDE DEF c
  <2> QED BY <1>0, <2>0, <2>7, TurnedIs
<1> HIDE DEF c
<1>10. Like(c, a) /\ BoolKept(c, x)
  BY <1>0, <1>1, <1>8, <1>9, <1>18, <1>20, BoolMade
<1> QED BY <1>2, <1>10 DEF x, y

(* A boolean array filled with one value.                                  *)
LEMMA BoolFilled ==
  ASSUME NEW a, NEW w, BoolKept(a, w), NEW v \in Bits, NEW n \in Nat
  PROVE  LET c == Bool!Filled(a, v, n) IN Like(c, a) /\ BoolKept(c, Fixed!All(n, Rowed(a.unit, v)))
<1> DEFINE r == Rowed(a.unit, v)
           e == Fixed!All(n, v)
           b == Bool!Bools(a, e, n)
           x == Fixed!All(n, r)
           c == Fixed!Unmasked(b)
<1>0. r \in WantRow /\ r # <<>> /\ <<v, r>> \in Is(a.unit) /\ Fields(a) /\ Frame(a, w) /\ "len" \in DOMAIN a
  BY BoolOf, RowedIs, BitCell
<1>1. Put(b, a, e) /\ b.len = n
  BY <1>0, BoolsPut
<1>2. Bool!Filled(a, v, n) = c
  BY BoolSame DEF Bool!Filled
<1> HIDE DEF r
<1>3. e \in Seq(Bits) /\ Len(e) = n /\ x \in Seq(WantRow) /\ Len(x) = n /\ \A i \in 1..n : x[i] = r
  BY <1>0, AllIs
<1>6. Pairs(Is(a.unit), e, x)
  BY <1>0, PairsAll
<1> HIDE DEF b, e, x
<1>4. Turned(c, b, a, x)
  BY <1>0, <1>1, <1>3, TurnUnmasked DEF Put
<1> HIDE DEF c
<1>5. Like(c, a) /\ BoolKept(c, x)
  BY <1>0, <1>1, <1>3, <1>4, <1>6, BoolMade
<1> QED BY <1>2, <1>5 DEF r, x

(* The other bit.                                                          *)
Flip(v) == ~v
(* The other bit is a bit.                                                 *)
LEMMA FlipIs == \A v \in Bits : Flip(v) \in Bits
BY DEF Flip, Bits

(* The negation of a boolean array negates the rows and keeps the nulls.   *)
LEMMA BoolNot ==
  ASSUME NEW a, NEW w, BoolKept(a, w), WholeAt(a, w), NEW x \in Seq(WantRow), Len(x) = Len(w),
         \A i \in 1..Len(x) : x[i] = IF w[i] = <<>> THEN <<>> ELSE Rowed(a.unit, Flip(w[i][1][2]))
  PROVE  LET c == Bool!Not(a) IN Like(c, a) /\ BoolKept(c, x)
<1> DEFINE d == [i \in DOMAIN a.data |-> Flip(a.data[i])]
           b == [a EXCEPT !.data = d]
<1>0. /\ Fields(a) /\ Frame(a, w) /\ "len" \in DOMAIN a /\ a.data \in Seq(Bits) /\ Pairs(Is(a.unit), a.data, w) /\ w \in Seq(WantRow)
      /\ a.len = Len(w) /\ Len(w) \in Nat /\ a.unit \in Nat /\ Len(a.data) \in Nat /\ Len(a.data) >= Len(w)
  BY BoolOf
<1>1. Put(b, a, d) /\ b.len = a.len
  BY <1>0, DataPut
<1>2. Bool!Not(a) = b
  BY DEF Bool!Not, Flip
<1>3. d \in Seq(Bits) /\ Len(d) = Len(a.data) /\ \A i \in 1..Len(w) : d[i] = Flip(a.data[i])
  <2>1. \A i \in DOMAIN a.data : a.data[i] \in Bits
    BY <1>0
  <2> QED BY <1>0, <2>1, FlipIs
<1> HIDE DEF d
<1>4. ASSUME NEW i \in 1..Len(w)
      PROVE  /\ <<d[i], x[i]>> \in Is(a.unit)
             /\ x[i] = <<>> <=> w[i] = <<>>
  <2>1. <<a.data[i], w[i]>> \in Is(a.unit) /\ a.data[i] \in Bits
    BY <1>0 DEF Pairs
  <2>2. Rowed(a.unit, d[i]) # <<>> /\ <<d[i], Rowed(a.unit, d[i])>> \in Is(a.unit) /\ <<d[i], <<>> >> \in Is(a.unit)
    BY <1>0, <1>3, <2>1, FlipIs, BitCell, RowedIs
  <2>3. CASE w[i] = <<>>
    BY <2>2, <2>3
  <2>4. CASE w[i] # <<>>
    <3>1. w[i] = << <<a.unit, a.data[i]>> >>
      BY <2>1, <2>4 DEF Is
    <3>2. w[i][1][2] = a.data[i]
      BY <3>1
    <3>3. x[i] = Rowed(a.unit, d[i])
      BY <1>3, <2>4, <3>2
    <3> QED BY <2>2, <2>4, <3>3
  <2> QED BY <2>3, <2>4
<1>5. Pairs(Is(a.unit), d, x)
  BY <1>0, <1>3, <1>4 DEF Pairs
<1>6. Nulls(a.masked, a.mask, w)
  BY BoolOf
<1>7. Nulls(a.masked, a.mask, x)
  BY <1>0, <1>4, <1>6 DEF Nulls
<1>8. Marks(b, x) /\ Rest(b, b) /\ Moved(b, a)
  BY <1>0, <1>1, <1>7 DEF Marks, Rest, Put, Moved, Fields
<1>9. Turned(b, b, a, x)
  BY <1>0, <1>8, TurnedIs
<1> HIDE DEF b
<1>10. Like(b, a) /\ BoolKept(b, x)
  BY <1>0, <1>1, <1>3, <1>5, <1>9, BoolMade
<1> QED BY <1>2, <1>10

(* scatter of boolean arrays puts the other's rows at the places.          *)
LEMMA BoolScatter ==
  ASSUME NEW a, NEW w, BoolKept(a, w), a.masked => Len(a.mask) >= Len(w), NEW o, NEW y, BoolKept(o, y), o.unit = a.unit,
         o.masked => Len(o.mask) >= Len(y), NEW dst \in [1..2 -> 1..Len(w)], NEW src \in [1..2 -> 1..Len(y)],
         NEW x \in Seq(WantRow), AsPicked(x, w, y, dst, src)
  PROVE  LET c == Fixed!ScatterPrim(a, dst, o, src) IN Like(c, a) /\ BoolKept(c, x)
<1> DEFINE c == Fixed!ScatterPrim(a, dst, o, src)
<1>0. /\ Fields(a) /\ Frame(a, w) /\ a.data \in Seq(Bits) /\ Pairs(Is(a.unit), a.data, w) /\ "len" \in DOMAIN a
      /\ Nulls(o.masked, o.mask, y) /\ o.data \in Seq(Bits) /\ Pairs(Is(a.unit), o.data, y) /\ Len(x) = Len(w) /\ a.len = Len(w)
  BY BoolOf DEF AsPicked
<1>1. PICK d \in Seq(Bits) : Len(d) = Len(a.data) /\ Pairs(Is(a.unit), d, x) /\ Turned(c, [a EXCEPT !.data = d], a, x)
  BY <1>0, ScatterIs
<1> DEFINE b == [a EXCEPT !.data = d]
<1>2. Put(b, a, d) /\ b.len = Len(x)
  BY <1>0, DataPut
<1> HIDE DEF b
<1>4. Turned(c, b, a, x)
  BY <1>1 DEF b
<1> HIDE DEF c
<1>3. Like(c, a) /\ BoolKept(c, x)
  BY <1>0, <1>1, <1>2, <1>4, BoolMade
<1> QED BY <1>3 DEF c

-----------------------------------------------------------------------------
(* Arrays of text                                                          *)

(* A piece of the first of two joined sequences.                           *)
LEMMA PieceLeft ==
  ASSUME NEW S, NEW d \in Seq(S), NEW e \in Seq(S), NEW lo \in Nat, NEW hi \in Nat, lo <= hi, hi <= Len(d)
  PROVE  SubSeq(d \o e, lo + 1, hi) = SubSeq(d, lo + 1, hi)
<1>1. CASE lo = hi
  <2>1. lo + 1 \in Int /\ hi \in Int /\ hi < lo + 1
    BY <1>1
  <2> QED BY <2>1, SubSeqEmpty
<1>2. CASE lo < hi
  <2>1. lo + 1 \in 1..Len(d) /\ hi \in 1..Len(d)
    BY <1>2
  <2> QED BY <2>1, SubSeqOfConcat1
<1> QED BY <1>1, <1>2

(* A piece of the second of two joined sequences.                          *)
LEMMA PieceRight ==
  ASSUME NEW S, NEW d \in Seq(S), NEW e \in Seq(S), NEW lo \in Nat, NEW hi \in Nat, lo <= hi, hi <= Len(e)
  PROVE  SubSeq(d \o e, (lo + Len(d)) + 1, hi + Len(d)) = SubSeq(e, lo + 1, hi)
<1> DEFINE n == Len(d)
<1>0. n \in Nat
  OBVIOUS
<1>1. CASE lo = hi
  <2>1. lo + 1 \in Int /\ hi \in Int /\ hi < lo + 1 /\ (lo + n) + 1 \in Int /\ hi + n \in Int /\ hi + n < (lo + n) + 1
    BY <1>0, <1>1
  <2> QED BY <2>1, SubSeqEmpty
<1>2. CASE lo < hi
  <2>1. (lo + n) + 1 \in n+1 .. n+Len(e) /\ hi + n \in n+1 .. n+Len(e)
    BY <1>0, <1>2
  <2>2. SubSeq(d \o e, (lo + n) + 1, hi + n) = SubSeq(e, ((lo + n) + 1) - n, (hi + n) - n)
    BY <2>1, SubSeqOfConcat2
  <2>3. ((lo + n) + 1) - n = lo + 1 /\ (hi + n) - n = hi
    BY <1>0
  <2> QED BY <2>2, <2>3
<1> QED BY <1>1, <1>2

(* A piece of a piece.                                                     *)
LEMMA PieceOfPiece ==
  ASSUME NEW S, NEW d \in Seq(S), NEW first \in Nat, NEW last \in Nat, last <= Len(d),
         NEW lo \in Nat, NEW hi \in Nat, first <= lo, lo <= hi, hi <= last
  PROVE  SubSeq(SubSeq(d, first + 1, last), (lo - first) + 1, hi - first) = SubSeq(d, lo + 1, hi)
<1>1. CASE lo = hi
  <2>1. lo + 1 \in Int /\ hi \in Int /\ hi < lo + 1 /\ (lo - first) + 1 \in Int /\ hi - first \in Int /\ hi - first < (lo - first) + 1
    BY <1>1
  <2> QED BY <2>1, SubSeqEmpty
<1>2. CASE lo < hi
  <2> DEFINE m == (lo - first) + 1
             n == hi - first
             i == first + 1
  <2>1. i \in 1..Len(d) /\ last \in 1..Len(d) /\ m \in 1..last - i + 1 /\ n \in 1..last - i + 1
    BY <1>2
  <2>2. i + m - 1 = lo + 1 /\ i + n - 1 = hi
    OBVIOUS
  <2> HIDE DEF m, n, i
  <2>3. SubSeq(SubSeq(d, i, last), m, n) = SubSeq(d, i + m - 1, i + n - 1)
    BY <2>1, SubSeqOfSubSeq
  <2> QED BY <2>2, <2>3 DEF m, n, i
<1> QED BY <1>1, <1>2

(* A piece is a sequence of the length between its ends.                   *)
LEMMA PieceIs ==
  ASSUME NEW S, NEW d \in Seq(S), NEW lo \in Nat, NEW hi \in Nat, lo <= hi, hi <= Len(d)
  PROVE  SubSeq(d, lo + 1, hi) \in Seq(S) /\ Len(SubSeq(d, lo + 1, hi)) = hi - lo
<1>1. lo + 1 \in Int /\ hi \in Int /\ \A i \in lo + 1..hi : d[i] \in S
  OBVIOUS
<1>2. SubSeq(d, lo + 1, hi) \in Seq(S) /\ Len(SubSeq(d, lo + 1, hi)) = IF lo + 1 <= hi THEN hi - (lo + 1) + 1 ELSE 0
  BY <1>1, SubSeqProperties
<1> QED BY <1>2

(* The bytes d of the strings c, one after the other, and the offsets p. *)
Laid(d, p, c) ==
  /\ d \in Seq(Byte) /\ p \in Seq(Nat) /\ c \in Seq(Seq(Byte)) /\ Len(p) = Len(c) + 1
  /\ p[1] = 0 /\ p[Len(p)] = Len(d)
  /\ \A i, j \in 1..Len(p) : i <= j => p[i] <= p[j]
  /\ \A i \in 1..Len(c) : c[i] = SubSeq(d, p[i] + 1, p[i + 1])

(* What is known of strings laid out in bytes.                             *)
LEMMA LaidOf ==
  ASSUME NEW d, NEW p, NEW c, Laid(d, p, c)
  PROVE  /\ d \in Seq(Byte) /\ p \in Seq(Nat) /\ c \in Seq(Seq(Byte)) /\ Len(p) = Len(c) + 1 /\ Len(c) \in Nat /\ Len(d) \in Nat
         /\ p[1] = 0 /\ p[Len(p)] = Len(d) /\ 1 \in 1..Len(p) /\ Len(p) \in 1..Len(p)
         /\ \A i, j \in 1..Len(p) : i <= j => p[i] <= p[j]
         /\ \A i \in 1..Len(p) : p[i] \in Nat /\ p[i] <= Len(d)
         /\ \A i \in 1..Len(c) : i \in 1..Len(p) /\ i + 1 \in 1..Len(p) /\ p[i] <= p[i + 1]
<1>1. /\ d \in Seq(Byte) /\ p \in Seq(Nat) /\ c \in Seq(Seq(Byte)) /\ Len(p) = Len(c) + 1 /\ p[1] = 0 /\ p[Len(p)] = Len(d)
      /\ \A i, j \in 1..Len(p) : i <= j => p[i] <= p[j]
  BY DEF Laid
<1>2. Len(c) \in Nat /\ Len(d) \in Nat /\ 1 \in 1..Len(p) /\ Len(p) \in 1..Len(p)
  BY <1>1
<1>3. ASSUME NEW i \in 1..Len(p) PROVE p[i] \in Nat /\ p[i] <= Len(d)
  BY <1>1, <1>2
<1>4. ASSUME NEW i \in 1..Len(c) PROVE i \in 1..Len(p) /\ i + 1 \in 1..Len(p) /\ p[i] <= p[i + 1]
  <2>1. i \in 1..Len(p) /\ i + 1 \in 1..Len(p) /\ i <= i + 1
    BY <1>1, <1>2
  <2> QED BY <1>1, <2>1
<1> QED BY <1>1, <1>2, <1>3, <1>4

(* Offsets followed by those of other strings moved up by k, but for their *)
(* first.                                                                  *)
AsChained(r, p, q, k) ==
  /\ Len(r) = Len(p) + Len(q) - 1
  /\ \A i \in 1..Len(r) : r[i] = IF i <= Len(p) THEN p[i] ELSE q[i - Len(p) + 1] + k

(* The bytes joined and the offsets chained hold both runs of strings.     *)
LEMMA LaidJoin ==
  ASSUME NEW d, NEW p, NEW c, Laid(d, p, c), NEW e, NEW q, NEW g, Laid(e, q, g),
         NEW r \in Seq(Nat), AsChained(r, p, q, Len(d))
  PROVE  Laid(d \o e, r, c \o g)
<1> DEFINE n == Len(c)
           k == Len(d)
           m == Len(g)
           z == Len(e)
           x == d \o e
           h == c \o g
<1>1. /\ d \in Seq(Byte) /\ c \in Seq(Seq(Byte)) /\ Len(p) = n + 1 /\ n \in Nat /\ k \in Nat
      /\ e \in Seq(Byte) /\ g \in Seq(Seq(Byte)) /\ Len(q) = m + 1 /\ m \in Nat /\ z \in Nat
  BY LaidOf
<1>2. /\ p[1] = 0 /\ p[n + 1] = k
      /\ (\A i, j \in 1..n + 1 : i <= j => p[i] <= p[j])
      /\ (\A i \in 1..n + 1 : p[i] \in Nat /\ p[i] <= k)
  BY <1>1, LaidOf
<1>3. /\ q[1] = 0 /\ q[m + 1] = z
      /\ (\A i, j \in 1..m + 1 : i <= j => q[i] <= q[j])
      /\ (\A i \in 1..m + 1 : q[i] \in Nat /\ q[i] <= z)
  BY <1>1, LaidOf
<1>11. /\ \A i \in 1..n : c[i] = SubSeq(d, p[i] + 1, p[i + 1])
       /\ \A i \in 1..m : g[i] = SubSeq(e, q[i] + 1, q[i + 1])
  BY DEF Laid
<1>12. x \in Seq(Byte) /\ Len(x) = k + z
  BY <1>1, JoinLen
<1>13. h \in Seq(Seq(Byte)) /\ AsJoin(h, c, g)
  BY <1>1, JoinIs
<1>4. Len(r) = n + m + 1 /\ \A i \in 1..Len(r) : r[i] = IF i <= n + 1 THEN p[i] ELSE q[i - n] + k
  <2>1. Len(p) + Len(q) - 1 = n + m + 1 /\ \A i \in Int : i - Len(p) + 1 = i - n
    BY <1>1
  <2> QED BY <1>1, <2>1 DEF AsChained
<1>5. Len(h) = n + m /\ \A i \in 1..Len(h) : h[i] = IF i <= n THEN c[i] ELSE g[i - n]
  BY <1>13 DEF AsJoin
<1>14. k = Len(d) /\ z = Len(e)
  OBVIOUS
<1> HIDE DEF n, k, m, z, x, h
<1>15. /\ \A i \in 1..n + 1 : i \in 1..Len(r) /\ r[i] = p[i]
       /\ \A i \in 1..m + 1 : i + n \in 1..Len(r) /\ r[i + n] = q[i] + k
  <2>1. ASSUME NEW i \in 1..n + 1 PROVE i \in 1..Len(r) /\ r[i] = p[i]
    BY <1>1, <1>4
  <2>2. ASSUME NEW i \in 1..m + 1 PROVE i + n \in 1..Len(r) /\ r[i + n] = q[i] + k
    <3>1. i + n \in 1..Len(r) /\ (i + n) - n = i
      BY <1>1, <1>4
    <3>2. CASE i = 1
      BY ONLY <1>1, <1>2, <1>3, <1>4, <3>1, <3>2
    <3>3. CASE i # 1
      <4>1. ~(i + n <= n + 1)
        BY <1>1, <3>3
      <4> QED BY <1>4, <3>1, <4>1
    <3> QED BY <3>1, <3>2, <3>3
  <2> QED BY <2>1, <2>2
<1>6. r[1] = 0
  BY ONLY <1>1, <1>2, <1>15
<1>7. r[Len(r)] = Len(x)
  <2>1. m + 1 \in 1..m + 1 /\ (m + 1) + n = Len(r) /\ z + k = k + z
    BY ONLY <1>1, <1>4
  <2> QED BY ONLY <1>3, <1>12, <1>15, <2>1
<1>8. ASSUME NEW i \in 1..Len(r), NEW j \in 1..Len(r), i <= j PROVE r[i] <= r[j]
  <2>1. CASE j <= n + 1
    <3>1. i \in 1..n + 1 /\ j \in 1..n + 1
      BY <1>1, <1>8, <2>1
    <3> QED BY ONLY <1>2, <1>8, <1>15, <3>1
  <2>2. CASE i <= n + 1 /\ ~(j <= n + 1)
    <3>1. i \in 1..n + 1 /\ j - n \in 1..m + 1 /\ (j - n) + n = j
      BY <1>1, <1>4, <2>2
    <3>2. r[i] = p[i] /\ r[j] = q[j - n] + k
      BY ONLY <1>15, <3>1
    <3>3. p[i] \in Nat /\ p[i] <= k /\ q[j - n] \in Nat
      BY ONLY <1>2, <1>3, <3>1
    <3> DEFINE lo == p[i]
               hi == q[j - n]
    <3>4. r[i] = lo /\ r[j] = hi + k /\ lo \in Nat /\ lo <= k /\ hi \in Nat /\ k \in Nat
      BY ONLY <1>1, <3>2, <3>3
    <3> HIDE DEF lo, hi
    <3> QED BY ONLY <3>4
  <2>3. CASE ~(i <= n + 1) /\ ~(j <= n + 1)
    <3>1. i - n \in 1..m + 1 /\ (i - n) + n = i /\ j - n \in 1..m + 1 /\ (j - n) + n = j /\ i - n <= j - n
      BY <1>1, <1>4, <1>8, <2>3
    <3>2. r[i] = q[i - n] + k /\ r[j] = q[j - n] + k
      BY ONLY <1>15, <3>1
    <3>3. q[i - n] \in Nat /\ q[j - n] \in Nat /\ q[i - n] <= q[j - n]
      BY ONLY <1>3, <3>1
    <3> DEFINE lo == q[i - n]
               hi == q[j - n]
    <3>4. r[i] = lo + k /\ r[j] = hi + k /\ lo \in Nat /\ lo <= hi /\ hi \in Nat /\ k \in Nat
      BY ONLY <1>1, <3>2, <3>3
    <3> HIDE DEF lo, hi
    <3> QED BY ONLY <3>4
  <2> QED BY <1>1, <1>8, <2>1, <2>2, <2>3
<1>9. ASSUME NEW i \in 1..Len(h) PROVE h[i] = SubSeq(x, r[i] + 1, r[i + 1])
  <2>1. CASE i <= n
    <3>1. i \in 1..n /\ i \in 1..n + 1 /\ i + 1 \in 1..n + 1 /\ i <= i + 1
      BY ONLY <1>1, <1>5, <2>1, i \in 1..Len(h)
    <3>2. h[i] = c[i] /\ r[i] = p[i] /\ r[i + 1] = p[i + 1]
      BY ONLY <1>5, <1>15, <2>1, <3>1, i \in 1..Len(h)
    <3> DEFINE lo == p[i]
               hi == p[i + 1]
    <3>3. lo \in Nat /\ hi \in Nat /\ lo <= hi /\ hi <= k
      BY ONLY <1>2, <3>1
    <3>4. c[i] = SubSeq(d, lo + 1, hi)
      BY ONLY <1>11, <3>1
    <3> HIDE DEF lo, hi
    <3>5. SubSeq(x, lo + 1, hi) = SubSeq(d, lo + 1, hi)
      BY ONLY <1>1, <1>14, <3>3, PieceLeft DEF x
    <3> QED BY ONLY <3>2, <3>4, <3>5 DEF lo, hi
  <2>2. CASE ~(i <= n)
    <3> DEFINE j == i - n
    <3>1. j \in 1..m /\ j \in 1..m + 1 /\ j + 1 \in 1..m + 1 /\ j <= j + 1 /\ j + n = i /\ (j + 1) + n = i + 1
      BY ONLY <1>1, <1>5, <2>2, i \in 1..Len(h)
    <3>2. h[i] = g[j]
      BY ONLY <1>5, <2>2, i \in 1..Len(h)
    <3> HIDE DEF j
    <3>3. r[i] = q[j] + k /\ r[i + 1] = q[j + 1] + k
      BY ONLY <1>15, <3>1
    <3> DEFINE lo == q[j]
               hi == q[j + 1]
    <3>4. lo \in Nat /\ hi \in Nat /\ lo <= hi /\ hi <= z
      BY ONLY <1>3, <3>1
    <3>5. g[j] = SubSeq(e, lo + 1, hi)
      BY ONLY <1>11, <3>1
    <3> HIDE DEF lo, hi
    <3>6. SubSeq(x, (lo + k) + 1, hi + k) = SubSeq(e, lo + 1, hi)
      BY ONLY <1>1, <1>14, <3>4, PieceRight DEF x
    <3> QED BY ONLY <3>2, <3>3, <3>5, <3>6 DEF lo, hi
  <2> QED BY <2>1, <2>2
<1>16. Len(r) = Len(h) + 1
  BY ONLY <1>1, <1>4, <1>5
<1>10. Laid(x, r, h)
  BY <1>12, <1>13, <1>16, <1>6, <1>7, <1>8, <1>9 DEF Laid
<1> QED BY <1>10 DEF x, h

(* Some of the offsets, moved down by k.                                   *)
AsShifted(r, p, from, n, k) ==
  Len(r) = n /\ \A i \in 1..n : r[i] = p[from + i] - k

(* The bytes and offsets of a window hold the strings of the window.       *)
LEMMA LaidWindow ==
  ASSUME NEW d, NEW p, NEW c, Laid(d, p, c), NEW from \in Nat, NEW n \in Nat, from + n <= Len(c),
         NEW r \in Seq(Nat), AsShifted(r, p, from, n + 1, p[from + 1])
  PROVE  Laid(SubSeq(d, p[from + 1] + 1, p[from + n + 1]), r, Fixed!Window(c, from, n))
<1> DEFINE first == p[from + 1]
           last == p[from + n + 1]
           x == SubSeq(d, first + 1, last)
           h == Fixed!Window(c, from, n)
<1>1. /\ d \in Seq(Byte) /\ p \in Seq(Nat) /\ c \in Seq(Seq(Byte)) /\ Len(p) = Len(c) + 1 /\ Len(c) \in Nat /\ Len(d) \in Nat
      /\ (\A i, j \in 1..Len(p) : i <= j => p[i] <= p[j])
      /\ (\A i \in 1..Len(p) : p[i] \in Nat /\ p[i] <= Len(d))
      /\ (\A i \in 1..Len(c) : p[i] <= p[i + 1] /\ c[i] = SubSeq(d, p[i] + 1, p[i + 1]))
  <2>1. \A i \in 1..Len(c) : c[i] = SubSeq(d, p[i] + 1, p[i + 1])
    BY DEF Laid
  <2> QED BY <2>1, LaidOf
<1>2. from + 1 \in 1..Len(p) /\ from + n + 1 \in 1..Len(p) /\ from + 1 <= from + n + 1
  BY <1>1
<1>3. first \in Nat /\ last \in Nat /\ first <= last /\ last <= Len(d)
  BY <1>1, <1>2
<1>4. ASSUME NEW i \in 1..n + 1
      PROVE  r[i] = p[from + i] - first /\ from + i \in 1..Len(p) /\ p[from + i] \in Nat /\ first <= p[from + i] /\ p[from + i] <= last
  <2>1. from + i \in 1..Len(p) /\ from + 1 <= from + i /\ from + i <= from + n + 1
    BY <1>1
  <2>2. first <= p[from + i] /\ p[from + i] <= last /\ p[from + i] \in Nat
    BY <1>1, <1>2, <2>1
  <2> QED BY <2>1, <2>2 DEF AsShifted
<1>5. h \in Seq(Seq(Byte)) /\ AsWindow(h, c, from, n)
  BY <1>1, WindowIs
<1>6. Len(r) = n + 1 /\ Len(h) = n /\ \A i \in 1..n : h[i] = c[from + i]
  BY <1>5 DEF AsShifted, AsWindow
<1> HIDE DEF first, last, h
<1>7. x \in Seq(Byte) /\ Len(x) = last - first
  BY <1>1, <1>3, PieceIs
<1> HIDE DEF x
<1>8. r[1] = 0 /\ r[Len(r)] = Len(x)
  <2>1. 1 \in 1..n + 1 /\ n + 1 \in 1..n + 1 /\ from + (n + 1) = from + n + 1
    OBVIOUS
  <2>2. r[1] = first - first /\ r[n + 1] = last - first
    BY <1>4, <2>1 DEF first, last
  <2> QED BY <1>3, <1>6, <1>7, <2>2
<1>9. ASSUME NEW i \in 1..Len(r), NEW j \in 1..Len(r), i <= j PROVE r[i] <= r[j]
  <2>1. i \in 1..n + 1 /\ j \in 1..n + 1 /\ from + i <= from + j
    BY <1>6, <1>9
  <2>2. /\ r[i] = p[from + i] - first /\ from + i \in 1..Len(p) /\ p[from + i] \in Nat
        /\ r[j] = p[from + j] - first /\ from + j \in 1..Len(p) /\ p[from + j] \in Nat
    BY <1>4, <2>1
  <2>3. p[from + i] <= p[from + j]
    BY ONLY <1>1, <2>1, <2>2
  <2> QED BY ONLY <1>3, <2>2, <2>3
<1>10. ASSUME NEW i \in 1..Len(h) PROVE h[i] = SubSeq(x, r[i] + 1, r[i + 1])
  <2>1. i \in 1..n + 1 /\ i + 1 \in 1..n + 1 /\ i \in 1..n /\ from + i \in 1..Len(c) /\ from + (i + 1) = (from + i) + 1
    BY <1>1, <1>6
  <2> DEFINE lo == p[from + i]
             hi == p[(from + i) + 1]
  <2>2. /\ h[i] = SubSeq(d, lo + 1, hi) /\ r[i] = lo - first /\ r[i + 1] = hi - first
        /\ lo \in Nat /\ hi \in Nat /\ first <= lo /\ lo <= hi /\ hi <= last
    BY <1>1, <1>4, <1>6, <2>1
  <2> HIDE DEF lo, hi
  <2>3. SubSeq(x, (lo - first) + 1, hi - first) = SubSeq(d, lo + 1, hi)
    BY <1>1, <1>3, <2>2, PieceOfPiece DEF x
  <2> QED BY <2>2, <2>3
<1>11. Laid(x, r, h)
  BY <1>5, <1>6, <1>7, <1>8, <1>9, <1>10 DEF Laid
<1> QED BY <1>11 DEF x, h, first, last

(* One string and the offsets around it.                                   *)
LEMMA LaidOne ==
  ASSUME NEW v \in Seq(Byte)
  PROVE  Laid(v, <<0, Len(v)>>, <<v>>)
<1> DEFINE p == <<0, Len(v)>>
           c == <<v>>
<1>1. p \in Seq(Nat) /\ c \in Seq(Seq(Byte)) /\ Len(p) = 2 /\ Len(c) = 1 /\ p[1] = 0 /\ p[2] = Len(v) /\ c[1] = v /\ Len(v) \in Nat
  OBVIOUS
<1>2. SubSeq(v, 1, Len(v)) = v
  BY SubSeqFull
<1> HIDE DEF p, c
<1>3. \A i \in 1..Len(c) : c[i] = SubSeq(v, p[i] + 1, p[i + 1])
  <2> TAKE i \in 1..Len(c)
  <2>1. i = 1 /\ i + 1 = 2 /\ p[i] + 1 = 1
    BY <1>1
  <2> QED BY <1>1, <1>2, <2>1
<1>4. \A i, j \in 1..Len(p) : i <= j => p[i] <= p[j]
  <2> TAKE i, j \in 1..Len(p)
  <2>1. (i = 1 \/ i = 2) /\ (j = 1 \/ j = 2)
    BY <1>1
  <2> QED BY <1>1, <2>1
<1>5. Laid(v, p, c)
  BY <1>1, <1>3, <1>4 DEF Laid
<1> QED BY <1>5 DEF p, c

(* Empty strings take no bytes.                                            *)
LEMMA LaidEmpties ==
  ASSUME NEW k \in Nat
  PROVE  Laid(<<>>, Fixed!All(k + 1, 0), Fixed!All(k, <<>>))
<1> DEFINE p == Fixed!All(k + 1, 0)
           c == Fixed!All(k, <<>>)
<1>1. p \in Seq(Nat) /\ Len(p) = k + 1 /\ \A i \in 1..k + 1 : p[i] = 0
  <2>1. k + 1 \in Nat /\ 0 \in Nat
    OBVIOUS
  <2> QED BY <2>1, AllIs
<1>2. c \in Seq(Seq(Byte)) /\ Len(c) = k /\ \A i \in 1..k : c[i] = <<>>
  <2>1. <<>> \in Seq(Byte)
    OBVIOUS
  <2> QED BY <2>1, AllIs
<1> HIDE DEF p, c
<1>3. SubSeq(<<>>, 1, 0) = <<>>
  BY SubSeqEmpty
<1>4. \A i \in 1..Len(c) : c[i] = SubSeq(<<>>, p[i] + 1, p[i + 1])
  <2> TAKE i \in 1..Len(c)
  <2>1. i \in 1..k /\ i \in 1..k + 1 /\ i + 1 \in 1..k + 1
    BY <1>2
  <2>2. p[i] + 1 = 1 /\ p[i + 1] = 0
    BY <1>1, <2>1
  <2> QED BY <1>2, <1>3, <2>1, <2>2
<1>5. Laid(<<>>, p, c)
  BY <1>1, <1>2, <1>4 DEF Laid
<1> QED BY <1>5 DEF p, c

(* A sequence with a range replaced by another sequence, item by item.     *)
AsReplaced(h, c, from, to, g) ==
  /\ Len(h) = Len(c) - (to - from) + Len(g)
  /\ \A i \in 1..Len(h) : h[i] = IF i <= from THEN c[i] ELSE IF i <= from + Len(g) THEN g[i - from]
                                 ELSE c[i - Len(g) + (to - from)]

(* The items before the range, the new ones and the items after it are     *)
(* such a replacement.                                                     *)
LEMMA ReplacedIs ==
  ASSUME NEW S, NEW c \in Seq(S), NEW from \in Nat, NEW to \in Nat, from <= to, to <= Len(c), NEW g \in Seq(S)
  PROVE  /\ (SubSeq(c, 1, from) \o g) \o SubSeq(c, to + 1, Len(c)) \in Seq(S)
         /\ AsReplaced((SubSeq(c, 1, from) \o g) \o SubSeq(c, to + 1, Len(c)), c, from, to, g)
<1> DEFINE a == SubSeq(c, 1, from)
           b == SubSeq(c, to + 1, Len(c))
           u == (a \o g) \o b
<1>1. a \in Seq(S) /\ Len(a) = from /\ \A i \in 1..from : a[i] = c[i]
  OBVIOUS
<1>2. b \in Seq(S) /\ Len(b) = Len(c) - to /\ \A i \in 1..Len(c) - to : b[i] = c[to + i]
  <2>1. to + 1 \in Int /\ Len(c) \in Int /\ \A i \in to + 1..Len(c) : c[i] \in S
    OBVIOUS
  <2>2. /\ b \in Seq(S) /\ Len(b) = IF to + 1 <= Len(c) THEN Len(c) - (to + 1) + 1 ELSE 0
        /\ \A i \in 1..Len(c) - (to + 1) + 1 : b[i] = c[(to + 1) + i - 1]
    BY <2>1, SubSeqProperties
  <2> HIDE DEF b
  <2>0. Len(c) \in Nat
    OBVIOUS
  <2>3. Len(c) - (to + 1) + 1 = Len(c) - to /\ \A i \in 1..Len(c) - to : (to + 1) + i - 1 = to + i
    BY <2>0
  <2>4. (IF to + 1 <= Len(c) THEN Len(c) - (to + 1) + 1 ELSE 0) = Len(c) - to
    BY <2>0
  <2> QED BY ONLY <2>2, <2>3, <2>4
<1> HIDE DEF a, b
<1>3. a \o g \in Seq(S) /\ AsJoin(a \o g, a, g)
  BY <1>1, JoinIs
<1>4. u \in Seq(S) /\ AsJoin(u, a \o g, b)
  BY <1>2, <1>3, JoinIs
<1> DEFINE v == a \o g
<1> HIDE DEF v, u
<1>5. AsJoin(v, a, g) /\ AsJoin(u, v, b)
  BY <1>3, <1>4 DEF u, v
<1>6. Len(u) = Len(c) - (to - from) + Len(g) /\ Len(v) = from + Len(g) /\ Len(g) \in Nat
  BY <1>1, <1>2, <1>5 DEF AsJoin
<1>7. ASSUME NEW i \in 1..Len(u)
      PROVE  u[i] = IF i <= from THEN c[i] ELSE IF i <= from + Len(g) THEN g[i - from] ELSE c[i - Len(g) + (to - from)]
  <2>1. CASE i <= from
    <3>1. i \in 1..from /\ i <= Len(v) /\ i \in 1..Len(v)
      BY <1>6, <2>1
    <3> QED BY <1>1, <1>5, <2>1, <3>1 DEF AsJoin
  <2>2. CASE ~(i <= from) /\ i <= from + Len(g)
    <3>1. i <= Len(v) /\ i \in 1..Len(v)
      BY <1>6, <2>2
    <3> QED BY <1>1, <1>5, <2>2, <3>1 DEF AsJoin
  <2>3. CASE ~(i <= from + Len(g))
    <3>1. ~(i <= Len(v)) /\ i - Len(v) \in 1..Len(c) - to /\ to + (i - Len(v)) = i - Len(g) + (to - from) /\ ~(i <= from)
      BY <1>6, <2>3
    <3>2. u[i] = b[i - Len(v)]
      BY <1>5, <3>1 DEF AsJoin
    <3> QED BY <1>2, <2>3, <3>1, <3>2
  <2> QED BY <1>6, <2>1, <2>2, <2>3
<1>8. AsReplaced(u, c, from, to, g)
  BY <1>6, <1>7 DEF AsReplaced
<1> QED BY <1>4, <1>8 DEF u, v, a, b

(* And there is no other.                                                  *)
LEMMA SameReplaced ==
  ASSUME NEW S, NEW c \in Seq(S), NEW from \in Nat, NEW to \in Nat, from <= to, to <= Len(c), NEW g \in Seq(S),
         NEW h \in Seq(S), AsReplaced(h, c, from, to, g)
  PROVE  h = (SubSeq(c, 1, from) \o g) \o SubSeq(c, to + 1, Len(c))
<1> DEFINE u == (SubSeq(c, 1, from) \o g) \o SubSeq(c, to + 1, Len(c))
<1>1. u \in Seq(S) /\ AsReplaced(u, c, from, to, g)
  BY ReplacedIs
<1> HIDE DEF u
<1>2. Len(h) = Len(u) /\ \A i \in 1..Len(h) : h[i] = u[i]
  BY <1>1 DEF AsReplaced
<1>3. h = u
  BY <1>1, <1>2, SeqEqual
<1> QED BY <1>3 DEF u

(* Offsets with a range replaced by those of other strings moved up to lo, *)
(* and the ones that follow moved by the difference.                       *)
AsMended(r, p, from, to, q, lo, by) ==
  /\ Len(r) = Len(p) - (to - from) + (Len(q) - 1)
  /\ \A i \in 1..Len(r) : r[i] = IF i <= from + 1 THEN p[i] ELSE IF i <= from + Len(q) THEN q[i - from] + lo
                                 ELSE p[i - (Len(q) - 1) + (to - from)] + by

(* Bytes with those of a range of strings replaced, under offsets mended   *)
(* so, hold the strings with the range replaced.                           *)
LEMMA LaidReplaced ==
  ASSUME NEW d, NEW p, NEW c, Laid(d, p, c), NEW e, NEW q, NEW g, Laid(e, q, g),
         NEW from \in Nat, NEW to \in Nat, from <= to, to <= Len(c),
         NEW lo, NEW hi, lo = p[from + 1], hi = p[to + 1],
         NEW r \in Seq(Nat), AsMended(r, p, from, to, q, lo, (lo + Len(e)) - hi),
         NEW h \in Seq(Seq(Byte)), AsReplaced(h, c, from, to, g)
  PROVE  Laid((SubSeq(d, 1, lo) \o e) \o SubSeq(d, hi + 1, Len(d)), r, h)
<1> DEFINE n == Len(c)
           m == Len(g)
           k == Len(e)
           r1 == [i \in 1..from + 1 |-> p[i]]
           r2 == [i \in 1..from + m + 1 |-> IF i <= from + 1 THEN p[i] ELSE q[i - from] + lo]
           r3 == [i \in 1..(n - to) + 1 |-> p[to + i] - hi]
           d1 == SubSeq(d, 1, lo)
           d2 == d1 \o e
           d3 == SubSeq(d, hi + 1, Len(d))
           c1 == Fixed!Window(c, 0, from)
           c2 == c1 \o g
           c3 == Fixed!Window(c, to, n - to)
<1>17. /\ d \in Seq(Byte) /\ p \in Seq(Nat) /\ c \in Seq(Seq(Byte)) /\ Len(p) = n + 1 /\ n \in Nat /\ Len(d) \in Nat
       /\ e \in Seq(Byte) /\ g \in Seq(Seq(Byte)) /\ Len(q) = m + 1 /\ m \in Nat /\ k \in Nat
  BY LaidOf
<1>1. /\ d \in Seq(Byte) /\ p \in Seq(Nat) /\ c \in Seq(Seq(Byte)) /\ Len(p) = n + 1 /\ n \in Nat /\ Len(d) \in Nat
      /\ p[1] = 0 /\ p[n + 1] = Len(d)
      /\ (\A i, j \in 1..n + 1 : i <= j => p[i] <= p[j])
      /\ (\A i \in 1..n + 1 : p[i] \in Nat /\ p[i] <= Len(d))
  BY <1>17, LaidOf
<1>2. e \in Seq(Byte) /\ g \in Seq(Seq(Byte)) /\ Len(q) = m + 1 /\ m \in Nat /\ k \in Nat /\ \A i \in 1..m + 1 : q[i] \in Nat
  BY <1>17, LaidOf
<1>18. from \in Nat /\ to \in Nat /\ to <= n /\ n \in Nat /\ m \in Nat /\ k \in Nat
  BY <1>17
<1>3. from + 1 \in 1..n + 1 /\ to + 1 \in 1..n + 1 /\ n - to \in Nat /\ from + 1 <= to + 1
  BY <1>1
<1>4. lo \in Nat /\ hi \in Nat /\ lo <= hi /\ hi <= Len(d)
  BY <1>1, <1>3
<1>5. r1 \in Seq(Nat) /\ Len(r1) = from + 1 /\ \A i \in 1..from + 1 : r1[i] = p[i]
  <2>1. \A i \in 1..from + 1 : p[i] \in Nat
    BY <1>1, <1>3
  <2> QED BY <2>1
<1>6. r2 \in Seq(Nat) /\ Len(r2) = from + m + 1 /\ \A i \in 1..from + m + 1 : r2[i] = IF i <= from + 1 THEN p[i] ELSE q[i - from] + lo
  <2>1. \A i \in 1..from + m + 1 : IF i <= from + 1 THEN i \in 1..n + 1 ELSE i - from \in 1..m + 1
    BY ONLY <1>18, from <= to
  <2>2. \A i \in 1..from + m + 1 : (IF i <= from + 1 THEN p[i] ELSE q[i - from] + lo) \in Nat
    <3> TAKE i \in 1..from + m + 1
    <3>1. CASE i <= from + 1
      BY ONLY <1>1, <2>1, <3>1, i \in 1..from + m + 1
    <3>2. CASE ~(i <= from + 1)
      <4>1. q[i - from] \in Nat
        BY ONLY <1>2, <2>1, <3>2, i \in 1..from + m + 1
      <4> DEFINE v == q[i - from]
      <4>2. v \in Nat /\ lo \in Nat
        BY <1>4, <4>1
      <4> HIDE DEF v
      <4>3. v + lo \in Nat
        BY ONLY <4>2
      <4> QED BY ONLY <3>2, <4>3 DEF v
    <3> QED BY <3>1, <3>2
  <2>3. from + m + 1 \in Nat
    BY <1>2
  <2> QED BY <2>2, <2>3
<1>7. r3 \in Seq(Nat) /\ Len(r3) = (n - to) + 1 /\ \A i \in 1..(n - to) + 1 : r3[i] = p[to + i] - hi
  <2>1. ASSUME NEW i \in 1..(n - to) + 1 PROVE p[to + i] - hi \in Nat
    <3>1. to + i \in 1..n + 1 /\ to + 1 <= to + i
      BY <1>1
    <3>2. p[to + i] \in Nat /\ hi <= p[to + i]
      BY <1>1, <1>3, <3>1
    <3> DEFINE v == p[to + i]
    <3>3. v \in Nat /\ hi <= v /\ hi \in Nat
      BY <1>4, <3>2
    <3> HIDE DEF v
    <3>4. v - hi \in Nat
      BY ONLY <3>3
    <3> QED BY <3>4 DEF v
  <2> QED BY <1>3, <2>1
<1> HIDE DEF r1, r2, r3
<1>8. Laid(d1, r1, c1)
  <2>1. AsShifted(r1, p, 0, from + 1, p[0 + 1])
    <3>1. ASSUME NEW i \in 1..from + 1 PROVE 0 + i = i /\ p[i] - 0 = p[i]
      <4>1. i \in 1..n + 1
        BY <1>1
      <4>2. p[i] \in Nat /\ i \in Nat
        BY <1>1, <4>1
      <4> QED BY ONLY <4>2
    <3>2. p[0 + 1] = 0
      BY <1>1
    <3> QED BY <1>5, <3>1, <3>2 DEF AsShifted
  <2>2. 0 + from <= n /\ 0 \in Nat
    BY <1>1
  <2>3. Laid(SubSeq(d, p[0 + 1] + 1, p[0 + from + 1]), r1, c1)
    BY ONLY <1>5, <2>1, <2>2, LaidWindow, Laid(d, p, c), from \in Nat
  <2>4. p[0 + 1] + 1 = 1 /\ 0 + from + 1 = from + 1
    BY <1>1
  <2> QED BY <2>3, <2>4
<1>9. Laid(d3, r3, c3)
  <2>1. AsShifted(r3, p, to, (n - to) + 1, p[to + 1])
    BY <1>7 DEF AsShifted
  <2>2. to + (n - to) <= n /\ to + (n - to) + 1 = n + 1
    BY <1>1
  <2>3. Laid(SubSeq(d, p[to + 1] + 1, p[to + (n - to) + 1]), r3, c3)
    BY ONLY <1>3, <1>7, <2>1, <2>2, LaidWindow, Laid(d, p, c), to \in Nat
  <2> QED BY <1>1, <2>2, <2>3
<1>10. Len(d1) = lo /\ d1 \in Seq(Byte)
  <2>0. 0 \in Nat /\ 0 <= lo /\ lo <= Len(d) /\ lo \in Nat
    BY <1>1, <1>4
  <2>1. SubSeq(d, 0 + 1, lo) \in Seq(Byte) /\ Len(SubSeq(d, 0 + 1, lo)) = lo - 0
    BY ONLY <1>1, <2>0, PieceIs
  <2> QED BY <1>4, <2>1
<1> HIDE DEF n, m, k, d1, d3, c1, c3
<1>11. Laid(d2, r2, c2)
  <2>1. AsChained(r2, r1, q, Len(d1))
    <3>1. \A i \in 1..from + m + 1 : i - (from + 1) + 1 = i - from
      BY <1>2
    <3>2. (from + 1) + (m + 1) - 1 = from + m + 1
      BY <1>2
    <3>3. ASSUME NEW i \in 1..Len(r2) PROVE r2[i] = IF i <= Len(r1) THEN r1[i] ELSE q[i - Len(r1) + 1] + Len(d1)
      <4>1. i \in 1..from + m + 1
        BY <1>6
      <4>2. CASE i <= from + 1
        <5>1. i \in 1..from + 1
          BY <4>1, <4>2
        <5> QED BY <1>5, <1>6, <4>1, <4>2, <5>1
      <4>3. CASE ~(i <= from + 1)
        BY <1>5, <1>6, <1>10, <3>1, <4>1, <4>3
      <4> QED BY <4>2, <4>3
    <3> QED BY <1>2, <1>5, <1>6, <3>2, <3>3 DEF AsChained
  <2> QED BY <1>6, <1>8, <2>1, LaidJoin
<1>12. Len(d2) = lo + k
  BY <1>2, <1>10, JoinLen DEF k
<1> HIDE DEF d2, c2
<1>13. Len(r) = from + m + (n - to) + 1
  <2>1. (n + 1) - (to - from) + ((m + 1) - 1) = from + m + (n - to) + 1
    BY <1>1, <1>2
  <2> QED BY <1>1, <1>2, <2>1 DEF AsMended
<1>14. AsChained(r, r2, r3, Len(d2))
  <2>1. (from + m + 1) + ((n - to) + 1) - 1 = from + m + (n - to) + 1
    BY <1>1, <1>2
  <2>2. ASSUME NEW i \in 1..Len(r) PROVE r[i] = IF i <= Len(r2) THEN r2[i] ELSE r3[i - Len(r2) + 1] + Len(d2)
    <3>1. r[i] = IF i <= from + 1 THEN p[i] ELSE IF i <= from + Len(q) THEN q[i - from] + lo
                                 ELSE p[i - (Len(q) - 1) + (to - from)] + ((lo + k) - hi)
      BY DEF AsMended, k
    <3>2. from + Len(q) = from + m + 1 /\ Len(q) - 1 = m
      BY <1>2
    <3>3. CASE i <= from + m + 1
      <4>1. i \in 1..from + m + 1
        BY <1>2, <3>3
      <4> QED BY <1>6, <3>1, <3>2, <3>3, <4>1
    <3>4. CASE ~(i <= from + m + 1)
      <4> DEFINE j == i - (from + m + 1) + 1
                 v == p[to + j]
      <4>1. j \in 1..(n - to) + 1 /\ to + j = i - m + (to - from) /\ ~(i <= from + 1) /\ to + j \in 1..n + 1
        BY <1>1, <1>2, <1>13, <3>4
      <4>2. v \in Nat /\ r3[j] = v - hi
        BY <1>1, <1>7, <4>1
      <4>3. r[i] = v + ((lo + k) - hi)
        BY <3>1, <3>2, <3>4, <4>1
      <4>4. i - Len(r2) + 1 = j
        BY <1>6
      <4> HIDE DEF v, j
      <4>5. r[i] = r3[j] + (lo + k)
        BY ONLY <1>2, <1>4, <4>2, <4>3
      <4> QED BY <1>6, <1>12, <3>4, <4>4, <4>5
    <3> QED BY <3>3, <3>4
  <2> QED BY <1>6, <1>7, <1>13, <2>1, <2>2 DEF AsChained
<1>15. Laid(d2 \o d3, r, c2 \o c3)
  BY <1>9, <1>11, <1>14, LaidJoin
<1>16. h = c2 \o c3
  <2>1. h = (SubSeq(c, 1, from) \o g) \o SubSeq(c, to + 1, Len(c))
    BY <1>1, <1>2, SameReplaced, Zenon
  <2>2. 0 + 1 = 1 /\ 0 + from = from /\ to + (n - to) = n
    BY <1>1
  <2>3. c1 = SubSeq(c, 1, from) /\ c3 = SubSeq(c, to + 1, Len(c))
    BY <2>2 DEF c1, c3, n, Fixed!Window
  <2> QED BY <2>1, <2>3 DEF c2
<1> QED BY <1>15, <1>16 DEF d1, d2, d3

(* A string array that keeps the rows w: the strings its bytes and offsets *)
(* lay out correspond to w.                                                *)
TextKept(a, w) ==
  /\ Frame(a, w) /\ "offsets" \in DOMAIN a
  /\ \E c : Laid(a.data, a.offsets, c) /\ Len(c) = Len(w) /\ Pairs(Is(a.unit), c, w)

(* Strings are cells.                                                      *)
LEMMA ByteCell == \A v \in Seq(Byte) : v \in Cell
BY DEF Cell

(* What is known of a string array that keeps the rows w.                  *)
LEMMA TextOf ==
  ASSUME NEW a, NEW w, TextKept(a, w)
  PROVE  /\ Frame(a, w) /\ Fields(a) /\ "offsets" \in DOMAIN a /\ a.unit \in Nat /\ a.masked \in BOOLEAN
         /\ w \in Seq(WantRow) /\ Len(w) \in Nat
         /\ a.mask \in Seq(Bits) /\ Nulls(a.masked, a.mask, w) /\ Text!Length(a) = Len(w)
         /\ a.data \in Seq(Byte) /\ a.offsets \in Seq(Nat) /\ Len(a.offsets) = Len(w) + 1
         /\ \E c \in Seq(Seq(Byte)) : Laid(a.data, a.offsets, c) /\ Len(c) = Len(w) /\ Pairs(Is(a.unit), c, w)
<1>1. PICK c : Laid(a.data, a.offsets, c) /\ Len(c) = Len(w) /\ Pairs(Is(a.unit), c, w)
  BY DEF TextKept
<1>2. Frame(a, w) /\ Fields(a) /\ "offsets" \in DOMAIN a /\ a.unit \in Nat
  BY DEF TextKept, Frame
<1>3. a.masked \in BOOLEAN /\ w \in Seq(WantRow) /\ Len(w) \in Nat /\ a.mask \in Seq(Bits) /\ Nulls(a.masked, a.mask, w)
  BY <1>2, MarksOf DEF Frame
<1>4. c \in Seq(Seq(Byte)) /\ a.data \in Seq(Byte) /\ a.offsets \in Seq(Nat) /\ Len(a.offsets) = Len(w) + 1
  BY <1>1, LaidOf
<1>5. Text!Length(a) = Len(w)
  BY <1>3, <1>4 DEF Text!Length
<1> QED BY <1>1, <1>2, <1>3, <1>4, <1>5

(* A string array made of strings laid out that correspond to x, under a   *)
(* mask that marks the nulls of x, keeps x.                                *)
LEMMA TextMade ==
  ASSUME NEW a, NEW b, NEW c, NEW x, NEW d, NEW p, NEW h, Turned(c, b, a, x), Fields(a), "offsets" \in DOMAIN a, Put(b, a, d),
         b.offsets = p, Laid(d, p, h), Len(h) = Len(x), Pairs(Is(a.unit), h, x)
  PROVE  Like(c, a) /\ TextKept(c, x)
<1>1. Like(c, a) /\ Rest(c, b) /\ Frame(c, x) /\ DOMAIN c = DOMAIN a /\ c.unit = a.unit
  BY DEF Turned, Like
<1>2. c.data = d /\ c.offsets = p
  BY <1>1 DEF Rest, Put, Moved, Fields
<1> QED BY <1>1, <1>2 DEF TextKept

(* Replacing the bytes and the offsets moves nothing else.                 *)
LEMMA StringsPut ==
  ASSUME NEW a, Fields(a), "offsets" \in DOMAIN a, NEW d, NEW p
  PROVE  Put(Text!Strings(a, d, p), a, d) /\ Text!Strings(a, d, p).offsets = p
BY DEF Put, Moved, Fields, Text!Strings

(* A string array whose bytes and offsets are followed by those of other   *)
(* strings has their rows too.                                             *)
LEMMA TextGrown ==
  ASSUME NEW a, NEW w, NEW c0, Fields(a), "offsets" \in DOMAIN a,
         Laid(a.data, a.offsets, c0), Len(c0) = Len(w), Pairs(Is(a.unit), c0, w),
         NEW e, NEW q, NEW g, NEW y, Laid(e, q, g), Len(g) = Len(y), Pairs(Is(a.unit), g, y),
         NEW r \in Seq(Nat), AsChained(r, a.offsets, q, Len(a.data)),
         NEW b, Put(b, a, a.data \o e), b.offsets = r, NEW c, Turned(c, b, a, w \o y)
  PROVE  Like(c, a) /\ TextKept(c, w \o y)
<1>1. Laid(a.data \o e, r, c0 \o g)
  BY LaidJoin
<1>2. c0 \in Seq(Seq(Byte)) /\ g \in Seq(Seq(Byte)) /\ w \in Seq(WantRow) /\ y \in Seq(WantRow)
  BY LaidOf DEF Pairs
<1>3. Pairs(Is(a.unit), c0 \o g, w \o y)
  BY <1>2, PairsJoin
<1>4. Len(c0 \o g) = Len(c0) + Len(g) /\ Len(w \o y) = Len(w) + Len(y)
  BY <1>2, JoinLen
<1> DEFINE d == a.data \o e
           h == c0 \o g
           x == w \o y
<1>5. Laid(d, r, h) /\ Pairs(Is(a.unit), h, x) /\ Len(h) = Len(x) /\ Put(b, a, d) /\ Turned(c, b, a, x)
  BY <1>1, <1>3, <1>4
<1> HIDE DEF d, h, x
<1>6. Like(c, a) /\ TextKept(c, x)
  BY <1>5, TextMade
<1> QED BY <1>6 DEF x

(* One more offset is the chain of one more string.                        *)
LEMMA ChainedOne ==
  ASSUME NEW p \in Seq(Nat), NEW n \in Nat, NEW k \in Nat
  PROVE  Append(p, k + n) \in Seq(Nat) /\ AsChained(Append(p, k + n), p, <<0, n>>, k)
<1>1. Append(p, k + n) \in Seq(Nat) /\ Len(Append(p, k + n)) = Len(p) + 1 /\ Len(p) \in Nat
  OBVIOUS
<1>2. \A i \in 1..Len(p) + 1 : Append(p, k + n)[i] = IF i <= Len(p) THEN p[i] ELSE k + n
  OBVIOUS
<1> DEFINE r == Append(p, k + n)
<1> HIDE DEF r
<1>3. Len(r) = Len(p) + 1 /\ \A i \in 1..Len(p) + 1 : r[i] = IF i <= Len(p) THEN p[i] ELSE k + n
  BY <1>1, <1>2 DEF r
<1>4. Len(<<0, n>>) = 2 /\ <<0, n>>[2] = n
  OBVIOUS
<1>5. ASSUME NEW i \in 1..Len(r) PROVE r[i] = IF i <= Len(p) THEN p[i] ELSE <<0, n>>[i - Len(p) + 1] + k
  <2>1. CASE i <= Len(p)
    BY <1>1, <1>3, <2>1
  <2>2. CASE ~(i <= Len(p))
    <3>1. i - Len(p) + 1 = 2
      BY <1>1, <1>3, <2>2
    <3>2. <<0, n>>[i - Len(p) + 1] = n
      BY ONLY <1>4, <3>1
    <3>3. r[i] = k + n
      BY ONLY <1>1, <1>3, <2>2, i \in 1..Len(r)
    <3>4. k + n = n + k
      OBVIOUS
    <3> QED BY ONLY <2>2, <3>2, <3>3, <3>4
  <2> QED BY <2>1, <2>2
<1>6. AsChained(r, p, <<0, n>>, k)
  BY <1>1, <1>3, <1>4, <1>5 DEF AsChained
<1> QED BY <1>1, <1>6 DEF r

(* push of a string array adds the string's row.                           *)
LEMMA TextPush ==
  ASSUME NEW a, NEW w, TextKept(a, w), WholeAt(a, w), NEW v \in Seq(Byte)
  PROVE  LET c == Text!Push(a, v) IN Like(c, a) /\ TextKept(c, w \o <<Rowed(a.unit, v)>>)
<1> DEFINE y == <<Rowed(a.unit, v)>>
           r == Append(a.offsets, Len(a.data) + Len(v))
           q == <<0, Len(v)>>
           b == Text!Strings(a, a.data \o v, r)
           c == Fixed!ValidAt(b, Len(w) + 1)
<1>0. Fields(a) /\ Frame(a, w) /\ "offsets" \in DOMAIN a /\ Text!Length(a) = Len(w) /\ w \in Seq(WantRow) /\ a.unit \in Nat
      /\ a.data \in Seq(Byte) /\ a.offsets \in Seq(Nat)
  BY TextOf
<1>1. PICK c0 \in Seq(Seq(Byte)) : Laid(a.data, a.offsets, c0) /\ Len(c0) = Len(w) /\ Pairs(Is(a.unit), c0, w)
  BY TextOf
<1>2. /\ Rowed(a.unit, v) \in WantRow /\ Rowed(a.unit, v) # <<>> /\ <<v, Rowed(a.unit, v)>> \in Is(a.unit)
  BY <1>0, RowedIs, ByteCell
<1>3. Laid(v, q, <<v>>) /\ Len(<<v>>) = Len(y) /\ Pairs(Is(a.unit), <<v>>, y)
  BY <1>2, LaidOne, PairsOne
<1>4. r \in Seq(Nat) /\ AsChained(r, a.offsets, q, Len(a.data))
  <2>1. Len(v) \in Nat /\ Len(a.data) \in Nat
    BY <1>0
  <2> QED BY ONLY <1>0, <2>1, ChainedOne
<1>5. Put(b, a, a.data \o v) /\ b.offsets = r
  BY <1>0, StringsPut
<1>6. Text!Push(a, v) = c
  BY <1>0, TextSame DEF Text!Push
<1> HIDE DEF b, r, q
<1>7. Turned(c, b, a, w \o y)
  BY <1>0, <1>2, <1>5, TurnPush DEF Put
<1> HIDE DEF c, y
<1>8. Like(c, a) /\ TextKept(c, w \o y)
  BY <1>0, <1>1, <1>3, <1>4, <1>5, <1>7, TextGrown
<1> QED BY <1>6, <1>8 DEF y

(* The last offset repeated is the chain of as many empty strings.         *)
LEMMA ChainedAll ==
  ASSUME NEW p \in Seq(Nat), NEW n \in Nat, NEW k \in Nat, NEW z, z = k
  PROVE  p \o Fixed!All(n, z) \in Seq(Nat) /\ AsChained(p \o Fixed!All(n, z), p, Fixed!All(n + 1, 0), k)
<1> DEFINE t == Fixed!All(n, z)
           q == Fixed!All(n + 1, 0)
           r == p \o t
<1>1. t \in Seq(Nat) /\ Len(t) = n /\ \A i \in 1..n : t[i] = k
  BY AllIs
<1>2. Len(q) = n + 1 /\ \A i \in 1..n + 1 : q[i] = 0
  <2>1. n + 1 \in Nat /\ 0 \in Nat
    OBVIOUS
  <2> QED BY <2>1, AllIs
<1> HIDE DEF t, q
<1>3. r \in Seq(Nat) /\ AsJoin(r, p, t) /\ Len(p) \in Nat
  BY <1>1, JoinIs
<1> HIDE DEF r
<1>4. ASSUME NEW i \in 1..Len(r) PROVE r[i] = IF i <= Len(p) THEN p[i] ELSE q[i - Len(p) + 1] + k
  <2>1. CASE i <= Len(p)
    BY <1>3, <2>1 DEF AsJoin
  <2>2. CASE ~(i <= Len(p))
    <3>1. i - Len(p) \in 1..n /\ i - Len(p) + 1 \in 1..n + 1
      BY <1>1, <1>3, <2>2 DEF AsJoin
    <3> QED BY <1>1, <1>2, <1>3, <2>2, <3>1 DEF AsJoin
  <2> QED BY <2>1, <2>2
<1>5. Len(r) = Len(p) + Len(q) - 1
  BY <1>1, <1>2, <1>3 DEF AsJoin
<1>6. AsChained(r, p, q, k)
  BY <1>4, <1>5 DEF AsChained
<1> QED BY <1>3, <1>6 DEF r, t, q

(* push_nulls of a string array adds that many nulls, over empty strings.  *)
LEMMA TextPushNulls ==
  ASSUME NEW a, NEW w, TextKept(a, w), WholeAt(a, w), NEW k \in Nat
  PROVE  LET c == Text!PushNulls(a, k) IN Like(c, a) /\ TextKept(c, w \o Fixed!All(k, <<>>))
<1> DEFINE y == Fixed!All(k, <<>>)
           z == Text!Ends(a.offsets)
           r == a.offsets \o Fixed!All(k, z)
           q == Fixed!All(k + 1, 0)
           b == Text!Strings(a, a.data, r)
           c == Fixed!NullTo(b, Len(w) + k, k)
<1>0. Fields(a) /\ Frame(a, w) /\ "offsets" \in DOMAIN a /\ Text!Length(a) = Len(w) /\ w \in Seq(WantRow) /\ a.unit \in Nat
      /\ a.data \in Seq(Byte) /\ a.offsets \in Seq(Nat) /\ Len(a.data) \in Nat
  BY TextOf
<1>1. PICK c0 \in Seq(Seq(Byte)) : Laid(a.data, a.offsets, c0) /\ Len(c0) = Len(w) /\ Pairs(Is(a.unit), c0, w)
  BY TextOf
<1>2. z = Len(a.data)
  BY <1>1, LaidOf DEF Text!Ends
<1>3. Laid(<<>>, q, y)
  BY LaidEmpties
<1>9. Len(y) = Len(y) /\ Pairs(Is(a.unit), y, y)
  <2>1. <<>> \in Seq(Byte) /\ <<>> \in WantRow
    BY DEF WantRow
  <2>2. <<<<>>, <<>>>> \in Is(a.unit)
    BY <1>0, <2>1, ByteCell, IsIs
  <2> QED BY <2>1, <2>2, PairsAll
<1>4. r \in Seq(Nat) /\ AsChained(r, a.offsets, q, Len(a.data))
  BY <1>0, <1>2, ChainedAll
<1>10. a.data \o <<>> = a.data
  BY <1>0
<1>5. Put(b, a, a.data \o <<>>) /\ b.offsets = r
  BY <1>0, <1>10, StringsPut
<1>6. Text!PushNulls(a, k) = c
  BY <1>0, TextSame DEF Text!PushNulls
<1> HIDE DEF b, r, q
<1>7. Turned(c, b, a, w \o y)
  BY <1>0, <1>5, TurnNulls DEF Put
<1> HIDE DEF c, y
<1>8. Like(c, a) /\ TextKept(c, w \o y)
  BY <1>0, <1>1, <1>3, <1>9, <1>4, <1>5, <1>7, TextGrown
<1> QED BY <1>6, <1>8 DEF y

(* One item joined on is one item appended.                                *)
LEMMA AppendAll ==
  ASSUME NEW w \in Seq(WantRow), NEW r
  PROVE  w \o Fixed!All(1, r) = Append(w, r)
<1>1. Fixed!All(1, r) = <<r>>
  BY DEF Fixed!All
<1>2. w \in Seq(WantRow \cup {r})
  OBVIOUS
<1>3. Append(w, r) = w \o <<r>>
  BY <1>2, AppendIsConcat
<1> QED BY <1>1, <1>3

(* push_null of a string array adds a null.                                *)
LEMMA TextPushNull ==
  ASSUME NEW a, NEW w, TextKept(a, w), WholeAt(a, w)
  PROVE  LET c == Text!PushNull(a) IN Like(c, a) /\ TextKept(c, Append(w, <<>>))
<1>1. Text!PushNull(a) = Text!PushNulls(a, 1)
  BY DEF Text!PushNull
<1>2. w \in Seq(WantRow)
  BY TextOf
<1>3. w \o Fixed!All(1, <<>>) = Append(w, <<>>)
  BY <1>2, AppendAll
<1>4. LET c == Text!PushNulls(a, 1) IN Like(c, a) /\ TextKept(c, w \o Fixed!All(1, <<>>))
  BY 1 \in Nat, TextPushNulls
<1> QED BY <1>1, <1>3, <1>4

(* A string array some of whose strings are replaced has the rows that     *)
(* correspond to them.                                                     *)
LEMMA TextMended ==
  ASSUME NEW a, NEW c0, Fields(a), "offsets" \in DOMAIN a, Laid(a.data, a.offsets, c0),
         NEW e, NEW q, NEW g, Laid(e, q, g),
         NEW from \in Nat, NEW to \in Nat, from <= to, to <= Len(c0),
         NEW lo, NEW hi, lo = a.offsets[from + 1], hi = a.offsets[to + 1],
         NEW r \in Seq(Nat), AsMended(r, a.offsets, from, to, q, lo, (lo + Len(e)) - hi),
         NEW h \in Seq(Seq(Byte)), AsReplaced(h, c0, from, to, g), NEW x, Len(h) = Len(x), Pairs(Is(a.unit), h, x),
         NEW b, Put(b, a, (SubSeq(a.data, 1, lo) \o e) \o SubSeq(a.data, hi + 1, Len(a.data))), b.offsets = r,
         NEW c, Turned(c, b, a, x)
  PROVE  Like(c, a) /\ TextKept(c, x)
<1> DEFINE d == (SubSeq(a.data, 1, lo) \o e) \o SubSeq(a.data, hi + 1, Len(a.data))
<1>1. Laid(d, r, h) /\ Put(b, a, d)
  BY LaidReplaced
<1> HIDE DEF d
<1> QED BY <1>1, TextMade

(* The offsets after a string of another length, moved by the difference,  *)
(* are mended.                                                             *)
LEMMA SetMends ==
  ASSUME NEW d, NEW p, NEW c, Laid(d, p, c), NEW i \in 1..Len(c), NEW n \in Nat, NEW by, by = n - (p[i + 1] - p[i])
  PROVE  LET r == [j \in DOMAIN p |-> IF j > i THEN p[j] + by ELSE p[j]]
         IN  r \in Seq(Nat) /\ AsMended(r, p, i - 1, i, <<0, n>>, p[i], (p[i] + n) - p[i + 1])
<1> DEFINE r == [j \in DOMAIN p |-> IF j > i THEN p[j] + by ELSE p[j]]
           lo == p[i]
           hi == p[i + 1]
           q == <<0, n>>
<1>1. p \in Seq(Nat) /\ Len(p) = Len(c) + 1 /\ Len(c) \in Nat /\ i \in 1..Len(p) /\ i + 1 \in 1..Len(p)
      /\ (\A k, j \in 1..Len(p) : k <= j => p[k] <= p[j]) /\ DOMAIN p = 1..Len(p)
  BY LaidOf
<1>2. lo \in Nat /\ hi \in Nat /\ lo <= hi
  BY <1>1
<1>3. Len(q) = 2 /\ q[2] = n
  OBVIOUS
<1>4. by = n - (hi - lo)
  OBVIOUS
<1> HIDE DEF lo, hi, q
<1>5. by = (lo + n) - hi /\ by \in Int
  BY ONLY <1>2, <1>4, n \in Nat
<1>6. ASSUME NEW j \in 1..Len(p) PROVE /\ (IF j > i THEN p[j] + by ELSE p[j]) \in Nat
                                       /\ p[j] \in Nat /\ (j > i => hi <= p[j])
  <2>1. p[j] \in Nat
    BY <1>1
  <2>2. j > i => hi <= p[j]
    <3> SUFFICES ASSUME j > i PROVE hi <= p[j]
      OBVIOUS
    <3>1. i + 1 <= j
      BY <1>1
    <3> QED BY <1>1, <3>1 DEF hi
  <2> DEFINE v == p[j]
  <2>3. v \in Nat /\ (j > i => hi <= v)
    BY <2>1, <2>2
  <2> HIDE DEF v
  <2>4. (IF j > i THEN v + by ELSE v) \in Nat
    BY ONLY <1>2, <1>5, <2>3, n \in Nat
  <2> QED BY <2>1, <2>2, <2>4 DEF v
<1>7. r \in Seq(Nat) /\ Len(r) = Len(p)
  BY <1>1, <1>6
<1>8. \A j \in 1..Len(p) : r[j] = IF j > i THEN p[j] + by ELSE p[j]
  BY <1>1
<1> HIDE DEF r
<1>9. ASSUME NEW j \in 1..Len(r)
      PROVE  r[j] = IF j <= (i - 1) + 1 THEN p[j] ELSE IF j <= (i - 1) + Len(q) THEN q[j - (i - 1)] + lo
                                 ELSE p[j - (Len(q) - 1) + (i - (i - 1))] + by
  <2>1. (i - 1) + 1 = i /\ (i - 1) + Len(q) = i + 1 /\ (j - (Len(q) - 1)) + (i - (i - 1)) = j /\ i \in Nat /\ j \in Nat
    BY <1>1, <1>3
  <2>2. CASE j <= i
    BY <1>7, <1>8, <2>1, <2>2
  <2>3. CASE j = i + 1
    <3>1. r[j] = hi + by /\ j - (i - 1) = 2
      BY <1>1, <1>7, <1>8, <2>3 DEF hi
    <3>2. hi + by = n + lo
      BY ONLY <1>2, <1>5, n \in Nat
    <3>3. ~(j <= i) /\ j <= i + 1
      BY <2>1, <2>3
    <3> QED BY ONLY <1>3, <2>1, <3>1, <3>2, <3>3
  <2>4. CASE j > i + 1
    <3>1. ~(j <= i) /\ ~(j <= i + 1) /\ j > i
      BY <2>1, <2>4
    <3> QED BY <1>7, <1>8, <2>1, <3>1
  <2> QED BY <2>1, <2>2, <2>3, <2>4
<1>10. Len(r) = Len(p) - (i - (i - 1)) + (Len(q) - 1)
  BY <1>1, <1>3, <1>7
<1>11. AsMended(r, p, i - 1, i, q, lo, by)
  BY <1>9, <1>10 DEF AsMended
<1> QED BY <1>5, <1>7, <1>11 DEF r, q, lo, hi

(* One string set is a range of one replaced.                              *)
LEMMA SetReplaces ==
  ASSUME NEW S, NEW c \in Seq(S), NEW i \in 1..Len(c), NEW v \in S
  PROVE  LET h == [c EXCEPT ![i] = v]
         IN  h \in Seq(S) /\ AsReplaced(h, c, i - 1, i, <<v>>) /\ Len(h) = Len(c) /\ AsRange(h, c, i - 1, i, v)
<1> DEFINE h == [c EXCEPT ![i] = v]
<1>1. h \in Seq(S) /\ AsRange(h, c, i - 1, i, v)
  BY SetIs
<1>2. Len(h) = Len(c) /\ Len(c) \in Nat /\ i \in Nat /\ i - 1 \in Nat
  BY <1>1 DEF AsRange
<1> HIDE DEF h
<1>3. ASSUME NEW j \in 1..Len(h)
      PROVE  h[j] = IF j <= i - 1 THEN c[j] ELSE IF j <= (i - 1) + Len(<<v>>) THEN <<v>>[j - (i - 1)]
                    ELSE c[j - Len(<<v>>) + (i - (i - 1))]
  <2>1. Len(<<v>>) = 1 /\ <<v>>[1] = v
    OBVIOUS
  <2>2. (i - 1) + 1 = i /\ j - 1 + (i - (i - 1)) = j /\ j \in Nat
    BY <1>2
  <2>3. h[j] = IF j > i - 1 /\ j <= i THEN v ELSE c[j]
    BY <1>1, <1>2 DEF AsRange
  <2>4. CASE j <= i - 1
    BY <1>2, <2>2, <2>3, <2>4
  <2>5. CASE j = i
    <3>1. j - (i - 1) = 1 /\ ~(j <= i - 1) /\ j <= i /\ j > i - 1
      BY <1>2, <2>5
    <3> QED BY ONLY <2>1, <2>2, <2>3, <3>1
  <2>6. CASE j > i
    <3>1. ~(j <= i - 1) /\ ~(j <= i)
      BY <1>2, <2>2, <2>6
    <3> QED BY ONLY <2>1, <2>2, <2>3, <3>1
  <2> QED BY <1>2, <2>2, <2>4, <2>5, <2>6
<1>4. Len(h) = Len(c) - (i - (i - 1)) + Len(<<v>>)
  BY <1>2
<1>5. AsReplaced(h, c, i - 1, i, <<v>>)
  BY <1>3, <1>4 DEF AsReplaced
<1> QED BY <1>1, <1>2, <1>5 DEF h

(* set of a string array replaces one row, whatever the length of the      *)
(* string.                                                                 *)
LEMMA TextSet ==
  ASSUME NEW a, NEW w, TextKept(a, w), WholeAt(a, w), NEW i \in 1..Len(w), NEW v \in Seq(Byte)
  PROVE  LET c == Text!Set(a, i, v) IN Like(c, a) /\ TextKept(c, [w EXCEPT ![i] = Rowed(a.unit, v)])
<1> DEFINE u == Rowed(a.unit, v)
           x == [w EXCEPT ![i] = u]
           p == a.offsets
           by == Len(v) - (p[i + 1] - p[i])
           r == [j \in DOMAIN p |-> IF j > i THEN p[j] + by ELSE p[j]]
           d == (SubSeq(a.data, 1, p[i]) \o v) \o SubSeq(a.data, p[i + 1] + 1, Len(a.data))
           b == Text!Strings(a, d, r)
           c == Fixed!ValidAt(b, i)
<1>0. Fields(a) /\ Frame(a, w) /\ "offsets" \in DOMAIN a /\ Text!Length(a) = Len(w) /\ w \in Seq(WantRow) /\ a.unit \in Nat
      /\ Len(w) \in Nat /\ Len(v) \in Nat
  BY TextOf
<1>1. PICK c0 \in Seq(Seq(Byte)) : Laid(a.data, a.offsets, c0) /\ Len(c0) = Len(w) /\ Pairs(Is(a.unit), c0, w)
  BY TextOf
<1> DEFINE h == [c0 EXCEPT ![i] = v]
<1>2. /\ u \in WantRow /\ u # <<>> /\ <<v, u>> \in Is(a.unit)
  BY <1>0, RowedIs, ByteCell
<1>3. Laid(v, <<0, Len(v)>>, <<v>>)
  BY LaidOne
<1>4. r \in Seq(Nat) /\ AsMended(r, p, i - 1, i, <<0, Len(v)>>, p[i], (p[i] + Len(v)) - p[i + 1])
  BY <1>0, <1>1, SetMends
<1>5. Put(b, a, d) /\ b.offsets = r
  BY <1>0, StringsPut
<1>6. Text!Set(a, i, v) = c
  BY TextSame DEF Text!Set, Text!Start, Text!End
<1> HIDE DEF b, r
<1>7. Turned(c, b, a, x)
  BY <1>0, <1>2, <1>5, TurnSet DEF Put
<1>8. h \in Seq(Seq(Byte)) /\ AsReplaced(h, c0, i - 1, i, <<v>>) /\ Len(h) = Len(c0) /\ AsRange(h, c0, i - 1, i, v)
  BY <1>1, SetReplaces
<1>9. x \in Seq(WantRow) /\ AsRange(x, w, i - 1, i, u)
  BY <1>0, <1>2, SetIs
<1> HIDE DEF c, h, x, u
<1>10. i - 1 \in Nat /\ i \in Nat /\ i - 1 <= i /\ i <= Len(c0) /\ (i - 1) + 1 = i /\ Len(x) = Len(w)
  BY <1>0, <1>1, <1>9 DEF AsRange
<1>11. Pairs(Is(a.unit), h, x)
  BY <1>1, <1>2, <1>8, <1>9, <1>10, PairsRange
<1>12. Like(c, a) /\ TextKept(c, x)
  BY <1>0, <1>1, <1>3, <1>4, <1>5, <1>7, <1>8, <1>10, <1>11, TextMended
<1> QED BY <1>6, <1>12 DEF x, u

(* Induction on natural numbers, for sets: were x not in T, n |-> n - 1    *)
(* would map the numbers up to x that are not in T one to one into         *)
(* themselves, missing x.                                                  *)
LEMMA Induction ==
  ASSUME NEW T, 0 \in T, \A n \in Nat : n \in T => n + 1 \in T
  PROVE  \A n \in Nat : n \in T
<1>1. SUFFICES ASSUME NEW x \in Nat, x \notin T PROVE FALSE
  OBVIOUS
<1> DEFINE S == {n \in Nat : n <= x /\ n \notin T}
           f == [n \in S |-> n - 1]
<1>2. IsFiniteSet(S)
  BY FS_BoundedSetOfNaturals
<1>3. \A n \in S : n - 1 \in S
  <2> TAKE n \in S
  <2>1. n # 0
    OBVIOUS
  <2>2. n - 1 \in Nat /\ n - 1 <= x
    BY <2>1
  <2>3. n - 1 \notin T
    BY <2>2
  <2> QED BY <2>2, <2>3
<1>4. f \in Injection(S, S)
  BY <1>3 DEF Injection, IsInjective
<1>5. f \in Surjection(S, S)
  BY <1>2, <1>4, FS_Injection
<1>6. x \in {n \in Nat : n <= x /\ n \notin T}
  BY <1>1
<1>7. \E n \in S : f[n] = x
  <2>1. x \in S
    BY <1>6
  <2> HIDE DEF S, f
  <2> QED BY <1>5, <2>1 DEF Surjection
<1> QED BY <1>7

(* Setting the bit of a row leaves a whole mask whole.                     *)
LEMMA WholeSet ==
  ASSUME NEW a, NEW w, Frame(a, w), WholeAt(a, w), NEW i \in 1..Len(w), NEW b, Moved(b, a), NEW x, Len(x) = Len(w)
  PROVE  WholeAt(Fixed!ValidAt(b, i), x)
<1> DEFINE m == Fixed!SetBits(a.mask, i - 1, i, Yes)
           c == Fixed!ValidAt(b, i)
<1>0. a.masked = b.masked /\ a.mask = b.mask /\ a.mask \in Seq(Bits) /\ {"masked", "mask"} \subseteq DOMAIN b /\ Len(w) \in Nat
      /\ w \in Seq(WantRow) /\ i - 1 \in Nat /\ i \in Nat
  BY MovedMarks DEF Marks
<1>1. m \in Seq(Bits) /\ AsSetBits(m, a.mask, i - 1, i, Yes)
  BY <1>0, SetBitsIs, YesNo
<1>2. c = Fixed!OnMask(b, m)
  BY <1>0 DEF Fixed!ValidAt, Fixed!SetBit, Yes
<1> HIDE DEF m, c
<1>4. CASE a.masked
  <2>0. Len(a.mask) >= Len(w) /\ Len(a.mask) \in Nat /\ \A j \in Len(w) + 1..Len(a.mask) : a.mask[j] = Yes
    BY <1>0, <1>4 DEF WholeAt, WholeTo
  <2>1. c.mask = m /\ c.masked = TRUE
    BY <1>0, <1>2, <1>4, MaskedIs DEF Fixed!OnMask
  <2>2. Len(m) = Len(a.mask)
    BY <1>0, <1>1, <2>0 DEF AsSetBits
  <2>3. ASSUME NEW j \in Len(w) + 1..Len(m) PROVE m[j] = Yes
    BY <1>0, <1>1, <2>0, <2>2 DEF AsSetBits
  <2>4. WholeTo(c.masked, c.mask, Len(x))
    BY <2>0, <2>1, <2>2, <2>3 DEF WholeTo
  <2> QED BY <2>4 DEF WholeAt, c
<1>5. CASE ~a.masked
  <2>1. c = b
    BY <1>0, <1>2, <1>5 DEF Fixed!OnMask
  <2>2. WholeTo(c.masked, c.mask, Len(x))
    BY <1>0, <1>5, <2>1 DEF WholeTo
  <2> QED BY <2>2 DEF WholeAt, c
<1> QED BY <1>4, <1>5

(* So does set of a string array.                                          *)
LEMMA TextSetWhole ==
  ASSUME NEW a, NEW w, TextKept(a, w), WholeAt(a, w), NEW i \in 1..Len(w), NEW v, NEW x, Len(x) = Len(w)
  PROVE  WholeAt(Text!Set(a, i, v), x)
<1> DEFINE p == a.offsets
           by == Len(v) - (p[i + 1] - p[i])
           r == [j \in DOMAIN p |-> IF j > i THEN p[j] + by ELSE p[j]]
           d == (SubSeq(a.data, 1, p[i]) \o v) \o SubSeq(a.data, p[i + 1] + 1, Len(a.data))
           b == Text!Strings(a, d, r)
<1>0. Fields(a) /\ Frame(a, w) /\ "offsets" \in DOMAIN a
  BY TextOf
<1>5. Moved(b, a)
  BY <1>0, StringsPut DEF Put
<1>6. Text!Set(a, i, v) = Fixed!ValidAt(b, i)
  BY TextSame DEF Text!Set, Text!Start, Text!End
<1> HIDE DEF b
<1> QED BY <1>0, <1>5, <1>6, WholeSet

(* A range of rows overwritten, one row further.                           *)
LEMMA RangeGrows ==
  ASSUME NEW w \in Seq(WantRow), NEW from \in Nat, NEW k \in Nat, from <= k, k + 1 <= Len(w), NEW u \in WantRow,
         NEW x \in Seq(WantRow), AsRange(x, w, from, k, u)
  PROVE  LET y == [x EXCEPT ![k + 1] = u] IN y \in Seq(WantRow) /\ AsRange(y, w, from, k + 1, u)
<1> DEFINE y == [x EXCEPT ![k + 1] = u]
<1>1. Len(x) = Len(w) /\ Len(w) \in Nat /\ k + 1 \in 1..Len(x)
  BY DEF AsRange
<1>2. y \in Seq(WantRow) /\ AsRange(y, x, (k + 1) - 1, k + 1, u)
  BY <1>1, SetIs
<1> HIDE DEF y
<1>3. Len(y) = Len(w)
  BY <1>1, <1>2 DEF AsRange
<1>4. ASSUME NEW i \in 1..Len(w) PROVE y[i] = IF i > from /\ i <= k + 1 THEN u ELSE w[i]
  <2>1. x[i] = IF i > from /\ i <= k THEN u ELSE w[i]
    BY DEF AsRange
  <2>2. y[i] = IF i > k /\ i <= k + 1 THEN u ELSE x[i]
    <3>1. (k + 1) - 1 = k /\ i \in 1..Len(x)
      BY <1>1
    <3> QED BY <1>2, <3>1 DEF AsRange
  <2> QED BY <1>1, <2>1, <2>2
<1>5. AsRange(y, w, from, k + 1, u)
  BY <1>3, <1>4 DEF AsRange
<1> QED BY <1>2, <1>5 DEF y

(* A range set in a string array, one string after the other, replaces     *)
(* those rows.                                                             *)
LEMMA TextSetRange ==
  ASSUME NEW a, NEW w, TextKept(a, w), WholeAt(a, w), NEW from \in Nat, NEW to \in Nat, from <= to, to <= Len(w),
         NEW v \in Seq(Byte), NEW x \in Seq(WantRow), AsRange(x, w, from, to, Rowed(a.unit, v))
  PROVE  LET c == Text!SetRange(a, from, to, v) IN Like(c, a) /\ TextKept(c, x)
<1> DEFINE u == Rowed(a.unit, v)
           R(g, n) == g = [k \in from..n |-> IF k = from THEN a ELSE Text!Set(g[k - 1], k, v)]
           upTo == CHOOSE g : R(g, to)
           T == {n \in Nat : \E g : R(g, from + n)}
<1>0. u \in WantRow /\ w \in Seq(WantRow) /\ Len(w) \in Nat /\ a.unit \in Nat
  BY TextOf, RowedIs, ByteCell
<1>1. 0 \in T
  <2> DEFINE g == [k \in from..from + 0 |-> a]
  <2>1. \A k \in from..from + 0 : k = from
    OBVIOUS
  <2>2. R(g, from + 0)
    BY <2>1
  <2> HIDE DEF g, R
  <2> QED BY <2>2
<1>2. ASSUME NEW n \in Nat, n \in T PROVE n + 1 \in T
  <2>1. PICK g : R(g, from + n)
    BY <1>2
  <2> DEFINE last == Text!Set(g[from + n], from + (n + 1), v)
             h == [k \in from..from + (n + 1) |-> IF k <= from + n THEN g[k] ELSE last]
  <2>2. ASSUME NEW k \in from..from + (n + 1) PROVE h[k] = IF k = from THEN a ELSE Text!Set(h[k - 1], k, v)
    <3>1. CASE k = from
      <4>1. k <= from + n /\ k \in from..from + n
        BY <3>1
      <4>2. g[k] = a
        BY <2>1, <3>1, <4>1
      <4> QED BY <3>1, <4>1, <4>2
    <3>2. CASE k # from /\ k <= from + n
      <4>1. k \in from..from + n /\ k - 1 \in from..from + (n + 1) /\ k - 1 <= from + n
        BY <3>2
      <4>2. g[k] = Text!Set(g[k - 1], k, v)
        BY <2>1, <3>2, <4>1
      <4> QED BY <3>2, <4>1, <4>2
    <3>3. CASE k = from + (n + 1)
      <4>1. k # from /\ ~(k <= from + n) /\ k - 1 = from + n /\ k - 1 \in from..from + (n + 1)
        BY <3>3
      <4> QED BY <3>3, <4>1
    <3> QED BY <3>1, <3>2, <3>3
  <2> HIDE DEF last
  <2>3. h = [k \in from..from + (n + 1) |-> h[k]]
    OBVIOUS
  <2> HIDE DEF h
  <2>4. R(h, from + (n + 1))
    BY <2>2, <2>3
  <2> HIDE DEF R
  <2> QED BY <2>4
<1>3. \E g : R(g, to)
  <2>1. to - from \in Nat /\ from + (to - from) = to
    OBVIOUS
  <2> HIDE DEF T
  <2>2. to - from \in T
    BY <1>1, <1>2, <2>1, Induction
  <2> HIDE DEF R
  <2> QED BY <2>1, <2>2 DEF T
<1>4. R(upTo, to)
  <2> HIDE DEF R
  <2> QED BY <1>3
<1>5. Text!SetRange(a, from, to, v) = upTo[to]
  BY DEF Text!SetRange
<1> HIDE DEF upTo
<1>6. upTo[from] = a /\ \A k \in from..to : k # from => upTo[k] = Text!Set(upTo[k - 1], k, v)
  BY <1>4
<1> HIDE DEF R, T
<1> DEFINE Good(c, k) == \E z \in Seq(WantRow) : Like(c, a) /\ TextKept(c, z) /\ WholeAt(c, z) /\ AsRange(z, w, from, k, u)
           U == {n \in Nat : from + n <= to => Good(upTo[from + n], from + n)}
<1>7. 0 \in U
  <2>1. from + 0 = from /\ Like(a, a)
    BY DEF Like
  <2>2. AsRange(w, w, from, from, u)
    BY <1>0 DEF AsRange
  <2>3. Good(a, from)
    BY <1>0, <2>1, <2>2
  <2> HIDE DEF Good
  <2> QED BY <1>6, <2>1, <2>3
<1>8. ASSUME NEW n \in Nat, n \in U PROVE n + 1 \in U
  <2> SUFFICES ASSUME from + (n + 1) <= to PROVE Good(upTo[from + (n + 1)], from + (n + 1))
    BY DEF U
  <2> DEFINE k == from + n
             b == upTo[k]
  <2>1. Good(b, k) /\ k \in Nat /\ from <= k /\ k + 1 <= Len(w) /\ from + (n + 1) = k + 1 /\ k + 1 \in from..to /\ k + 1 # from /\ (k + 1) - 1 = k
    BY <1>0, <1>8
  <2> HIDE DEF k
  <2>2. upTo[k + 1] = Text!Set(b, k + 1, v)
    BY <1>6, <2>1
  <2> HIDE DEF b
  <2>3. PICK z \in Seq(WantRow) : Like(b, a) /\ TextKept(b, z) /\ WholeAt(b, z) /\ AsRange(z, w, from, k, u)
    BY <2>1
  <2>4. Len(z) = Len(w) /\ k + 1 \in 1..Len(z) /\ b.unit = a.unit
    BY <2>1, <2>3 DEF AsRange, Like
  <2> DEFINE y == [z EXCEPT ![k + 1] = u]
             c == Text!Set(b, k + 1, v)
  <2>5. y \in Seq(WantRow) /\ AsRange(y, w, from, k + 1, u)
    BY <1>0, <2>1, <2>3, RangeGrows
  <2>6. Like(c, b) /\ TextKept(c, y)
    BY <2>3, <2>4, TextSet
  <2> HIDE DEF y
  <2>7. Len(y) = Len(z)
    BY <2>4, <2>5 DEF AsRange
  <2>8. WholeAt(c, y)
    BY <2>3, <2>4, <2>7, TextSetWhole
  <2> HIDE DEF c
  <2>9. Like(c, a)
    BY <2>3, <2>6 DEF Like
  <2>10. Good(c, k + 1)
    BY <2>5, <2>6, <2>8, <2>9
  <2> QED BY <2>1, <2>2, <2>10 DEF c
<1>9. Good(upTo[to], to)
  <2>1. to - from \in Nat /\ from + (to - from) = to
    OBVIOUS
  <2> HIDE DEF U
  <2>2. to - from \in U
    BY <1>7, <1>8, <2>1, Induction
  <2> HIDE DEF Good
  <2> QED BY <2>1, <2>2 DEF U
<1>10. PICK z \in Seq(WantRow) : Like(upTo[to], a) /\ TextKept(upTo[to], z) /\ AsRange(z, w, from, to, u)
  BY <1>9
<1>11. z = x
  <2>1. Len(z) = Len(x) /\ \A i \in 1..Len(z) : z[i] = x[i]
    BY <1>10 DEF AsRange
  <2> QED BY <2>1, SeqEqual
<1> QED BY <1>5, <1>10, <1>11

(* A loop that does one step for each of 1..n has run: there is a function *)
(* of the values it goes through.                                          *)
LEMMA LoopRuns ==
  \A S : \A b \in S, n \in Nat : \A f \in [1..n -> [S -> S]] :
    \E g \in [0..n -> S] : g[0] = b /\ \A k \in 1..n : g[k] = f[k][g[k - 1]]
<1> SUFFICES ASSUME NEW S, NEW b \in S, NEW n \in Nat, NEW f \in [1..n -> [S -> S]]
             PROVE  \E g \in [0..n -> S] : g[0] = b /\ \A k \in 1..n : g[k] = f[k][g[k - 1]]
  OBVIOUS
<1> DEFINE Good(j, g) == g[0] = b /\ \A k \in 1..j : g[k] = f[k][g[k - 1]]
           T == {j \in Nat : j <= n => \E g \in [0..j -> S] : Good(j, g)}
<1>1. 0 \in T
  <2>1. [k \in 0..0 |-> b] \in [0..0 -> S] /\ Good(0, [k \in 0..0 |-> b])
    OBVIOUS
  <2> QED BY <2>1
<1>2. ASSUME NEW j \in Nat, j \in T PROVE j + 1 \in T
  <2> SUFFICES ASSUME j + 1 <= n PROVE \E g \in [0..j+1 -> S] : Good(j + 1, g)
    OBVIOUS
  <2>1. PICK g \in [0..j -> S] : Good(j, g)
    BY <1>2
  <2> DEFINE next == f[j + 1][g[j]]
             h == [k \in 0..j+1 |-> IF k <= j THEN g[k] ELSE next]
  <2>2. next \in S
    <3>1. j + 1 \in 1..n /\ g[j] \in S
      BY <2>1
    <3> QED BY <3>1
  <2> HIDE DEF next
  <2>3. h \in [0..j+1 -> S]
    BY <2>1, <2>2
  <2>4. h[0] = b
    BY <2>1
  <2>5. ASSUME NEW k \in 1..j+1 PROVE h[k] = f[k][h[k - 1]]
    <3>1. h[k - 1] = g[k - 1]
      OBVIOUS
    <3>2. CASE k <= j
      <4>1. h[k] = g[k] /\ k \in 1..j
        BY <3>2
      <4> QED BY <2>1, <3>1, <4>1
    <3>3. CASE k = j + 1
      <4>1. h[k] = next /\ k - 1 = j
        BY <3>3
      <4> QED BY <3>1, <3>3, <4>1 DEF next
    <3> QED BY <3>2, <3>3
  <2> QED BY <2>3, <2>4, <2>5
<1>3. n \in T
  <2> HIDE DEF T
  <2> QED BY <1>1, <1>2, Induction
<1> QED BY <1>3

(* EndsFrom adds the lengths up, from the base.                            *)
LEMMA EndsAre ==
  ASSUME NEW base \in Nat, NEW vs, vs \in Seq(Seq(Byte))
  PROVE  \E f \in [0..Len(vs) -> Nat] :
           /\ f[0] = base /\ \A k \in 1..Len(vs) : f[k] = f[k - 1] + Len(vs[k])
           /\ Text!EndsFrom(base, vs) = [i \in 1..Len(vs) |-> f[i]]
<1> DEFINE n == Len(vs)
           R(g) == g = [i \in 0..n |-> IF i = 0 THEN base ELSE g[i - 1] + Len(vs[i])]
           endOf == CHOOSE g : R(g)
           step == [k \in 1..n |-> [x \in Nat |-> x + Len(vs[k])]]
<1>0. n \in Nat /\ \A k \in 1..n : Len(vs[k]) \in Nat
  <2>1. \A k \in 1..n : vs[k] \in Seq(Byte)
    OBVIOUS
  <2> QED BY <2>1
<1>1. step \in [1..n -> [Nat -> Nat]] /\ \A k \in 1..n : \A x \in Nat : step[k][x] = x + Len(vs[k])
  BY <1>0
<1> HIDE DEF step
<1>2. \E g \in [0..n -> Nat] : g[0] = base /\ \A k \in 1..n : g[k] = step[k][g[k - 1]]
  <2>1. n \in Nat /\ step \in [1..n -> [Nat -> Nat]] /\ base \in Nat
    BY <1>0, <1>1
  <2> DEFINE all == Nat
             start == base
  <2>2. start \in all /\ n \in Nat /\ step \in [1..n -> [all -> all]]
    BY <2>1
  <2> HIDE DEF all, n, start, R
  <2>3. \E g \in [0..n -> all] : g[0] = start /\ \A k \in 1..n : g[k] = step[k][g[k - 1]]
    BY ONLY <2>2, LoopRuns
  <2> QED BY <2>3 DEF all, start
<1>3. PICK g \in [0..n -> Nat] : g[0] = base /\ \A k \in 1..n : g[k] = step[k][g[k - 1]]
  BY <1>2
<1>4. ASSUME NEW k \in 1..n PROVE k - 1 \in 0..n /\ k \in 0..n /\ g[k] = g[k - 1] + Len(vs[k])
  <2>1. k - 1 \in 0..n /\ k \in 0..n
    BY <1>0
  <2>2. g[k - 1] \in Nat /\ g[k] = step[k][g[k - 1]]
    BY <1>3, <2>1
  <2>3. step[k][g[k - 1]] = g[k - 1] + Len(vs[k])
    BY <1>1, <2>2
  <2> QED BY <2>1, <2>2, <2>3
<1>5. R(g)
  <2>1. \A i \in 0..n : g[i] = IF i = 0 THEN base ELSE g[i - 1] + Len(vs[i])
    <3> TAKE i \in 0..n
    <3>1. i = 0 \/ i \in 1..n
      BY <1>0
    <3> QED BY <1>3, <1>4, <3>1
  <2>2. g = [i \in 0..n |-> g[i]]
    OBVIOUS
  <2> QED BY <2>1, <2>2
<1>6. R(endOf)
  <2> HIDE DEF R
  <2> QED BY <1>5
<1>7. Text!EndsFrom(base, vs) = [i \in 1..n |-> endOf[i]]
  BY DEF Text!EndsFrom
<1> HIDE DEF endOf
<1>8. endOf[0] = base /\ DOMAIN endOf = 0..n /\ \A k \in 1..n : endOf[k] = endOf[k - 1] + Len(vs[k])
  <2>1. endOf = [i \in 0..n |-> IF i = 0 THEN base ELSE endOf[i - 1] + Len(vs[i])]
    BY <1>6
  <2> HIDE DEF R, n
  <2>2. DOMAIN endOf = 0..n
    BY <2>1
  <2>3. endOf[0] = base
    BY <1>0, <2>1
  <2>4. ASSUME NEW k \in 1..n PROVE endOf[k] = endOf[k - 1] + Len(vs[k])
    <3>1. k \in 0..n /\ k # 0
      BY <1>0
    <3> QED BY <2>1, <3>1
  <2> QED BY <2>2, <2>3, <2>4
<1>9. endOf = [i \in 0..n |-> endOf[i]]
  BY <1>6
<1> HIDE DEF R
<1> DEFINE T == {k \in Nat : k <= n => endOf[k] \in Nat}
<1>10. 0 \in T
  BY <1>8
<1>11. ASSUME NEW k \in Nat, k \in T PROVE k + 1 \in T
  <2> SUFFICES ASSUME k + 1 <= n PROVE endOf[k + 1] \in Nat
    OBVIOUS
  <2>1. k + 1 \in 1..n /\ (k + 1) - 1 = k /\ endOf[k] \in Nat
    BY <1>0, <1>11
  <2>2. endOf[k + 1] = endOf[k] + Len(vs[k + 1]) /\ Len(vs[k + 1]) \in Nat
    BY <1>0, <1>8, <2>1
  <2> DEFINE x == endOf[k]
             y == Len(vs[k + 1])
  <2>3. x \in Nat /\ y \in Nat /\ endOf[k + 1] = x + y
    BY <2>1, <2>2
  <2> HIDE DEF x, y
  <2> QED BY ONLY <2>3
<1>12. \A k \in Nat : k \in T
  <2> HIDE DEF T
  <2> QED BY <1>10, <1>11, Induction
<1>13. \A k \in 0..n : endOf[k] \in Nat
  BY <1>0, <1>12
<1>14. endOf \in [0..n -> Nat]
  BY <1>9, <1>13
<1> QED BY <1>7, <1>8, <1>14

(* FlattenSeq joins the strings up, from the first.                        *)
LEMMA FlatIs ==
  ASSUME NEW vs, vs \in Seq(Seq(Byte)), Len(vs) # 0
  PROVE  \E f : /\ f[1] = vs[1] /\ \A k \in 2..Len(vs) : f[k] = f[k - 1] \o vs[k]
                /\ Text!FlattenSeq(vs) = f[Len(vs)]
<1> DEFINE n == Len(vs)
           R(g) == g = [i \in 1..n |-> IF i = 1 THEN vs[i] ELSE g[i - 1] \o vs[i]]
           flatten == CHOOSE g : R(g)
           step == [k \in 1..n |-> [x \in Seq(Byte) |-> x \o vs[k]]]
<1>0. n \in Nat /\ n >= 1 /\ \A k \in 1..n : vs[k] \in Seq(Byte)
  OBVIOUS
<1>1. step \in [1..n -> [Seq(Byte) -> Seq(Byte)]] /\ \A k \in 1..n : \A x \in Seq(Byte) : step[k][x] = x \o vs[k]
  BY <1>0
<1> HIDE DEF step
<1>2. \E g \in [0..n -> Seq(Byte)] : g[0] = <<>> /\ \A k \in 1..n : g[k] = step[k][g[k - 1]]
  <2>1. n \in Nat /\ step \in [1..n -> [Seq(Byte) -> Seq(Byte)]] /\ <<>> \in Seq(Byte)
    BY <1>0, <1>1
  <2> DEFINE all == Seq(Byte)
             start == <<>>
  <2>2. start \in all /\ n \in Nat /\ step \in [1..n -> [all -> all]]
    BY <2>1
  <2> HIDE DEF all, n, start, R
  <2>3. \E g \in [0..n -> all] : g[0] = start /\ \A k \in 1..n : g[k] = step[k][g[k - 1]]
    BY ONLY <2>2, LoopRuns
  <2> QED BY <2>3 DEF all, start
<1>3. PICK g \in [0..n -> Seq(Byte)] : g[0] = <<>> /\ \A k \in 1..n : g[k] = step[k][g[k - 1]]
  BY <1>2
<1> DEFINE h == [k \in 1..n |-> g[k]]
<1>4. ASSUME NEW i \in 1..n PROVE h[i] = IF i = 1 THEN vs[i] ELSE h[i - 1] \o vs[i]
  <2>0. i - 1 \in 0..n
    BY <1>0
  <2>1. g[i] = step[i][g[i - 1]] /\ g[i - 1] \in Seq(Byte) /\ i - 1 \in 0..n
    BY <1>3, <2>0
  <2>2. g[i] = g[i - 1] \o vs[i]
    BY <1>1, <2>1
  <2>3. CASE i = 1
    <3>1. g[i - 1] = <<>>
      BY <1>3, <2>3
    <3>2. <<>> \o vs[i] = vs[i]
      BY <1>0
    <3> QED BY <2>2, <2>3, <3>1, <3>2
  <2>4. CASE i # 1
    <3>1. i - 1 \in 1..n
      BY <1>0, <2>4
    <3> QED BY <2>2, <2>4, <3>1
  <2> QED BY <2>3, <2>4
<1>5. R(h)
  <2>1. h = [k \in 1..n |-> h[k]]
    OBVIOUS
  <2> HIDE DEF h
  <2> QED BY <1>4, <2>1
<1>6. R(flatten)
  <2> HIDE DEF R, h
  <2> QED BY <1>5
<1>7. Text!FlattenSeq(vs) = flatten[n]
  BY DEF Text!FlattenSeq
<1> HIDE DEF flatten
<1>8. flatten[1] = vs[1] /\ \A k \in 2..n : flatten[k] = flatten[k - 1] \o vs[k]
  <2>1. 1 \in 1..n /\ \A k \in 2..n : k \in 1..n /\ k # 1
    BY <1>0
  <2> QED BY <1>6, <2>1
<1> QED BY <1>7, <1>8

(* The running ends, one string further, are the chain of that string.     *)
LEMMA ChainedNext ==
  ASSUME NEW N \in Nat, NEW e \in [0..N -> Nat], NEW n \in Nat, n + 1 <= N, NEW m \in Nat, e[n + 1] = e[n] + m, NEW k, k = e[n]
  PROVE  AsChained([i \in 1..(n + 1) + 1 |-> e[i - 1]], [i \in 1..n + 1 |-> e[i - 1]], <<0, m>>, k)
         /\ [i \in 1..(n + 1) + 1 |-> e[i - 1]] \in Seq(Nat)
<1> DEFINE r == [i \in 1..(n + 1) + 1 |-> e[i - 1]]
           p == [i \in 1..n + 1 |-> e[i - 1]]
           q == <<0, m>>
<1>1. \A i \in 1..(n + 1) + 1 : i - 1 \in 0..N /\ e[i - 1] \in Nat
  OBVIOUS
<1>2. r \in Seq(Nat) /\ Len(r) = (n + 1) + 1 /\ \A i \in 1..(n + 1) + 1 : r[i] = e[i - 1]
  BY <1>1
<1>3. Len(p) = n + 1 /\ \A i \in 1..n + 1 : p[i] = e[i - 1]
  BY <1>1
<1>4. Len(q) = 2 /\ q[2] = m
  OBVIOUS
<1> HIDE DEF r, p, q
<1>5. ASSUME NEW i \in 1..Len(r) PROVE r[i] = IF i <= Len(p) THEN p[i] ELSE q[i - Len(p) + 1] + k
  <2>1. CASE i <= n + 1
    BY <1>2, <1>3, <2>1
  <2>2. CASE i = (n + 1) + 1
    <3>1. i - Len(p) + 1 = 2 /\ ~(i <= Len(p)) /\ i - 1 = n + 1
      BY <1>3, <2>2
    <3>2. e[n] \in Nat
      OBVIOUS
    <3>3. e[n + 1] = m + k
      BY <3>2
    <3> QED BY <1>2, <1>4, <3>1, <3>3
  <2> QED BY <1>2, <2>1, <2>2
<1>6. Len(r) = Len(p) + Len(q) - 1
  BY <1>2, <1>3, <1>4
<1>7. AsChained(r, p, q, k)
  BY <1>5, <1>6 DEF AsChained
<1> QED BY <1>2, <1>7 DEF r, p, q

(* No strings, no bytes.                                                   *)
LEMMA LaidNone == Laid(<<>>, <<0>>, <<>>)
<1>1. Laid(<<>>, Fixed!All(0 + 1, 0), Fixed!All(0, <<>>))
  BY 0 \in Nat, LaidEmpties
<1>2. Fixed!All(0 + 1, 0) = <<0>> /\ Fixed!All(0, <<>>) = <<>>
  BY DEF Fixed!All
<1> QED BY <1>1, <1>2

(* Strings joined lie at the running sum of their lengths: by induction on *)
(* how many are joined.                                                    *)
LEMMA LaidRun ==
  ASSUME NEW vs \in Seq(Seq(Byte)), NEW e \in [0..Len(vs) -> Nat], e[0] = 0,
         \A k \in 1..Len(vs) : e[k] = e[k - 1] + Len(vs[k])
  PROVE  Laid(Text!FlattenSeq(vs), [i \in 1..Len(vs) + 1 |-> e[i - 1]], vs)
<1> DEFINE N == Len(vs)
           P(n) == [i \in 1..n + 1 |-> e[i - 1]]
<1>0. N \in Nat /\ \A k \in 1..N : vs[k] \in Seq(Byte) /\ Len(vs[k]) \in Nat
  <2>1. N \in Nat /\ \A k \in 1..N : vs[k] \in Seq(Byte)
    OBVIOUS
  <2> QED BY <2>1
<1>1. CASE N = 0
  <2>1. vs = <<>>
    BY <1>1
  <2>2. Text!FlattenSeq(vs) = <<>>
    BY <1>1, <2>1 DEF Text!FlattenSeq
  <2>3. P(N) = <<0>>
    BY <1>1
  <2> QED BY <2>1, <2>2, <2>3, LaidNone
<1>2. CASE N # 0
  <2>1. PICK f : /\ f[1] = vs[1] /\ \A k \in 2..N : f[k] = f[k - 1] \o vs[k]
                 /\ Text!FlattenSeq(vs) = f[N]
    BY <1>2, FlatIs
  <2> DEFINE T == {n \in Nat : n + 1 <= N => Laid(f[n + 1], P(n + 1), SubSeq(vs, 1, n + 1))}
  <2>3. 0 \in T
    <3>1. Laid(vs[1], <<0, Len(vs[1])>>, <<vs[1]>>)
      BY <1>0, <1>2, LaidOne
    <3>2. P(0 + 1) = <<0, Len(vs[1])>>
      <4>1. e[1] = Len(vs[1]) /\ e[0] = 0
        BY <1>0, <1>2
      <4> QED BY <4>1
    <3>3. SubSeq(vs, 1, 0 + 1) = <<vs[1]>>
      BY <1>0, <1>2
    <3>4. 0 + 1 = 1
      OBVIOUS
    <3> HIDE DEF P
    <3>5. Laid(f[0 + 1], P(0 + 1), SubSeq(vs, 1, 0 + 1))
      <4>1. f[0 + 1] = vs[1]
        BY <2>1, <3>4
      <4> QED BY <3>1, <3>2, <3>3, <4>1
    <3> QED BY <3>5
  <2>4. ASSUME NEW n \in Nat, n \in T PROVE n + 1 \in T
    <3> SUFFICES ASSUME (n + 1) + 1 <= N PROVE Laid(f[(n + 1) + 1], P((n + 1) + 1), SubSeq(vs, 1, (n + 1) + 1))
      OBVIOUS
    <3> DEFINE m == n + 1
               d == f[m]
               p == P(m)
               c == SubSeq(vs, 1, m)
               v == vs[m + 1]
    <3>1. Laid(d, p, c) /\ m \in Nat /\ m + 1 <= N /\ m + 1 \in 2..N /\ m + 1 \in 1..N /\ (m + 1) - 1 = m
      BY <1>0, <2>4
    <3>2. f[m + 1] = d \o v
      BY <2>1, <3>1
    <3>3. v \in Seq(Byte) /\ Len(v) \in Nat /\ e[m + 1] = e[m] + Len(v)
      BY <1>0, <3>1
    <3>4. Len(d) = e[m]
      <4>1. m + 1 \in 1..m + 1 /\ (m + 1) - 1 = m
        BY <3>1
      <4>2. Len(p) = m + 1 /\ p[m + 1] = e[m]
        BY <3>1, <4>1
      <4> HIDE DEF p, c, d, m
      <4>3. p[Len(p)] = Len(d)
        BY <3>1, LaidOf
      <4> QED BY <4>2, <4>3
    <3>5. AsChained(P(m + 1), p, <<0, Len(v)>>, Len(d)) /\ P(m + 1) \in Seq(Nat)
      <4> HIDE DEF m, v, d
      <4> QED BY <1>0, <3>1, <3>3, <3>4, ChainedNext
    <3>6. Laid(v, <<0, Len(v)>>, <<v>>)
      BY <3>3, LaidOne
    <3>7. SubSeq(vs, 1, m + 1) = c \o <<v>>
      <4>1. 1 \in 1..N /\ m + 1 \in 1..N
        BY <3>1
      <4> QED BY <3>1, <4>1, SubSeqRecursiveSecond
    <3> HIDE DEF P, c, d, p, v
    <3>8. Laid(d \o v, P(m + 1), c \o <<v>>)
      BY <3>1, <3>5, <3>6, LaidJoin
    <3> QED BY <3>2, <3>7, <3>8
  <2>5. N - 1 \in T
    <3>1. N - 1 \in Nat
      BY <1>0, <1>2
    <3> HIDE DEF T
    <3> QED BY <2>3, <2>4, <3>1, Induction
  <2>6. (N - 1) + 1 = N /\ SubSeq(vs, 1, N) = vs
    BY <1>0, SubSeqFull
  <2>7. Laid(f[N], P(N), vs)
    <3>1. Laid(f[(N - 1) + 1], P((N - 1) + 1), SubSeq(vs, 1, (N - 1) + 1))
      <4>1. (N - 1) + 1 <= N
        BY <1>0
      <4> HIDE DEF P, N
      <4> QED BY <2>5, <4>1
    <3> HIDE DEF P, N
    <3> QED BY <2>6, <3>1
  <2> HIDE DEF P
  <2> QED BY <2>1, <2>7 DEF P
<1> QED BY <1>1, <1>2

(* Strings joined, under the ends of all of them after a 0.                *)
LEMMA LaidFlat ==
  ASSUME NEW vs, vs \in Seq(Seq(Byte))
  PROVE  Laid(Text!FlattenSeq(vs), <<0>> \o Text!EndsFrom(0, vs), vs)
<1> DEFINE n == Len(vs)
<1>0. n \in Nat /\ 0 \in Nat
  OBVIOUS
<1>1. PICK f \in [0..n -> Nat] :
           /\ f[0] = 0 /\ \A k \in 1..n : f[k] = f[k - 1] + Len(vs[k])
           /\ Text!EndsFrom(0, vs) = [i \in 1..n |-> f[i]]
  BY <1>0, EndsAre
<1> DEFINE t == [i \in 1..n |-> f[i]]
           q == <<0>> \o t
           r == [i \in 1..n + 1 |-> f[i - 1]]
<1>2. Laid(Text!FlattenSeq(vs), r, vs)
  BY <1>1, LaidRun
<1>3. t \in Seq(Nat) /\ Len(t) = n /\ \A i \in 1..n : t[i] = f[i]
  <2>1. ASSUME NEW i \in 1..n PROVE i \in 0..n /\ f[i] \in Nat
    <3>1. i \in 0..n
      BY <1>0
    <3> QED BY <1>1, <3>1
  <2> QED BY <2>1
<1>4. r \in Seq(Nat) /\ Len(r) = n + 1 /\ \A i \in 1..n + 1 : r[i] = f[i - 1]
  <2>1. ASSUME NEW i \in 1..n + 1 PROVE i - 1 \in 0..n /\ f[i - 1] \in Nat
    <3>1. i - 1 \in 0..n
      BY <1>0
    <3> QED BY <1>1, <3>1
  <2> QED BY <2>1
<1>5. <<0>> \in Seq(Nat) /\ Len(<<0>>) = 1 /\ <<0>>[1] = 0
  OBVIOUS
<1>6. q = r
  <2> DEFINE s == <<0>>
  <2>1. s \in Seq(Nat) /\ Len(s) = 1 /\ s[1] = 0
    BY <1>5
  <2> HIDE DEF s, t, r
  <2>2. s \o t \in Seq(Nat) /\ AsJoin(s \o t, s, t)
    BY <1>3, <2>1, JoinIs
  <2>3. Len(s \o t) = n + 1
    BY <1>0, <1>3, <2>1, <2>2 DEF AsJoin
  <2>4. ASSUME NEW i \in 1..n + 1 PROVE (s \o t)[i] = r[i]
    <3>1. (s \o t)[i] = IF i <= 1 THEN s[i] ELSE t[i - 1]
      BY <1>0, <2>1, <2>2, <2>3 DEF AsJoin
    <3>2. CASE i = 1
      BY <1>0, <1>1, <1>4, <2>1, <3>1, <3>2
    <3>3. CASE i # 1
      <4>1. i - 1 \in 1..n /\ ~(i <= 1)
        BY <1>0, <3>3
      <4> QED BY <1>3, <1>4, <3>1, <4>1
    <3> QED BY <3>2, <3>3
  <2>5. s \o t = r
    <3> DEFINE u == s \o t
    <3>1. u \in Seq(Nat) /\ r \in Seq(Nat) /\ Len(u) = Len(r) /\ \A i \in 1..Len(u) : u[i] = r[i]
      BY <1>4, <2>2, <2>3, <2>4
    <3> HIDE DEF u
    <3>2. u = r
      BY <3>1, SeqEqual
    <3> QED BY <3>2 DEF u
  <2> QED BY <2>5 DEF s
<1> QED BY <1>1, <1>2, <1>6

(* The ends from a base are those from 0, moved up by it.                  *)
LEMMA EndsShift ==
  ASSUME NEW vs, vs \in Seq(Seq(Byte)), NEW base \in Nat
  PROVE  LET t == Text!EndsFrom(base, vs)
             u == Text!EndsFrom(0, vs)
         IN  /\ t \in Seq(Nat) /\ Len(t) = Len(vs) /\ u \in Seq(Nat) /\ Len(u) = Len(vs)
             /\ \A i \in 1..Len(vs) : t[i] = u[i] + base
<1> DEFINE n == Len(vs)
           t == Text!EndsFrom(base, vs)
           u == Text!EndsFrom(0, vs)
<1>0. n \in Nat /\ 0 \in Nat /\ \A k \in 1..n : Len(vs[k]) \in Nat
  <2>1. \A k \in 1..n : vs[k] \in Seq(Byte)
    OBVIOUS
  <2> QED BY <2>1
<1>1. PICK e \in [0..n -> Nat] :
           /\ e[0] = 0 /\ \A k \in 1..n : e[k] = e[k - 1] + Len(vs[k])
           /\ u = [i \in 1..n |-> e[i]]
  BY <1>0, EndsAre
<1>2. PICK f \in [0..n -> Nat] :
           /\ f[0] = base /\ \A k \in 1..n : f[k] = f[k - 1] + Len(vs[k])
           /\ t = [i \in 1..n |-> f[i]]
  BY <1>0, EndsAre
<1>3. ASSUME NEW i \in 1..n PROVE i \in 0..n /\ e[i] \in Nat /\ f[i] \in Nat
  <2>1. i \in 0..n
    BY <1>0
  <2> QED BY <1>1, <1>2, <2>1
<1> HIDE DEF t, u
<1>4. u \in Seq(Nat) /\ Len(u) = n /\ \A i \in 1..n : u[i] = e[i]
  BY <1>0, <1>1, <1>3
<1>5. t \in Seq(Nat) /\ Len(t) = n /\ \A i \in 1..n : t[i] = f[i]
  BY <1>0, <1>2, <1>3
<1> DEFINE T == {k \in Nat : k <= n => f[k] = e[k] + base}
<1>6. 0 \in T
  BY <1>1, <1>2
<1>7. ASSUME NEW k \in Nat, k \in T PROVE k + 1 \in T
  <2> SUFFICES ASSUME k + 1 <= n PROVE f[k + 1] = e[k + 1] + base
    OBVIOUS
  <2>1. k + 1 \in 1..n /\ (k + 1) - 1 = k /\ f[k] = e[k] + base /\ k \in 0..n
    BY <1>0, <1>7
  <2>2. f[k + 1] = f[k] + Len(vs[k + 1]) /\ e[k + 1] = e[k] + Len(vs[k + 1]) /\ Len(vs[k + 1]) \in Nat /\ e[k] \in Nat
    BY <1>0, <1>1, <1>2, <2>1
  <2> DEFINE x == e[k]
             y == Len(vs[k + 1])
  <2>3. x \in Nat /\ y \in Nat /\ f[k + 1] = (x + base) + y /\ e[k + 1] = x + y
    BY <2>1, <2>2
  <2> HIDE DEF x, y
  <2> QED BY ONLY <2>3, base \in Nat
<1>8. \A k \in Nat : k \in T
  <2> HIDE DEF T
  <2> QED BY <1>6, <1>7, Induction
<1>9. \A i \in 1..n : f[i] = e[i] + base
  BY <1>0, <1>8
<1> QED BY <1>4, <1>5, <1>9 DEF t, u

(* Offsets followed by the ends of other strings from the last offset are  *)
(* chained.                                                                *)
LEMMA EndsChained ==
  ASSUME NEW p \in Seq(Nat), NEW vs, vs \in Seq(Seq(Byte)), NEW base \in Nat, NEW k, k = base
  PROVE  LET r == p \o Text!EndsFrom(base, vs)
         IN  r \in Seq(Nat) /\ AsChained(r, p, <<0>> \o Text!EndsFrom(0, vs), k)
<1> DEFINE n == Len(vs)
           t == Text!EndsFrom(base, vs)
           u == Text!EndsFrom(0, vs)
           s == <<0>>
           r == p \o t
           q == s \o u
<1>0. n \in Nat /\ Len(p) \in Nat
  OBVIOUS
<1>1. t \in Seq(Nat) /\ Len(t) = n /\ u \in Seq(Nat) /\ Len(u) = n /\ \A i \in 1..n : t[i] = u[i] + base
  BY EndsShift
<1>2. s \in Seq(Nat) /\ Len(s) = 1
  OBVIOUS
<1> HIDE DEF t, u, s
<1>3. r \in Seq(Nat) /\ AsJoin(r, p, t)
  BY <1>1, JoinIs
<1>4. q \in Seq(Nat) /\ AsJoin(q, s, u)
  BY <1>1, <1>2, JoinIs
<1> HIDE DEF r, q
<1>5. Len(r) = Len(p) + n /\ Len(q) = n + 1
  BY <1>0, <1>1, <1>2, <1>3, <1>4 DEF AsJoin
<1>6. ASSUME NEW i \in 1..Len(r) PROVE r[i] = IF i <= Len(p) THEN p[i] ELSE q[i - Len(p) + 1] + k
  <2>1. r[i] = IF i <= Len(p) THEN p[i] ELSE t[i - Len(p)]
    BY <1>3 DEF AsJoin
  <2>2. CASE i <= Len(p)
    BY <2>1, <2>2
  <2>3. CASE ~(i <= Len(p))
    <3> DEFINE j == i - Len(p)
    <3>1. j \in 1..n /\ j + 1 \in 1..n + 1 /\ ~(j + 1 <= 1) /\ (j + 1) - 1 = j
      BY <1>0, <1>5, <2>3
    <3> HIDE DEF j
    <3>2. q[j + 1] = u[j]
      <4>1. q[j + 1] = IF j + 1 <= Len(s) THEN s[j + 1] ELSE u[(j + 1) - Len(s)]
        BY <1>4, <1>5, <3>1 DEF AsJoin
      <4> QED BY <1>2, <3>1, <4>1
    <3>3. t[j] = u[j] + base
      BY <1>1, <3>1
    <3> QED BY <2>1, <2>3, <3>2, <3>3 DEF j
  <2> QED BY <2>2, <2>3
<1>7. AsChained(r, p, q, k)
  BY <1>0, <1>5, <1>6 DEF AsChained
<1> QED BY <1>3, <1>7 DEF r, q, t, u, s

(* One string repeated lies at the multiples of its length.                *)
LEMMA LaidEven ==
  ASSUME NEW v \in Seq(Byte), NEW n \in Nat
  PROVE  Laid(Text!FlattenSeq(Fixed!All(n, v)), [i \in 1..n + 1 |-> (i - 1) * Len(v)], Fixed!All(n, v))
<1> DEFINE vs == Fixed!All(n, v)
           m == Len(v)
           e == [i \in 0..n |-> i * m]
<1>0. m \in Nat
  OBVIOUS
<1>1. vs \in Seq(Seq(Byte)) /\ Len(vs) = n /\ \A k \in 1..n : vs[k] = v
  BY AllIs
<1>2. e \in [0..n -> Nat] /\ e[0] = 0
  <2>1. \A i \in 0..n : i * m \in Nat
    BY <1>0
  <2>2. 0 * m = 0
    BY <1>0
  <2> QED BY <2>1, <2>2
<1>3. ASSUME NEW k \in 1..n PROVE e[k] = e[k - 1] + Len(vs[k])
  <2>1. k - 1 \in 0..n /\ k \in 0..n /\ k \in Int
    OBVIOUS
  <2>2. e[k] = k * m /\ e[k - 1] = (k - 1) * m
    BY <2>1
  <2>3. (k - 1) * m = k * m - m
    <3> HIDE DEF m
    <3> QED BY ONLY <1>0, <2>1
  <2>4. k * m \in Int
    BY <1>0, <2>1
  <2>5. Len(vs[k]) = m
    BY <1>1
  <2> HIDE DEF e, vs, m
  <2> DEFINE z == k * m
  <2> HIDE DEF z
  <2>6. z \in Int /\ e[k] = z /\ e[k - 1] = z - m
    BY <2>2, <2>3, <2>4 DEF z
  <2> QED BY <1>0, <2>5, <2>6
<1> HIDE DEF vs, e
<1>4. Laid(Text!FlattenSeq(vs), [i \in 1..n + 1 |-> e[i - 1]], vs)
  BY <1>1, <1>2, <1>3, LaidRun
<1>5. [i \in 1..n + 1 |-> e[i - 1]] = [i \in 1..n + 1 |-> (i - 1) * m]
  <2>1. \A i \in 1..n + 1 : i - 1 \in 0..n
    OBVIOUS
  <2> QED BY <2>1 DEF e
<1> QED BY <1>4, <1>5 DEF vs

(* The bytes and offsets of a window of a string array keep the rows of    *)
(* the window.                                                             *)
LEMMA TextPiece ==
  ASSUME NEW a, NEW c0, Fields(a), "offsets" \in DOMAIN a, Laid(a.data, a.offsets, c0), NEW w,
         Len(c0) = Len(w), Pairs(Is(a.unit), c0, w), NEW from \in Nat, NEW n \in Nat, from + n <= Len(w),
         NEW r \in Seq(Nat), AsShifted(r, a.offsets, from, n + 1, a.offsets[from + 1]),
         NEW b, Put(b, a, SubSeq(a.data, a.offsets[from + 1] + 1, a.offsets[from + n + 1])), b.offsets = r,
         NEW x, x = Fixed!Window(w, from, n), NEW c, Turned(c, b, a, x)
  PROVE  Like(c, a) /\ TextKept(c, x)
<1> DEFINE d == SubSeq(a.data, a.offsets[from + 1] + 1, a.offsets[from + n + 1])
           h == Fixed!Window(c0, from, n)
<1>1. c0 \in Seq(Seq(Byte)) /\ w \in Seq(WantRow)
  BY LaidOf DEF Pairs
<1>2. Laid(d, r, h)
  BY LaidWindow
<1>3. Pairs(Is(a.unit), h, x)
  BY <1>1, PairsWindow
<1>4. Len(h) = Len(x)
  <2>1. AsWindow(h, c0, from, n) /\ AsWindow(x, w, from, n)
    BY <1>1, WindowIs
  <2> QED BY <2>1 DEF AsWindow
<1>5. Put(b, a, d)
  OBVIOUS
<1> HIDE DEF d, h
<1> QED BY <1>2, <1>3, <1>4, <1>5, TextMade

(* The offsets of a window, moved down by the first of them.               *)
LEMMA ShiftedPiece ==
  ASSUME NEW d, NEW p, NEW c, Laid(d, p, c), NEW from \in Nat, NEW n \in Nat, from + n <= Len(c),
         NEW to, to = from + n + 1
  PROVE  LET r == Text!Shifted(SubSeq(p, from + 1, to), -p[from + 1])
         IN  r \in Seq(Nat) /\ AsShifted(r, p, from, n + 1, p[from + 1])
<1> DEFINE base == p[from + 1]
           s == SubSeq(p, from + 1, to)
           r == [i \in DOMAIN s |-> s[i] + -base]
<1>1. /\ p \in Seq(Nat) /\ Len(p) = Len(c) + 1 /\ Len(c) \in Nat
      /\ (\A i, j \in 1..Len(p) : i <= j => p[i] <= p[j])
      /\ (\A i \in 1..Len(p) : p[i] \in Nat)
  BY LaidOf
<1>2. from + 1 \in 1..Len(p) /\ to \in 1..Len(p)
  BY <1>1
<1>3. s \in Seq(Nat) /\ Len(s) = n + 1 /\ \A i \in 1..n + 1 : s[i] = p[from + i]
  BY <1>1, <1>2
<1>4. base \in Nat
  BY <1>1, <1>2
<1>5. ASSUME NEW i \in 1..n + 1 PROVE s[i] + -base \in Nat /\ s[i] + -base = p[from + i] - base
  <2>1. from + i \in 1..Len(p) /\ from + 1 <= from + i
    BY <1>1
  <2>2. p[from + i] \in Nat /\ base <= p[from + i] /\ s[i] = p[from + i]
    BY <1>1, <1>2, <1>3, <2>1
  <2> DEFINE v == p[from + i]
             z == s[i]
  <2>3. v \in Nat /\ base <= v /\ z = v
    BY <2>2
  <2> HIDE DEF base, v, z
  <2>4. z + -base \in Nat /\ z + -base = v - base
    BY ONLY <1>4, <2>3
  <2> QED BY <2>4 DEF v, z
<1>6. DOMAIN s = 1..n + 1
  BY <1>3
<1> HIDE DEF s, base
<1>7. r \in Seq(Nat) /\ Len(r) = n + 1 /\ \A i \in 1..n + 1 : r[i] = p[from + i] - base
  BY <1>5, <1>6
<1>8. Text!Shifted(SubSeq(p, from + 1, to), -p[from + 1]) = r
  BY DEF Text!Shifted, s, base
<1> QED BY <1>7, <1>8 DEF AsShifted, base

(* slice_clone of a string array keeps the rows of the window.             *)
LEMMA TextSlice ==
  ASSUME NEW a, NEW w, TextKept(a, w), a.masked => Len(a.mask) >= Len(w), NEW from \in Nat, NEW n \in Nat, from + n <= Len(w)
  PROVE  LET c == Text!SliceClone(a, from, n) IN Like(c, a) /\ TextKept(c, Fixed!Window(w, from, n))
<1> DEFINE x == Fixed!Window(w, from, n)
           p == a.offsets
           r == Text!Shifted(SubSeq(p, from + 1, from + n + 1), -p[from + 1])
           d == SubSeq(a.data, p[from + 1] + 1, p[from + n + 1])
           b == Text!Strings(a, d, r)
           c == Fixed!OnMask(b, Fixed!Window(a.mask, from, n))
<1>0. Fields(a) /\ Frame(a, w) /\ "offsets" \in DOMAIN a /\ a.unit \in Nat
  BY TextOf
<1>1. PICK c0 \in Seq(Seq(Byte)) : Laid(a.data, p, c0) /\ Len(c0) = Len(w) /\ Pairs(Is(a.unit), c0, w)
  BY TextOf
<1>2. r \in Seq(Nat) /\ AsShifted(r, p, from, n + 1, p[from + 1])
  BY <1>1, ShiftedPiece
<1>3. Put(b, a, d) /\ b.offsets = r
  BY <1>0, StringsPut
<1>4. Text!SliceClone(a, from, n) = c
  BY TextSame DEF Text!SliceClone, Text!Start
<1> HIDE DEF b, r
<1>5. Turned(c, b, a, x)
  BY <1>0, <1>3, TurnWindow DEF Put
<1> HIDE DEF c
<1>6. Like(c, a) /\ TextKept(c, x)
  BY <1>0, <1>1, <1>2, <1>3, <1>5, TextPiece
<1> QED BY <1>4, <1>6

(* A sequence without its beginning is its end.                            *)
LEMMA WithoutFirst ==
  ASSUME NEW S, NEW s \in Seq(S), NEW at \in Nat, at <= Len(s)
  PROVE  /\ Fixed!Without(s, 0, at) = SubSeq(s, at + 1, Len(s))
         /\ Fixed!Without(s, 0, at) = Fixed!Window(s, at, Len(s) - at)
<1>1. SubSeq(s, 1, 0) = <<>>
  OBVIOUS
<1>2. SubSeq(s, at + 1, Len(s)) \in Seq(S)
  OBVIOUS
<1>3. <<>> \o SubSeq(s, at + 1, Len(s)) = SubSeq(s, at + 1, Len(s))
  BY <1>2
<1>4. at + (Len(s) - at) = Len(s)
  OBVIOUS
<1> QED BY <1>1, <1>3, <1>4 DEF Fixed!Without, Fixed!Window

(* The second half of the split of a string array keeps the rest of the    *)
(* rows.                                                                   *)
LEMMA TextSplit ==
  ASSUME NEW a, NEW w, TextKept(a, w), WholeAt(a, w), NEW at \in Nat, at <= Len(w)
  PROVE  LET c == Text!Split(a, at)[2] IN Like(c, a) /\ TextKept(c, Fixed!Without(w, 0, at))
<1> DEFINE x == Fixed!Without(w, 0, at)
           p == a.offsets
           n == Len(w) - at
           r == Text!Shifted(SubSeq(p, at + 1, Len(p)), -p[at + 1])
           d == SubSeq(a.data, p[at + 1] + 1, p[at + n + 1])
           b == Text!Strings(a, Fixed!Without(a.data, 0, p[at + 1]), r)
           c == Fixed!OnMask(b, Fixed!Without(a.mask, 0, at))
<1>0. Fields(a) /\ Frame(a, w) /\ "offsets" \in DOMAIN a /\ a.unit \in Nat /\ w \in Seq(WantRow) /\ Len(w) \in Nat
      /\ a.data \in Seq(Byte)
  BY TextOf
<1>1. PICK c0 \in Seq(Seq(Byte)) : Laid(a.data, p, c0) /\ Len(c0) = Len(w) /\ Pairs(Is(a.unit), c0, w)
  BY TextOf
<1>2. /\ Len(p) = Len(w) + 1 /\ p[Len(p)] = Len(a.data)
      /\ \A i \in 1..Len(p) : p[i] \in Nat /\ p[i] <= Len(a.data)
  BY <1>1, LaidOf
<1>3. n \in Nat /\ at + n <= Len(w) /\ at + n + 1 = Len(p) /\ at + 1 \in 1..Len(p)
  BY <1>0, <1>2
<1>4. Fixed!Without(a.data, 0, p[at + 1]) = d
  <2>1. Fixed!Without(a.data, 0, p[at + 1]) = SubSeq(a.data, p[at + 1] + 1, Len(a.data))
    BY <1>0, <1>2, <1>3, WithoutFirst
  <2> QED BY <1>2, <1>3, <2>1
<1>5. x = Fixed!Window(w, at, n)
  BY <1>0, WithoutFirst
<1>6. r \in Seq(Nat) /\ AsShifted(r, p, at, n + 1, p[at + 1])
  <2> HIDE DEF n
  <2>1. at + n <= Len(c0) /\ Len(p) = at + n + 1
    BY <1>1, <1>3
  <2> QED BY <1>1, <1>3, <2>1, ShiftedPiece
<1>7. Put(b, a, d) /\ b.offsets = r
  BY <1>0, <1>4, StringsPut
<1>8. Text!Split(a, at)[2] = c
  BY TextSame DEF Text!Split, Text!Start
<1> HIDE DEF b, r
<1>9. Turned(c, b, a, x)
  BY <1>0, <1>7, TurnDelete DEF Put
<1> HIDE DEF c, n, x
<1>10. Like(c, a) /\ TextKept(c, x)
  BY <1>0, <1>1, <1>3, <1>5, <1>6, <1>7, <1>9, TextPiece
<1> QED BY <1>8, <1>10 DEF x

(* The first strings and the offsets around them keep the first rows.      *)
LEMMA TextCut ==
  ASSUME NEW a, NEW w, TextKept(a, w), NEW n \in Nat, n <= Len(w)
  PROVE  LET b == Text!Strings(a, SubSeq(a.data, 1, a.offsets[n + 1]), SubSeq(a.offsets, 1, n + 1))
         IN  Like(b, a) /\ TextKept(b, SubSeq(w, 1, n))
<1> DEFINE x == SubSeq(w, 1, n)
           p == a.offsets
           r == SubSeq(p, 1, n + 1)
           d == SubSeq(a.data, 1, p[n + 1])
           b == Text!Strings(a, d, r)
<1>0. Fields(a) /\ Frame(a, w) /\ "offsets" \in DOMAIN a /\ a.unit \in Nat /\ w \in Seq(WantRow) /\ Len(w) \in Nat
  BY TextOf
<1>1. PICK c0 \in Seq(Seq(Byte)) : Laid(a.data, p, c0) /\ Len(c0) = Len(w) /\ Pairs(Is(a.unit), c0, w)
  BY TextOf
<1>2. /\ p \in Seq(Nat) /\ Len(p) = Len(w) + 1 /\ p[1] = 0 /\ \A i \in 1..Len(p) : p[i] \in Nat
  BY <1>1, LaidOf
<1>3. r \in Seq(Nat) /\ Len(r) = n + 1 /\ \A i \in 1..n + 1 : r[i] = p[i] /\ p[i] \in Nat
  BY <1>0, <1>2
<1>4. r \in Seq(Nat) /\ AsShifted(r, p, 0, n + 1, p[0 + 1])
  <2>1. p[0 + 1] = 0
    BY <1>2
  <2> HIDE DEF r
  <2>2. ASSUME NEW i \in 1..n + 1 PROVE r[i] = p[0 + i] - p[0 + 1]
    <3>1. 0 + i = i
      OBVIOUS
    <3>2. r[i] = p[i] /\ p[i] \in Nat
      BY <1>3
    <3> DEFINE z == p[i]
    <3> HIDE DEF z
    <3>3. z - 0 = z
      BY <3>2 DEF z
    <3> QED BY <2>1, <3>1, <3>2, <3>3 DEF z
  <2> QED BY <1>3, <2>2 DEF AsShifted
<1>5. Put(b, a, SubSeq(a.data, p[0 + 1] + 1, p[0 + n + 1])) /\ b.offsets = r
  <2>1. p[0 + 1] + 1 = 1 /\ 0 + n + 1 = n + 1
    BY <1>2
  <2> QED BY <1>0, <2>1, StringsPut, Zenon
<1> HIDE DEF b, r
<1>6. Turned(b, b, a, x)
  BY <1>0, <1>5, TurnCut DEF Put
<1>7. x = Fixed!Window(w, 0, n)
  BY WindowFirst
<1> HIDE DEF x
<1>8. Like(b, a) /\ TextKept(b, x)
  <2>1. 0 \in Nat /\ 0 + n <= Len(w)
    BY <1>0
  <2> QED BY <1>0, <1>1, <1>4, <1>5, <1>6, <1>7, <2>1, TextPiece
<1> QED BY <1>8 DEF b, x, r

(* Strings joined on, with their ends from the last offset, add their      *)
(* rows.                                                                   *)
LEMMA TextMore ==
  ASSUME NEW a, NEW w, TextKept(a, w), NEW vs, vs \in Seq(Seq(Byte)), NEW y, Len(vs) = Len(y), Pairs(Is(a.unit), vs, y),
         NEW k, k = Len(a.data),
         NEW b, Put(b, a, a.data \o Text!FlattenSeq(vs)), b.offsets = a.offsets \o Text!EndsFrom(k, vs),
         NEW c, Turned(c, b, a, w \o y)
  PROVE  Like(c, a) /\ TextKept(c, w \o y)
<1> DEFINE q == <<0>> \o Text!EndsFrom(0, vs)
           e == Text!FlattenSeq(vs)
           r == a.offsets \o Text!EndsFrom(k, vs)
<1>0. Fields(a) /\ "offsets" \in DOMAIN a /\ a.offsets \in Seq(Nat) /\ Len(a.data) \in Nat
  <2>1. a.data \in Seq(Byte)
    BY TextOf
  <2> QED BY <2>1, TextOf
<1>1. PICK c0 \in Seq(Seq(Byte)) : Laid(a.data, a.offsets, c0) /\ Len(c0) = Len(w) /\ Pairs(Is(a.unit), c0, w)
  BY TextOf
<1>2. Laid(e, q, vs)
  BY LaidFlat
<1>3. r \in Seq(Nat) /\ AsChained(r, a.offsets, q, Len(a.data))
  <2> DEFINE p == a.offsets
             m == Len(a.data)
  <2>1. p \in Seq(Nat) /\ m \in Nat /\ k = m
    BY <1>0
  <2> HIDE DEF p, m
  <2>2. p \o Text!EndsFrom(k, vs) \in Seq(Nat) /\ AsChained(p \o Text!EndsFrom(k, vs), p, <<0>> \o Text!EndsFrom(0, vs), m)
    BY <2>1, EndsChained
  <2> QED BY <2>2 DEF p, m
<1> HIDE DEF q, e, r
<1>4. Put(b, a, a.data \o e) /\ b.offsets = r
  BY DEF e, r
<1> QED BY <1>0, <1>1, <1>2, <1>3, <1>4, TextGrown

(* The last offset is the number of bytes.                                 *)
LEMMA EndsIs ==
  ASSUME NEW a, NEW w, TextKept(a, w)
  PROVE  Text!Ends(a.offsets) = Len(a.data) /\ Len(a.data) \in Nat
<1>1. PICK c0 \in Seq(Seq(Byte)) : Laid(a.data, a.offsets, c0) /\ Len(c0) = Len(w) /\ Pairs(Is(a.unit), c0, w)
  BY TextOf
<1> QED BY <1>1, LaidOf DEF Text!Ends

(* resize of a string array cuts the rows or adds the given one.           *)
LEMMA TextResize ==
  ASSUME NEW a, NEW w, TextKept(a, w), WholeAt(a, w), NEW n \in Nat, NEW v \in Seq(Byte)
  PROVE  LET c == Text!Resize(a, n, v) IN Like(c, a) /\ TextKept(c, Fixed!Fit(w, n, Rowed(a.unit, v)))
<1> DEFINE u == Rowed(a.unit, v)
           x == Fixed!Fit(w, n, u)
<1>0. Fields(a) /\ Frame(a, w) /\ "offsets" \in DOMAIN a /\ a.unit \in Nat /\ w \in Seq(WantRow) /\ Len(w) \in Nat
      /\ Text!Length(a) = Len(w)
  BY TextOf
<1>1. u \in WantRow /\ u # <<>> /\ <<v, u>> \in Is(a.unit)
  BY <1>0, RowedIs, ByteCell
<1> HIDE DEF u
<1>2. CASE n > Len(w)
  <2> DEFINE k == n - Len(w)
             vs == Fixed!All(k, v)
             y == Fixed!All(k, u)
             r == a.offsets \o Text!EndsFrom(Text!Ends(a.offsets), vs)
             b == Text!Strings(a, a.data \o Text!FlattenSeq(vs), r)
  <2>1. k \in Nat
    BY <1>0, <1>2
  <2>2. Text!Resize(a, n, v) = b
    BY <1>0, <1>2, TextSame DEF Text!Resize
  <2>3. x = w \o y
    BY <1>0, <1>2 DEF Fixed!Fit
  <2> HIDE DEF k
  <2>4. vs \in Seq(Seq(Byte)) /\ Len(vs) = k /\ y \in Seq(WantRow) /\ Len(y) = k /\ \A i \in 1..k : y[i] = u
    BY <1>1, <2>1, AllIs
  <2>5. Pairs(Is(a.unit), vs, y)
    BY <1>1, <2>1, PairsAll
  <2>6. Put(b, a, a.data \o Text!FlattenSeq(vs)) /\ b.offsets = r
    BY <1>0, StringsPut
  <2> HIDE DEF b, vs, y
  <2>7. Turned(b, b, a, w \o y)
    BY <1>0, <1>1, <2>4, <2>6, TurnMore DEF Put
  <2> DEFINE z == Text!Ends(a.offsets)
  <2>8. z = Len(a.data)
    BY EndsIs
  <2>9. b.offsets = a.offsets \o Text!EndsFrom(z, vs)
    BY <2>6
  <2> HIDE DEF z, r
  <2>10. Like(b, a) /\ TextKept(b, w \o y)
    BY <2>4, <2>5, <2>6, <2>7, <2>8, <2>9, TextMore
  <2> HIDE DEF x
  <2>11. Like(b, a) /\ TextKept(b, x)
    BY <2>3, <2>10
  <2> QED BY <2>2, <2>11 DEF x, u
<1>3. CASE ~(n > Len(w))
  <2> DEFINE b == Text!Strings(a, SubSeq(a.data, 1, a.offsets[n + 1]), SubSeq(a.offsets, 1, n + 1))
  <2>1. n <= Len(w)
    BY <1>0, <1>3
  <2>2. Text!Resize(a, n, v) = b
    BY <1>0, <1>3 DEF Text!Resize, Text!Start
  <2>3. x = SubSeq(w, 1, n)
    BY <2>1 DEF Fixed!Fit
  <2>4. Like(b, a) /\ TextKept(b, SubSeq(w, 1, n))
    BY <2>1, TextCut
  <2> HIDE DEF x, b
  <2>5. Like(b, a) /\ TextKept(b, x)
    BY <2>3, <2>4
  <2> QED BY <2>2, <2>5 DEF x, u
<1> QED BY <1>2, <1>3

(* The starts of all rows and the number of bytes are the offsets.         *)
LEMMA StartsWhole ==
  ASSUME NEW a, NEW w, TextKept(a, w)
  PROVE  SubSeq(a.offsets, 1, Len(w)) \o <<Len(a.data)>> = a.offsets
<1> DEFINE p == a.offsets
           n == Len(w)
           k == Len(a.data)
           s == SubSeq(p, 1, n)
           t == <<k>>
           u == s \o t
<1>1. PICK c0 \in Seq(Seq(Byte)) : Laid(a.data, a.offsets, c0) /\ Len(c0) = Len(w) /\ Pairs(Is(a.unit), c0, w)
  BY TextOf
<1>2. p \in Seq(Nat) /\ Len(p) = n + 1 /\ n \in Nat /\ p[n + 1] = k /\ k \in Nat
  BY <1>1, LaidOf
<1>3. s \in Seq(Nat) /\ Len(s) = n /\ \A i \in 1..n : s[i] = p[i]
  BY <1>2
<1>4. t \in Seq(Nat) /\ Len(t) = 1 /\ t[1] = k
  BY <1>2
<1> HIDE DEF s, t, p, k, n
<1>5. u \in Seq(Nat) /\ AsJoin(u, s, t)
  BY <1>3, <1>4, JoinIs
<1> HIDE DEF u
<1>6. Len(u) = n + 1
  BY <1>2, <1>3, <1>4, <1>5 DEF AsJoin
<1>7. ASSUME NEW i \in 1..Len(u) PROVE u[i] = p[i]
  <2>1. u[i] = IF i <= n THEN s[i] ELSE t[i - n]
    BY <1>3, <1>5 DEF AsJoin
  <2>2. CASE i <= n
    BY <1>2, <1>3, <2>1, <2>2
  <2>3. CASE i = n + 1
    <3>1. i - n = 1 /\ ~(i <= n)
      BY <1>2, <2>3
    <3> QED BY <1>2, <1>4, <2>1, <2>3, <3>1
  <2> QED BY <1>2, <1>6, <2>2, <2>3
<1>8. u = p
  BY <1>2, <1>5, <1>6, <1>7, SeqEqual
<1> QED BY <1>8 DEF u, p, s, t, n, k

(* extend_from_slice of a string array adds the strings' rows.             *)
LEMMA TextExtend ==
  ASSUME NEW a, NEW w, TextKept(a, w), WholeAt(a, w), NEW v \in Seq(Byte), NEW u \in Seq(Byte)
  PROVE  LET c == Text!ExtendFromSlice(a, <<v, u>>)
         IN  Like(c, a) /\ TextKept(c, w \o <<Rowed(a.unit, v), Rowed(a.unit, u)>>)
<1> DEFINE r1 == Rowed(a.unit, v)
           r2 == Rowed(a.unit, u)
           y == <<r1, r2>>
           vs == <<v, u>>
           k == Len(a.data)
           b == Text!Strings(a, a.data \o Text!FlattenSeq(vs), a.offsets \o Text!EndsFrom(k, vs))
           c == Fixed!OnMask(b, Fixed!Fit(a.mask, Len(w) + Len(y), TRUE))
<1>0. Fields(a) /\ Frame(a, w) /\ "offsets" \in DOMAIN a /\ a.unit \in Nat /\ w \in Seq(WantRow) /\ Len(w) \in Nat
      /\ Text!Length(a) = Len(w)
  BY TextOf
<1>1. /\ r1 \in WantRow /\ r1 # <<>> /\ <<v, r1>> \in Is(a.unit)
      /\ r2 \in WantRow /\ r2 # <<>> /\ <<u, r2>> \in Is(a.unit)
  BY <1>0, RowedIs, ByteCell
<1> HIDE DEF r1, r2
<1>2. /\ y \in Seq(WantRow) /\ Len(y) = 2 /\ \A i \in 1..Len(y) : y[i] # <<>>
  BY <1>0, <1>1, TwoMore
<1>3. vs \in Seq(Seq(Byte)) /\ Len(vs) = 2
  OBVIOUS
<1>4. Pairs(Is(a.unit), vs, y)
  BY <1>1, PairsTwo
<1>5. Put(b, a, a.data \o Text!FlattenSeq(vs)) /\ b.offsets = a.offsets \o Text!EndsFrom(k, vs)
  BY <1>0, StringsPut
<1>6. Text!ExtendFromSlice(a, vs) = c
  <2>1. SubSeq(a.offsets, 1, Len(w)) \o <<Len(a.data)>> = a.offsets
    BY StartsWhole
  <2> HIDE DEF vs, y
  <2> QED BY <1>0, <1>2, <1>3, <2>1, TextSame DEF Text!ExtendFromSlice
<1> HIDE DEF b, y, vs
<1>7. Turned(c, b, a, w \o y)
  BY <1>0, <1>2, <1>5, TurnMore DEF Put
<1> HIDE DEF c, k
<1>8. Like(c, a) /\ TextKept(c, w \o y)
  BY <1>2, <1>3, <1>4, <1>5, <1>7, TextMore DEF k
<1> QED BY <1>6, <1>8 DEF y, r1, r2, vs

(* A string array filled with one string.                                  *)
LEMMA TextFilled ==
  ASSUME NEW a, NEW w, TextKept(a, w), NEW v \in Seq(Byte), NEW n \in Nat
  PROVE  LET c == Text!Filled(a, v, n) IN Like(c, a) /\ TextKept(c, Fixed!All(n, Rowed(a.unit, v)))
<1> DEFINE u == Rowed(a.unit, v)
           vs == Fixed!All(n, v)
           x == Fixed!All(n, u)
           p == [i \in 1..n + 1 |-> (i - 1) * Len(v)]
           d == Text!FlattenSeq(vs)
           b == Text!Strings(a, d, p)
           c == Fixed!Unmasked(b)
<1>0. Fields(a) /\ Frame(a, w) /\ "offsets" \in DOMAIN a /\ a.unit \in Nat
  BY TextOf
<1>1. u \in WantRow /\ u # <<>> /\ <<v, u>> \in Is(a.unit)
  BY <1>0, RowedIs, ByteCell
<1> HIDE DEF u
<1>2. Laid(d, p, vs)
  BY LaidEven
<1>3. vs \in Seq(Seq(Byte)) /\ Len(vs) = n /\ x \in Seq(WantRow) /\ Len(x) = n /\ \A i \in 1..n : x[i] = u
  BY <1>1, AllIs
<1>4. Pairs(Is(a.unit), vs, x)
  BY <1>1, PairsAll
<1>5. Put(b, a, d) /\ b.offsets = p
  BY <1>0, StringsPut
<1>6. Text!Filled(a, v, n) = c
  BY TextSame DEF Text!Filled
<1> HIDE DEF b, p, d, vs, x
<1>7. Turned(c, b, a, x)
  BY <1>0, <1>1, <1>3, <1>5, TurnUnmasked DEF Put
<1> HIDE DEF c
<1>8. Like(c, a) /\ TextKept(c, x)
  BY <1>0, <1>2, <1>3, <1>4, <1>5, <1>7, TextMade
<1> QED BY <1>6, <1>8 DEF x, u

(* Offsets followed by another array's but for its first, moved up, are    *)
(* chained.                                                                *)
LEMMA ChainedShift ==
  ASSUME NEW p \in Seq(Nat), NEW q \in Seq(Nat), Len(q) >= 1, NEW k \in Nat,
         NEW t \in Seq(Nat), Len(t) = Len(q) - 1, \A i \in 1..Len(t) : t[i] = q[i + 1] + k
  PROVE  p \o t \in Seq(Nat) /\ AsChained(p \o t, p, q, k)
<1> DEFINE r == p \o t
<1>0. Len(p) \in Nat /\ Len(q) \in Nat /\ Len(t) \in Nat
  OBVIOUS
<1>1. r \in Seq(Nat) /\ AsJoin(r, p, t)
  BY JoinIs
<1> HIDE DEF r
<1>2. Len(r) = Len(p) + Len(q) - 1
  BY <1>0, <1>1 DEF AsJoin
<1>3. ASSUME NEW i \in 1..Len(r) PROVE r[i] = IF i <= Len(p) THEN p[i] ELSE q[i - Len(p) + 1] + k
  <2>1. r[i] = IF i <= Len(p) THEN p[i] ELSE t[i - Len(p)]
    BY <1>1 DEF AsJoin
  <2>2. CASE i <= Len(p)
    BY <2>1, <2>2
  <2>3. CASE ~(i <= Len(p))
    <3> DEFINE j == i - Len(p)
    <3>1. j \in 1..Len(t)
      BY <1>0, <1>2, <2>3
    <3> HIDE DEF j
    <3>2. t[j] = q[j + 1] + k
      BY <3>1
    <3> QED BY <2>1, <2>3, <3>2 DEF j
  <2> QED BY <2>2, <2>3
<1>4. AsChained(r, p, q, k)
  BY <1>2, <1>3 DEF AsChained
<1> QED BY <1>1, <1>4 DEF r

(* append_array of a string array adds the other's rows, when the masks    *)
(* can be joined.                                                          *)
LEMMA TextAppend ==
  ASSUME NEW a, NEW w, TextKept(a, w), WholeAt(a, w), NEW o, NEW y, TextKept(o, y), o.unit = a.unit,
         a.masked /\ o.masked => Len(a.mask) = Len(w)
  PROVE  LET c == Text!AppendArray(a, o) IN Like(c, a) /\ TextKept(c, w \o y)
<1> DEFINE p == a.offsets
           q == o.offsets
           k == Len(a.data)
           by == Text!Ends(p) - q[1]
           t == Text!Shifted(Tail(q), by)
           r == p \o t
           b == Text!Strings(a, a.data \o o.data, r)
           c == Fixed!Extended(b, Len(w), o.masked, o.mask, Len(y))
<1>0. Fields(a) /\ Frame(a, w) /\ "offsets" \in DOMAIN a /\ Text!Length(a) = Len(w) /\ Text!Length(o) = Len(y) /\ p \in Seq(Nat)
      /\ Nulls(o.masked, o.mask, y)
  BY TextOf
<1>1. PICK c0 \in Seq(Seq(Byte)) : Laid(a.data, p, c0) /\ Len(c0) = Len(w) /\ Pairs(Is(a.unit), c0, w)
  BY TextOf
<1>2. PICK g \in Seq(Seq(Byte)) : Laid(o.data, q, g) /\ Len(g) = Len(y) /\ Pairs(Is(a.unit), g, y)
  BY TextOf
<1>3. q \in Seq(Nat) /\ Len(q) = Len(g) + 1 /\ q[1] = 0 /\ Len(g) \in Nat
  BY <1>2, LaidOf
<1>4. Text!Ends(p) = k /\ k \in Nat
  BY EndsIs
<1>5. by = k
  BY <1>3, <1>4
<1>6. t \in Seq(Nat) /\ Len(t) = Len(q) - 1 /\ \A i \in 1..Len(t) : t[i] = q[i + 1] + k
  <2> DEFINE s == Tail(q)
  <2>1. s \in Seq(Nat) /\ Len(s) = Len(q) - 1 /\ \A i \in 1..Len(s) : s[i] = q[i + 1]
    BY <1>3
  <2> HIDE DEF s, k
  <2>2. Text!Shifted(s, k) \in Seq(Nat) /\ Len(Text!Shifted(s, k)) = Len(s) /\ \A i \in 1..Len(s) : Text!Shifted(s, k)[i] = s[i] + k
    <3>1. ASSUME NEW i \in 1..Len(s) PROVE s[i] + k \in Nat
      <4>1. s[i] \in Nat
        BY <2>1
      <4> DEFINE z == s[i]
      <4> HIDE DEF z
      <4>2. z + k \in Nat
        BY <1>4, <4>1 DEF z
      <4> QED BY <4>2 DEF z
    <3>2. DOMAIN s = 1..Len(s) /\ Len(s) \in Nat
      BY <2>1
    <3> QED BY <3>1, <3>2 DEF Text!Shifted
  <2> HIDE DEF by
  <2>3. t = Text!Shifted(s, k)
    BY <1>5 DEF s
  <2> HIDE DEF t
  <2> QED BY <2>1, <2>2, <2>3
<1>7. r \in Seq(Nat) /\ AsChained(r, p, q, k)
  <2> HIDE DEF t, p, q, k
  <2>1. Len(q) >= 1
    BY <1>3
  <2> QED BY <1>0, <1>3, <1>4, <1>6, <2>1, ChainedShift
<1>8. Put(b, a, a.data \o o.data) /\ b.offsets = r
  BY <1>0, StringsPut, Zenon
<1>9. Text!AppendArray(a, o) = c
  BY <1>0, TextSame DEF Text!AppendArray
<1> HIDE DEF b, t, r
<1>10. Turned(c, b, a, w \o y)
  BY <1>0, <1>8, TurnExtended DEF Put
<1> HIDE DEF c
<1>11. Like(c, a) /\ TextKept(c, w \o y)
  BY <1>0, <1>1, <1>2, <1>7, <1>8, <1>10, TextGrown
<1> QED BY <1>9, <1>11

(* append_range of a string array adds the rows of the window, when the    *)
(* masks can be joined.                                                    *)
LEMMA TextAppendRange ==
  ASSUME NEW a, NEW w, TextKept(a, w), WholeAt(a, w), NEW o, NEW y, TextKept(o, y), o.unit = a.unit,
         a.masked /\ o.masked => Len(a.mask) = Len(w), o.masked => Len(o.mask) >= Len(y),
         NEW from \in Nat, NEW n \in Nat, from + n <= Len(y)
  PROVE  LET c == Text!AppendRange(a, o, from, n) IN Like(c, a) /\ TextKept(c, w \o Fixed!Window(y, from, n))
<1> DEFINE z == Fixed!Window(y, from, n)
           p == a.offsets
           q == o.offsets
           k == Len(a.data)
           base == q[from + 1]
           e == SubSeq(o.data, base + 1, q[from + n + 1])
           t == Text!Shifted(Fixed!Window(q, from + 1, n), Text!Ends(p) - base)
           r == p \o t
           m == IF o.masked THEN Fixed!Window(o.mask, from, n) ELSE o.mask
           b == Text!Strings(a, a.data \o e, r)
           c == Fixed!Extended(b, Len(w), o.masked, Fixed!Window(o.mask, from, n), Len(z))
           q2 == Text!Shifted(SubSeq(q, from + 1, from + n + 1), -base)
<1>0. Fields(a) /\ Frame(a, w) /\ "offsets" \in DOMAIN a /\ Text!Length(a) = Len(w) /\ Text!Length(o) = Len(y) /\ p \in Seq(Nat)
      /\ Nulls(o.masked, o.mask, y) /\ y \in Seq(WantRow)
  BY TextOf
<1>1. PICK c0 \in Seq(Seq(Byte)) : Laid(a.data, p, c0) /\ Len(c0) = Len(w) /\ Pairs(Is(a.unit), c0, w)
  BY TextOf
<1>2. PICK g \in Seq(Seq(Byte)) : Laid(o.data, q, g) /\ Len(g) = Len(y) /\ Pairs(Is(a.unit), g, y)
  BY TextOf
<1>3. q \in Seq(Nat) /\ Len(q) = Len(g) + 1 /\ Len(g) \in Nat /\ \A i \in 1..Len(q) : q[i] \in Nat
  BY <1>2, LaidOf
<1>4. Text!Ends(p) = k /\ k \in Nat
  BY EndsIs
<1>5. z \in Seq(WantRow) /\ AsWindow(z, y, from, n)
  BY <1>0, WindowIs
<1>6. Len(z) = n
  BY <1>5 DEF AsWindow
<1>7. Nulls(o.masked, m, z)
  BY <1>0, NullsWindow
<1>8. q2 \in Seq(Nat) /\ AsShifted(q2, q, from, n + 1, base)
  BY <1>2, ShiftedPiece
<1> DEFINE h == Fixed!Window(g, from, n)
<1>9. Laid(e, q2, h)
  <2> HIDE DEF q2
  <2> QED BY <1>2, <1>8, LaidWindow
<1>10. Len(h) = Len(z) /\ Pairs(Is(a.unit), h, z)
  <2>1. AsWindow(h, g, from, n)
    BY <1>2, WindowIs
  <2> QED BY <1>2, <1>6, <2>1, PairsWindow DEF AsWindow
<1> HIDE DEF q2
<1>11. Len(q2) = n + 1 /\ \A i \in 1..n + 1 : q2[i] = q[from + i] - base
  BY <1>8 DEF AsShifted
<1>12. base \in Nat
  BY <1>2, <1>3
<1>13. t \in Seq(Nat) /\ Len(t) = n /\ \A i \in 1..n : t[i] = q2[i + 1] + k
  <2> DEFINE s == Fixed!Window(q, from + 1, n)
             by == Text!Ends(p) - base
  <2>1. s \in Seq(Nat) /\ AsWindow(s, q, from + 1, n)
    BY <1>2, <1>3, WindowIs
  <2>2. Len(s) = n /\ \A i \in 1..n : s[i] = q[from + 1 + i]
    BY <2>1 DEF AsWindow
  <2>3. by = k - base
    BY <1>4
  <2> HIDE DEF s, by, k
  <2>4. ASSUME NEW i \in 1..n PROVE s[i] + by \in Nat /\ s[i] + by = q2[i + 1] + k
    <3>1. i + 1 \in 1..n + 1 /\ from + (i + 1) = from + 1 + i
      OBVIOUS
    <3>2. q2[i + 1] = s[i] - base /\ q2[i + 1] \in Nat
      <4>1. q2[i + 1] \in Nat
        BY <1>8, <1>11, <3>1
      <4>2. q2[i + 1] = q[from + (i + 1)] - base
        BY <1>11, <3>1
      <4> HIDE DEF base
      <4> QED BY <2>2, <3>1, <4>1, <4>2
    <3>3. s[i] \in Nat
      BY <2>1, <2>2
    <3> DEFINE x1 == s[i]
               x2 == q2[i + 1]
    <3>4. x1 \in Nat /\ x2 \in Nat /\ x2 = x1 - base
      BY <3>2, <3>3
    <3> HIDE DEF x1, x2, base
    <3>5. x1 + by \in Nat /\ x1 + by = x2 + k
      BY ONLY <1>4, <1>12, <2>3, <3>4
    <3> QED BY <3>5 DEF x1, x2
  <2>5. DOMAIN s = 1..n
    BY <2>1, <2>2
  <2>6. Text!Shifted(s, by) \in Seq(Nat) /\ Len(Text!Shifted(s, by)) = n /\ \A i \in 1..n : Text!Shifted(s, by)[i] = s[i] + by
    BY <2>4, <2>5 DEF Text!Shifted
  <2>7. t = Text!Shifted(s, by)
    BY DEF s, by
  <2> HIDE DEF t
  <2> QED BY <2>4, <2>6, <2>7
<1>14. r \in Seq(Nat) /\ AsChained(r, p, q2, k)
  <2> HIDE DEF t, p, k
  <2>1. Len(q2) >= 1 /\ Len(t) = Len(q2) - 1
    BY <1>11, <1>13
  <2> QED BY <1>0, <1>4, <1>8, <1>13, <2>1, ChainedShift
<1>15. Put(b, a, a.data \o e) /\ b.offsets = r
  BY <1>0, StringsPut, Zenon
<1>16. Text!AppendRange(a, o, from, n) = c
  BY <1>0, <1>6, TextSame DEF Text!AppendRange, Text!Start
<1>17. o.masked => m = Fixed!Window(o.mask, from, n)
  OBVIOUS
<1> HIDE DEF b, t, r, e, z, m, h
<1>18. Turned(c, b, a, w \o z)
  BY <1>0, <1>7, <1>15, <1>17, TurnExtended DEF Put
<1> HIDE DEF c
<1>19. Like(c, a) /\ TextKept(c, w \o z)
  BY <1>0, <1>1, <1>9, <1>10, <1>14, <1>15, <1>18, TextGrown
<1> QED BY <1>16, <1>19 DEF z

(* Rows of a string array made null, over the strings that are there.      *)
LEMMA TextNulled ==
  ASSUME NEW a, NEW w, TextKept(a, w), NEW c, NEW x \in Seq(WantRow), Turned(c, a, a, x), Len(x) = Len(w),
         \A i \in 1..Len(x) : x[i] = w[i] \/ x[i] = <<>>
  PROVE  Like(c, a) /\ TextKept(c, x)
<1>0. Fields(a) /\ "offsets" \in DOMAIN a /\ a.unit \in Nat
  BY TextOf
<1>1. PICK c0 \in Seq(Seq(Byte)) : Laid(a.data, a.offsets, c0) /\ Len(c0) = Len(w) /\ Pairs(Is(a.unit), c0, w)
  BY TextOf
<1>2. \A v \in Seq(Byte) : <<v, <<>>>> \in Is(a.unit)
  BY <1>0, ByteCell, RowedIs
<1>3. Pairs(Is(a.unit), c0, x)
  BY <1>1, <1>2, PairsNull
<1>4. Put(a, a, a.data)
  BY DEF Put, Moved
<1> QED BY <1>0, <1>1, <1>3, <1>4, TextMade

(* The offsets of a range taken out and the rest moved down are mended.    *)
LEMMA DeleteMends ==
  ASSUME NEW d, NEW p, NEW c, Laid(d, p, c), NEW from \in Nat, NEW to \in Nat, from < to, to <= Len(c),
         NEW n, n = Len(p), NEW lo, NEW hi, lo = p[from + 1], hi = p[to + 1]
  PROVE  LET r == SubSeq(p, 1, from) \o Text!Shifted(SubSeq(p, to + 1, n), lo - hi)
         IN  r \in Seq(Nat) /\ AsMended(r, p, from, to, <<0>>, lo, (lo + 0) - hi)
<1> DEFINE by == lo - hi
           s == SubSeq(p, 1, from)
           u == SubSeq(p, to + 1, n)
           t == [i \in DOMAIN u |-> u[i] + by]
           q == <<0>>
           r == s \o t
<1>1. /\ p \in Seq(Nat) /\ n = Len(c) + 1 /\ Len(c) \in Nat /\ n \in Nat
      /\ (\A i, j \in 1..n : i <= j => p[i] <= p[j])
      /\ (\A i \in 1..n : p[i] \in Nat)
  <2>1. p \in Seq(Nat) /\ Len(p) = Len(c) + 1 /\ Len(c) \in Nat
    BY LaidOf
  <2>2. \A i, j \in 1..Len(p) : i <= j => p[i] <= p[j]
    BY LaidOf
  <2> QED BY <2>1, <2>2
<1>2. from + 1 \in 1..n /\ to + 1 \in 1..n
  BY <1>1
<1>3. lo \in Nat /\ hi \in Nat
  BY <1>1, <1>2
<1>4. s \in Seq(Nat) /\ Len(s) = from /\ \A i \in 1..from : s[i] = p[i]
  BY <1>1
<1>5. u \in Seq(Nat) /\ Len(u) = n - to /\ n - to \in Nat /\ DOMAIN u = 1..n - to /\ \A i \in 1..n - to : u[i] = p[to + i]
  BY <1>1, <1>2
<1>6. Len(q) = 1
  OBVIOUS
<1> HIDE DEF s, u, q
<1>7. ASSUME NEW i \in 1..n - to PROVE u[i] + by \in Nat
  <2>1. to + i \in 1..n /\ to + 1 <= to + i
    BY <1>1
  <2>2. p[to + i] \in Nat /\ hi <= p[to + i] /\ u[i] = p[to + i]
    BY <1>1, <1>2, <1>5, <2>1
  <2> DEFINE v == u[i]
  <2>3. v \in Nat /\ hi <= v
    BY <2>2
  <2> HIDE DEF v
  <2>4. v + by \in Nat
    BY <1>3, <2>3
  <2> QED BY <2>4 DEF v
<1>8. t \in Seq(Nat) /\ Len(t) = n - to /\ \A i \in 1..n - to : t[i] = u[i] + by
  BY <1>5, <1>7
<1>9. Text!Shifted(u, lo - hi) = t
  BY DEF Text!Shifted
<1> HIDE DEF t
<1>10. r \in Seq(Nat) /\ AsJoin(r, s, t)
  BY <1>4, <1>8, JoinIs
<1> HIDE DEF r
<1>11. Len(r) = from + (n - to)
  BY <1>4, <1>8, <1>10 DEF AsJoin
<1>12. ASSUME NEW i \in 1..Len(r)
       PROVE  r[i] = IF i <= from + 1 THEN p[i] ELSE IF i <= from + Len(q) THEN q[i - from] + lo
                                 ELSE p[i - (Len(q) - 1) + (to - from)] + ((lo + 0) - hi)
  <2>1. r[i] = IF i <= from THEN s[i] ELSE t[i - from]
    BY <1>4, <1>10 DEF AsJoin
  <2>2. CASE i <= from
    BY <1>1, <1>4, <1>11, <2>1, <2>2
  <2>3. CASE ~(i <= from)
    <3> DEFINE j == i - from
    <3>1. j \in 1..n - to /\ to + j = i - (Len(q) - 1) + (to - from)
      BY <1>1, <1>6, <1>11, <2>3
    <3>2. r[i] = t[j]
      BY <2>1, <2>3
    <3>3. t[j] = p[to + j] + by
      <4> HIDE DEF j
      <4> QED BY <1>5, <1>8, <3>1
    <3>4. by = (lo + 0) - hi
      BY <1>3
    <3>5. CASE i = from + 1
      <4>1. j = 1 /\ to + j = to + 1
        BY <3>5
      <4>2. t[j] = hi + by
        BY <3>3, <4>1
      <4>3. hi + by = lo
        BY <1>3
      <4> QED BY <3>2, <3>5, <4>2, <4>3
    <3>6. CASE i # from + 1
      <4>1. ~(i <= from + 1) /\ ~(i <= from + Len(q))
        BY <1>1, <1>6, <1>11, <2>3, <3>6
      <4> HIDE DEF j, by
      <4> QED BY <3>1, <3>2, <3>3, <3>4, <4>1
    <3> QED BY <3>5, <3>6
  <2> QED BY <2>2, <2>3
<1>13. Len(r) = Len(p) - (to - from) + (Len(q) - 1)
  BY <1>1, <1>6, <1>11
<1>14. AsMended(r, p, from, to, q, lo, (lo + 0) - hi)
  BY <1>12, <1>13 DEF AsMended
<1> QED BY <1>9, <1>10, <1>14 DEF r, q, s, u

(* A range taken out is a range replaced by nothing.                       *)
LEMMA WithoutReplaces ==
  ASSUME NEW S, NEW c \in Seq(S), NEW from \in Nat, NEW to \in Nat, from <= to, to <= Len(c)
  PROVE  LET h == Fixed!Without(c, from, to) IN h \in Seq(S) /\ AsReplaced(h, c, from, to, <<>>)
<1> DEFINE h == Fixed!Without(c, from, to)
           g == <<>>
<1>1. h \in Seq(S) /\ AsWithout(h, c, from, to)
  BY WithoutIs
<1>2. Len(g) = 0
  OBVIOUS
<1> HIDE DEF h, g
<1>3. Len(h) = Len(c) - (to - from) /\ Len(c) \in Nat
  BY <1>1 DEF AsWithout
<1>4. ASSUME NEW i \in 1..Len(h)
      PROVE  h[i] = IF i <= from THEN c[i] ELSE IF i <= from + Len(g) THEN g[i - from] ELSE c[i - Len(g) + (to - from)]
  <2>1. h[i] = IF i <= from THEN c[i] ELSE c[i + (to - from)]
    BY <1>1 DEF AsWithout
  <2>2. i - Len(g) + (to - from) = i + (to - from) /\ from + Len(g) = from
    BY <1>2
  <2> QED BY <2>1, <2>2
<1>5. Len(h) = Len(c) - (to - from) + Len(g)
  BY <1>2, <1>3
<1> QED BY <1>1, <1>4, <1>5 DEF AsReplaced, h, g

(* A range deleted from a string array takes those rows away.              *)
LEMMA TextDelete ==
  ASSUME NEW a, NEW w, TextKept(a, w), WholeAt(a, w), NEW from \in Nat, NEW to \in Nat, from <= to, to <= Len(w)
  PROVE  LET c == Text!DeleteRange(a, from, to) IN Like(c, a) /\ TextKept(c, Fixed!Without(w, from, to))
<1> DEFINE x == Fixed!Without(w, from, to)
           p == a.offsets
           lo == p[from + 1]
           hi == p[to + 1]
           n == Len(p)
           r == SubSeq(p, 1, from) \o Text!Shifted(SubSeq(p, to + 1, n), lo - hi)
           e == <<>>
           d == (SubSeq(a.data, 1, lo) \o e) \o SubSeq(a.data, hi + 1, Len(a.data))
           b == Text!Strings(a, Fixed!Without(a.data, lo, hi), r)
           c == Fixed!OnMask(b, Fixed!Without(a.mask, from, to))
<1>0. Fields(a) /\ Frame(a, w) /\ "offsets" \in DOMAIN a /\ a.unit \in Nat /\ w \in Seq(WantRow) /\ Len(w) \in Nat
      /\ a.data \in Seq(Byte)
  BY TextOf
<1>1. CASE from = to
  <2>1. Text!DeleteRange(a, from, to) = a
    BY <1>1 DEF Text!DeleteRange
  <2>2. x \in Seq(WantRow) /\ AsWithout(x, w, from, to)
    BY <1>0, WithoutIs
  <2> HIDE DEF x
  <2>3. Len(x) = Len(w) /\ \A i \in 1..Len(x) : x[i] = w[i]
    <3>1. to - from = 0 /\ Len(x) = Len(w)
      BY <1>0, <1>1, <2>2 DEF AsWithout
    <3>2. ASSUME NEW i \in 1..Len(x) PROVE x[i] = w[i]
      <4>1. i + (to - from) = i
        BY <3>1
      <4> QED BY <2>2, <4>1 DEF AsWithout
    <3> QED BY <3>1, <3>2
  <2>4. x = w
    BY <1>0, <2>2, <2>3, SeqEqual
  <2>5. Like(a, a)
    BY DEF Like
  <2> QED BY <2>1, <2>4, <2>5 DEF x
<1>2. CASE from # to
  <2>0. from < to
    BY <1>2
  <2>1. PICK c0 \in Seq(Seq(Byte)) : Laid(a.data, p, c0) /\ Len(c0) = Len(w) /\ Pairs(Is(a.unit), c0, w)
    BY TextOf
  <2>2. Laid(e, <<0>>, <<>>)
    BY LaidNone
  <2>3. r \in Seq(Nat) /\ AsMended(r, p, from, to, <<0>>, lo, (lo + 0) - hi)
    <3> HIDE DEF p, lo, hi, n
    <3>1. lo = p[from + 1] /\ hi = p[to + 1] /\ n = Len(p)
      BY DEF lo, hi, n
    <3> QED BY <2>0, <2>1, <3>1, DeleteMends
  <2>4. Len(e) = 0
    OBVIOUS
  <2>5. Fixed!Without(a.data, lo, hi) = d
    <3>1. SubSeq(a.data, 1, lo) \in Seq(Byte)
      <4>1. /\ \A i \in 1..Len(p) : p[i] \in Nat /\ p[i] <= Len(a.data)
            /\ Len(p) = Len(w) + 1
        BY <2>1, LaidOf
      <4>2. from + 1 \in 1..Len(p)
        BY <1>0, <4>1
      <4> QED BY <1>0, <4>1, <4>2
    <3>2. SubSeq(a.data, 1, lo) \o <<>> = SubSeq(a.data, 1, lo)
      BY <3>1
    <3> QED BY <3>2 DEF Fixed!Without
  <2>6. Put(b, a, d) /\ b.offsets = r
    BY <1>0, <2>5, StringsPut, Zenon
  <2>7. Text!DeleteRange(a, from, to) = c
    BY <1>2, TextSame DEF Text!DeleteRange, Text!Start
  <2> HIDE DEF b, r
  <2>8. Turned(c, b, a, x)
    BY <1>0, <2>6, TurnDelete DEF Put
  <2> DEFINE h == Fixed!Without(c0, from, to)
  <2>9. h \in Seq(Seq(Byte)) /\ AsReplaced(h, c0, from, to, <<>>)
    BY <2>1, WithoutReplaces
  <2>10. Len(h) = Len(x)
    <3>1. AsWithout(h, c0, from, to) /\ AsWithout(x, w, from, to)
      BY <1>0, <2>1, WithoutIs
    <3> QED BY <2>1, <3>1 DEF AsWithout
  <2>11. Pairs(Is(a.unit), h, x)
    BY <1>0, <2>1, PairsWithout
  <2> HIDE DEF c, h, x
  <2>12. to <= Len(c0) /\ lo = p[from + 1] /\ hi = p[to + 1]
    BY <2>1
  <2>13. AsMended(r, a.offsets, from, to, <<0>>, lo, (lo + Len(e)) - hi)
    BY <2>3, <2>4
  <2> HIDE DEF lo, hi, e
  <2>14. Put(b, a, (SubSeq(a.data, 1, lo) \o e) \o SubSeq(a.data, hi + 1, Len(a.data)))
    BY <2>6
  <2>15. Like(c, a) /\ TextKept(c, x)
    BY <1>0, <2>1, <2>2, <2>3, <2>6, <2>8, <2>9, <2>10, <2>11, <2>12, <2>13, <2>14, TextMended
  <2> QED BY <2>7, <2>15 DEF x
<1> QED BY <1>1, <1>2

(* Another array's offsets put in at a place, moved up, and the rest moved *)
(* up by its bytes are mended.                                             *)
LEMMA InsertMends ==
  ASSUME NEW d, NEW p, NEW c, Laid(d, p, c), NEW e, NEW q, NEW g, Laid(e, q, g), NEW at \in Nat, at <= Len(c),
         NEW lo, lo = p[at + 1], NEW k, k = Len(e)
  PROVE  LET r == (SubSeq(p, 1, at + 1) \o Text!Shifted(Tail(q), lo - q[1])) \o Text!Shifted(SubSeq(p, at + 2, Len(p)), k)
         IN  r \in Seq(Nat) /\ AsMended(r, p, at, at, q, lo, (lo + k) - lo)
<1> DEFINE n == Len(p)
           m == Len(q) - 1
           by == lo - q[1]
           s == SubSeq(p, 1, at + 1)
           v == Tail(q)
           z == SubSeq(p, at + 2, Len(p))
           t == [i \in DOMAIN v |-> v[i] + by]
           u == [i \in DOMAIN z |-> z[i] + k]
           s2 == s \o t
           r == s2 \o u
<1>1. /\ p \in Seq(Nat) /\ n = Len(c) + 1 /\ Len(c) \in Nat /\ n \in Nat
      /\ (\A i \in 1..n : p[i] \in Nat)
  <2>1. p \in Seq(Nat) /\ Len(p) = Len(c) + 1 /\ Len(c) \in Nat
    BY LaidOf
  <2> QED BY <2>1
<1>2. q \in Seq(Nat) /\ Len(q) = Len(g) + 1 /\ Len(g) \in Nat /\ q[1] = 0 /\ k \in Nat
  BY LaidOf
<1>3. at + 1 \in 1..n /\ lo \in Nat
  BY <1>1
<1>4. s \in Seq(Nat) /\ Len(s) = at + 1 /\ \A i \in 1..at + 1 : s[i] = p[i]
  BY <1>1, <1>3
<1>5. v \in Seq(Nat) /\ Len(v) = m /\ m \in Nat /\ DOMAIN v = 1..m /\ \A i \in 1..m : v[i] = q[i + 1]
  BY <1>2
<1>6. z \in Seq(Nat) /\ Len(z) = n - (at + 1) /\ DOMAIN z = 1..n - (at + 1) /\ \A i \in 1..n - (at + 1) : z[i] = p[(at + 1) + i]
  BY <1>1, <1>3
<1>7. by = lo
  BY <1>2, <1>3
<1> HIDE DEF s, v, z, n, by
<1>8. ASSUME NEW i \in 1..m PROVE v[i] + by \in Nat
  <2>1. v[i] \in Nat
    BY <1>5
  <2> DEFINE x == v[i]
  <2> HIDE DEF x
  <2>2. x + by \in Nat
    BY <1>3, <1>7, <2>1 DEF x
  <2> QED BY <2>2 DEF x
<1>9. ASSUME NEW i \in 1..n - (at + 1) PROVE z[i] + k \in Nat
  <2>1. z[i] \in Nat
    BY <1>6
  <2> DEFINE x == z[i]
  <2> HIDE DEF x
  <2>2. x + k \in Nat
    BY <1>2, <2>1 DEF x
  <2> QED BY <2>2 DEF x
<1>10. t \in Seq(Nat) /\ Len(t) = m /\ \A i \in 1..m : t[i] = v[i] + by
  BY <1>5, <1>8
<1>11. u \in Seq(Nat) /\ Len(u) = n - (at + 1) /\ \A i \in 1..n - (at + 1) : u[i] = z[i] + k
  <2>1. n - (at + 1) \in Nat
    BY <1>1, <1>3
  <2> DEFINE l == n - (at + 1)
  <2>2. l \in Nat /\ DOMAIN z = 1..l /\ \A i \in 1..l : z[i] + k \in Nat
    BY <1>6, <1>9, <2>1
  <2> HIDE DEF l
  <2>3. u \in Seq(Nat) /\ Len(u) = l /\ \A i \in 1..l : u[i] = z[i] + k
    BY <2>2
  <2> QED BY <2>3 DEF l
<1>12. Text!Shifted(v, by) = t /\ Text!Shifted(z, k) = u
  BY DEF Text!Shifted
<1> HIDE DEF t, u
<1>13. s2 \in Seq(Nat) /\ AsJoin(s2, s, t)
  BY <1>4, <1>10, JoinIs
<1> HIDE DEF s2
<1>14. r \in Seq(Nat) /\ AsJoin(r, s2, u)
  BY <1>11, <1>13, JoinIs
<1> HIDE DEF r
<1>15. Len(s2) = at + 1 + m
  BY <1>4, <1>10, <1>13 DEF AsJoin
<1>16. Len(r) = n + m
  BY <1>1, <1>3, <1>5, <1>11, <1>14, <1>15 DEF AsJoin
<1>17. Len(q) = m + 1
  BY <1>2
<1> HIDE DEF m
<1>18. ASSUME NEW i \in 1..Len(r)
       PROVE  r[i] = IF i <= at + 1 THEN p[i] ELSE IF i <= at + Len(q) THEN q[i - at] + lo
                                 ELSE p[i - (Len(q) - 1) + (at - at)] + ((lo + k) - lo)
  <2>0. i \in Nat /\ i >= 1 /\ i <= n + m /\ at + Len(q) = at + 1 + m
    BY <1>1, <1>5, <1>16, <1>17
  <2>1. r[i] = IF i <= at + 1 + m THEN s2[i] ELSE u[i - (at + 1 + m)]
    BY <1>14, <1>15 DEF AsJoin
  <2>2. i <= at + 1 + m => s2[i] = IF i <= at + 1 THEN s[i] ELSE t[i - (at + 1)]
    <3> SUFFICES ASSUME i <= at + 1 + m PROVE s2[i] = IF i <= at + 1 THEN s[i] ELSE t[i - (at + 1)]
      OBVIOUS
    <3>1. i \in 1..Len(s2)
      BY <1>5, <1>15, <2>0
    <3>2. s2[i] = IF i <= Len(s) THEN s[i] ELSE t[i - Len(s)]
      BY <1>13, <3>1 DEF AsJoin
    <3> QED BY <1>4, <3>2
  <2>3. CASE i <= at + 1
    <3>1. i <= at + 1 + m /\ i \in 1..at + 1
      BY <1>5, <2>0, <2>3
    <3> QED BY <1>4, <2>1, <2>2, <2>3, <3>1
  <2>4. CASE ~(i <= at + 1) /\ i <= at + 1 + m
    <3> DEFINE j == i - (at + 1)
    <3>1. j \in 1..m /\ j + 1 = i - at
      BY <1>5, <2>0, <2>4
    <3>2. r[i] = t[j]
      BY <2>1, <2>2, <2>4
    <3>3. t[j] = q[j + 1] + lo
      <4> HIDE DEF j
      <4> QED BY <1>5, <1>7, <1>10, <3>1
    <3>4. i <= at + Len(q)
      BY <2>0, <2>4
    <3> HIDE DEF j
    <3> QED BY <2>4, <3>1, <3>2, <3>3, <3>4
  <2>5. CASE ~(i <= at + 1 + m)
    <3> DEFINE j == i - (at + 1 + m)
    <3>1. j \in 1..n - (at + 1) /\ (at + 1) + j = i - (Len(q) - 1) + (at - at)
      BY <1>1, <1>3, <1>5, <1>17, <2>0, <2>5
    <3>2. r[i] = u[j]
      BY <2>1, <2>5
    <3>3. u[j] = p[(at + 1) + j] + k
      <4> HIDE DEF j
      <4> QED BY <1>6, <1>11, <3>1
    <3>4. ~(i <= at + Len(q)) /\ ~(i <= at + 1)
      BY <1>5, <2>0, <2>5
    <3>5. (lo + k) - lo = k
      BY <1>2, <1>3
    <3> HIDE DEF j
    <3> QED BY <3>1, <3>2, <3>3, <3>4, <3>5
  <2> QED BY <2>3, <2>4, <2>5
<1>19. Len(r) = Len(p) - (at - at) + (Len(q) - 1)
  BY <1>1, <1>16, <1>17, <1>5 DEF n
<1>20. AsMended(r, p, at, at, q, lo, (lo + k) - lo)
  BY <1>18, <1>19 DEF AsMended
<1> QED BY <1>12, <1>14, <1>20 DEF r, s2, s, v, z, by

(* A splice replaces an empty range.                                       *)
LEMMA SplicedReplaces ==
  ASSUME NEW S, NEW c \in Seq(S), NEW at \in Nat, at <= Len(c), NEW g \in Seq(S)
  PROVE  LET h == Fixed!Spliced(c, at, g) IN h \in Seq(S) /\ AsReplaced(h, c, at, at, g) /\ Len(h) = Len(c) + Len(g)
<1> DEFINE h == Fixed!Spliced(c, at, g)
<1>1. h \in Seq(S) /\ AsSpliced(h, c, at, g)
  BY SplicedIs
<1> HIDE DEF h
<1>2. Len(h) = Len(c) + Len(g) /\ Len(c) \in Nat /\ Len(g) \in Nat
  BY <1>1 DEF AsSpliced
<1>3. ASSUME NEW i \in 1..Len(h)
      PROVE  h[i] = IF i <= at THEN c[i] ELSE IF i <= at + Len(g) THEN g[i - at] ELSE c[i - Len(g) + (at - at)]
  <2>1. i - Len(g) + (at - at) = i - Len(g)
    BY <1>2
  <2> QED BY <1>1, <2>1 DEF AsSpliced
<1>4. Len(h) = Len(c) - (at - at) + Len(g)
  BY <1>2
<1> QED BY <1>1, <1>2, <1>3, <1>4 DEF AsReplaced, h

(* insert_rows of a string array puts the other's rows in at the place.    *)
LEMMA TextInsert ==
  ASSUME NEW a, NEW w, TextKept(a, w), WholeAt(a, w), NEW o, NEW y, TextKept(o, y), o.unit = a.unit,
         o.masked => Len(o.mask) >= Len(y), NEW at \in Nat, at <= Len(w)
  PROVE  LET c == Text!InsertRows(a, at, o) IN Like(c, a) /\ TextKept(c, Fixed!Spliced(w, at, y))
<1> DEFINE x == Fixed!Spliced(w, at, y)
           p == a.offsets
           q == o.offsets
           lo == p[at + 1]
           k == Len(o.data)
           r == (SubSeq(p, 1, at + 1) \o Text!Shifted(Tail(q), lo - q[1])) \o Text!Shifted(SubSeq(p, at + 2, Len(p)), k)
           b == Text!Strings(a, Fixed!Spliced(a.data, lo, o.data), r)
           c == Fixed!Inserted(b, Len(w), at, o.masked, o.mask, Len(y))
<1>0. Fields(a) /\ Frame(a, w) /\ "offsets" \in DOMAIN a /\ a.unit \in Nat /\ w \in Seq(WantRow) /\ Len(w) \in Nat
      /\ Text!Length(a) = Len(w) /\ Text!Length(o) = Len(y) /\ Nulls(o.masked, o.mask, y) /\ y \in Seq(WantRow)
  BY TextOf
<1>1. PICK c0 \in Seq(Seq(Byte)) : Laid(a.data, p, c0) /\ Len(c0) = Len(w) /\ Pairs(Is(a.unit), c0, w)
  BY TextOf
<1>2. PICK g \in Seq(Seq(Byte)) : Laid(o.data, q, g) /\ Len(g) = Len(y) /\ Pairs(Is(a.unit), g, y)
  BY TextOf
<1>3. r \in Seq(Nat) /\ AsMended(r, p, at, at, q, lo, (lo + k) - lo)
  <2> HIDE DEF p, q, lo, k
  <2>1. lo = p[at + 1] /\ k = Len(o.data) /\ at <= Len(c0)
    BY <1>1 DEF lo, k
  <2> QED BY <1>1, <1>2, <2>1, InsertMends
<1>4. Put(b, a, (SubSeq(a.data, 1, lo) \o o.data) \o SubSeq(a.data, lo + 1, Len(a.data))) /\ b.offsets = r
  <2>1. Fixed!Spliced(a.data, lo, o.data) = (SubSeq(a.data, 1, lo) \o o.data) \o SubSeq(a.data, lo + 1, Len(a.data))
    BY DEF Fixed!Spliced
  <2> QED BY <1>0, <2>1, StringsPut, Zenon
<1>5. Text!InsertRows(a, at, o) = c
  BY <1>0, TextSame DEF Text!InsertRows, Text!Start
<1> HIDE DEF b, r
<1>6. Turned(c, b, a, x)
  BY <1>0, <1>4, TurnInserted DEF Put
<1> DEFINE h == Fixed!Spliced(c0, at, g)
<1>7. h \in Seq(Seq(Byte)) /\ AsReplaced(h, c0, at, at, g) /\ Len(h) = Len(c0) + Len(g)
  BY <1>1, <1>2, SplicedReplaces
<1>8. Len(x) = Len(w) + Len(y)
  BY <1>0, SplicedReplaces
<1>9. Pairs(Is(a.unit), h, x)
  BY <1>0, <1>1, <1>2, PairsSpliced
<1> HIDE DEF c, h, x
<1>10. at <= at /\ at <= Len(c0) /\ Len(h) = Len(x) /\ lo = a.offsets[at + 1]
  BY <1>0, <1>1, <1>2, <1>7, <1>8
<1>11. AsMended(r, a.offsets, at, at, o.offsets, lo, (lo + Len(o.data)) - lo)
  BY <1>3
<1> HIDE DEF lo, k
<1>12. Like(c, a) /\ TextKept(c, x)
  BY <1>0, <1>1, <1>2, <1>3, <1>4, <1>6, <1>7, <1>9, <1>10, <1>11, TextMended
<1> QED BY <1>5, <1>12 DEF x

(* What a row of a string array reads as, none or a string; what such a    *)
(* cell has to be for a row of an array in the unit u.                     *)
TextCell(x, i) == IF Text!IsNull(x, i) THEN <<>> ELSE <<Text!Value(x, i)[2]>>
CellFits(u, t, r) ==
  /\ t = <<>> <=> r = <<>>
  /\ r # <<>> => t[1] \in Seq(Byte) /\ t = <<t[1]>> /\ r = Rowed(u, t[1])

(* A row is read as null when it is null, if the mask covers the rows.     *)
LEMMA NullIs ==
  ASSUME NEW a, NEW w, Nulls(a.masked, a.mask, w), a.masked => Len(a.mask) >= Len(w), NEW i \in 1..Len(w)
  PROVE  Fixed!IsNull(a, i) <=> w[i] = <<>>
<1>1. a.masked \in BOOLEAN /\ a.mask \in Seq(Bits)
  BY DEF Nulls
<1>2. (a.masked /\ i <= Len(a.mask) /\ a.mask[i] # Yes) <=> w[i] = <<>>
  BY DEF Nulls
<1>3. CASE a.masked = TRUE
  <2>1. i <= Len(a.mask) /\ a.mask[i] \in BOOLEAN
    <3>1. i <= Len(a.mask)
      BY <1>1, <1>3
    <3>2. i \in 1..Len(a.mask)
      BY <1>1, <3>1
    <3>3. a.mask[i] \in Bits
      BY <1>1, <3>2
    <3> QED BY <3>1, <3>3 DEF Bits
  <2>2. a.mask[i] # Yes <=> ~a.mask[i]
    BY <2>1, Zenon DEF Yes
  <2> QED BY <1>2, <1>3, <2>1, <2>2 DEF Fixed!IsNull
<1>4. CASE a.masked = FALSE
  BY <1>2, <1>4 DEF Fixed!IsNull
<1> QED BY <1>1, <1>3, <1>4

(* A row of a string array is read as the null or the string it is.        *)
LEMMA TextRead ==
  ASSUME NEW a, NEW w, TextKept(a, w), a.masked => Len(a.mask) >= Len(w), NEW i \in 1..Len(w)
  PROVE  /\ Text!IsNull(a, i) <=> w[i] = <<>>
         /\ Text!Value(a, i) = <<a.unit, Text!Value(a, i)[2]>> /\ Text!Value(a, i)[2] \in Seq(Byte)
         /\ w[i] # <<>> => w[i] = Rowed(a.unit, Text!Value(a, i)[2])
<1>0. Nulls(a.masked, a.mask, w) /\ w \in Seq(WantRow) /\ a.unit \in Nat
  BY TextOf
<1>1. Text!IsNull(a, i) <=> w[i] = <<>>
  BY <1>0, NullIs, TextSame
<1>2. PICK c0 \in Seq(Seq(Byte)) : Laid(a.data, a.offsets, c0) /\ Len(c0) = Len(w) /\ Pairs(Is(a.unit), c0, w)
  BY TextOf
<1>3. c0[i] = SubSeq(a.data, a.offsets[i] + 1, a.offsets[i + 1]) /\ c0[i] \in Seq(Byte)
  <2>1. i \in 1..Len(c0)
    BY <1>2
  <2>2. c0[i] = SubSeq(a.data, a.offsets[i] + 1, a.offsets[i + 1])
    BY <1>2, <2>1 DEF Laid
  <2>3. c0[i] \in Seq(Byte)
    BY <1>2, <2>1
  <2> QED BY <2>2, <2>3
<1>4. Text!Value(a, i) = <<a.unit, c0[i]>>
  BY <1>3 DEF Text!Value, Text!Start, Text!End
<1>5. <<c0[i], w[i]>> \in Is(a.unit)
  BY <1>2 DEF Pairs
<1> DEFINE v == c0[i]
           r == w[i]
<1>6. r # <<>> => r = Rowed(a.unit, v)
  <2> HIDE DEF v, r
  <2>1. <<v, r>> \in Is(a.unit)
    BY <1>5 DEF v, r
  <2> QED BY <2>1 DEF Is, Rowed
<1>7. Text!Value(a, i)[2] = v
  BY <1>4
<1> HIDE DEF v
<1> QED BY <1>1, <1>3, <1>4, <1>6, <1>7 DEF v

(* So the cell that is read fits the row.                                  *)
LEMMA TextCellFits ==
  ASSUME NEW a, NEW w, TextKept(a, w), a.masked => Len(a.mask) >= Len(w), NEW i \in 1..Len(w)
  PROVE  CellFits(a.unit, TextCell(a, i), w[i])
<1> DEFINE v == Text!Value(a, i)[2]
           r == w[i]
           u == a.unit
<1>1. (Text!IsNull(a, i) <=> r = <<>>) /\ v \in Seq(Byte) /\ (r # <<>> => r = Rowed(u, v))
  BY TextRead
<1>2. TextCell(a, i) = IF Text!IsNull(a, i) THEN <<>> ELSE <<v>>
  BY DEF TextCell
<1> HIDE DEF v, r, u
<1>3. CellFits(u, TextCell(a, i), r)
  <2>1. CASE r = <<>>
    BY <1>1, <1>2, <2>1 DEF CellFits
  <2>2. CASE r # <<>>
    <3>1. TextCell(a, i) = <<v>>
      BY <1>1, <1>2, <2>2
    <3>2. <<v>>[1] = v /\ <<v>> # <<>>
      OBVIOUS
    <3> QED BY <1>1, <2>2, <3>1, <3>2 DEF CellFits
  <2> QED BY <2>1, <2>2
<1> QED BY <1>3 DEF u, r

(* Cells, and the values and the mask that are made from them. *)
CellTexts(n, t) == [i \in 1..n |-> IF t[i] = <<>> THEN <<>> ELSE t[i][1]]
CellMask(n, t)  == [i \in 1..n |-> t[i] # <<>>]

(* Cells that fit rows give strings that correspond to the rows and a mask *)
(* that marks their nulls.                                                 *)
LEMMA CellsMade ==
  ASSUME NEW u \in Nat, NEW x \in Seq(WantRow), NEW t, \A i \in 1..Len(x) : CellFits(u, t[i], x[i]),
         NEW n, n = Len(x)
  PROVE  LET vs == CellTexts(n, t)
             m == CellMask(n, t)
         IN  /\ vs \in Seq(Seq(Byte)) /\ Len(vs) = n /\ Pairs(Is(u), vs, x)
             /\ m \in Seq(Bits) /\ Nulls(TRUE, m, x) /\ ((\A i \in 1..n : m[i]) => \A i \in 1..n : x[i] # <<>>)
<1> DEFINE vs == [i \in 1..n |-> IF t[i] = <<>> THEN <<>> ELSE t[i][1]]
           m == [i \in 1..n |-> t[i] # <<>>]
<1>0. n \in Nat
  OBVIOUS
<1>1. ASSUME NEW i \in 1..n
      PROVE  /\ vs[i] \in Seq(Byte) /\ <<vs[i], x[i]>> \in Is(u) /\ m[i] \in Bits
             /\ m[i] # Yes <=> x[i] = <<>>
             /\ m[i] => x[i] # <<>>
  <2> DEFINE z == t[i]
             r == x[i]
  <2>1. CellFits(u, z, r) /\ r \in WantRow
    <3>1. i \in 1..Len(x)
      OBVIOUS
    <3> QED BY <3>1
  <2>2. vs[i] = (IF z = <<>> THEN <<>> ELSE z[1]) /\ m[i] = (z # <<>>)
    OBVIOUS
  <2> HIDE DEF z, r, vs, m
  <2>3. CASE r = <<>>
    <3>1. z = <<>>
      BY <2>1, <2>3 DEF CellFits
    <3>2. vs[i] = <<>> /\ m[i] = FALSE
      BY <2>2, <3>1
    <3>3. <<>> \in Seq(Byte) /\ FALSE # TRUE
      OBVIOUS
    <3>4. <<<<>>, <<>>>> \in Is(u)
      BY <3>3, ByteCell, RowedIs
    <3>5. m[i] \in Bits /\ m[i] # Yes
      BY <3>2 DEF Bits, Yes
    <3> QED BY <2>3, <3>2, <3>3, <3>4, <3>5 DEF r
  <2>4. CASE r # <<>>
    <3>1. z # <<>> /\ z[1] \in Seq(Byte) /\ r = Rowed(u, z[1])
      BY <2>1, <2>4 DEF CellFits
    <3>2. vs[i] = z[1] /\ m[i] = TRUE
      BY <2>2, <3>1
    <3>3. <<z[1], r>> \in Is(u)
      BY <3>1, ByteCell, RowedIs
    <3>4. m[i] \in Bits /\ m[i] = Yes
      BY <3>2 DEF Bits, Yes
    <3> QED BY <2>4, <3>1, <3>2, <3>3, <3>4 DEF r
  <2> QED BY <2>3, <2>4
<1>2. vs = [i \in 1..n |-> vs[i]] /\ m = [i \in 1..n |-> m[i]]
  OBVIOUS
<1> HIDE DEF vs, m
<1>3. vs \in Seq(Seq(Byte)) /\ Len(vs) = n
  <2>1. \A i \in 1..n : vs[i] \in Seq(Byte)
    BY <1>1
  <2> DEFINE S == Seq(Byte)
  <2> HIDE DEF S
  <2>2. \A i \in 1..n : vs[i] \in S
    BY <2>1 DEF S
  <2>3. vs \in Seq(S) /\ Len(vs) = n
    BY ONLY <1>0, <1>2, <2>2
  <2> QED BY <2>3 DEF S
<1>4. m \in Seq(Bits) /\ Len(m) = n
  <2>1. \A i \in 1..n : m[i] \in Bits
    BY <1>1
  <2> QED BY ONLY <1>0, <1>2, <2>1
<1>5. Pairs(Is(u), vs, x)
  BY <1>0, <1>1, <1>3 DEF Pairs
<1>6. Nulls(TRUE, m, x)
  <2>1. \A i \in 1..Len(x) : (TRUE /\ i <= Len(m) /\ m[i] # Yes) <=> x[i] = <<>>
    <3> TAKE i \in 1..Len(x)
    <3>1. i \in 1..n /\ i <= Len(m)
      BY <1>0, <1>4
    <3>2. m[i] # Yes <=> x[i] = <<>>
      BY <1>1, <3>1
    <3> QED BY <3>1, <3>2
  <2> QED BY <1>4, <2>1 DEF Nulls
<1>7. (\A i \in 1..n : m[i]) => \A i \in 1..n : x[i] # <<>>
  BY <1>1
<1> QED BY <1>3, <1>4, <1>5, <1>6, <1>7 DEF vs, m, CellTexts, CellMask

(* A string array built anew from strings that correspond to x, under a    *)
(* mask that marks the nulls of x, keeps x.                                *)
LEMMA TextRebuilt ==
  ASSUME NEW a, NEW w, TextKept(a, w), NEW vs, vs \in Seq(Seq(Byte)), NEW x, Len(vs) = Len(x), Pairs(Is(a.unit), vs, x),
         NEW c, Turned(c, Text!Strings(a, Text!FlattenSeq(vs), << 0 >> \o Text!EndsFrom(0, vs)), a, x)
  PROVE  Like(c, a) /\ TextKept(c, x)
<1> DEFINE d == Text!FlattenSeq(vs)
           q == <<0>> \o Text!EndsFrom(0, vs)
           b == Text!Strings(a, d, q)
<1>0. Fields(a) /\ "offsets" \in DOMAIN a
  BY TextOf
<1>1. Laid(d, q, vs)
  BY LaidFlat
<1>2. Put(b, a, d) /\ b.offsets = q
  BY <1>0, StringsPut
<1> HIDE DEF d, q, b
<1>3. Turned(c, b, a, x)
  BY DEF b, d, q
<1> QED BY <1>0, <1>1, <1>2, <1>3, TextMade

(* Taking the mask away and giving another is giving the other.            *)
LEMMA Remasked ==
  ASSUME NEW b, NEW m
  PROVE  Fixed!Masked(Fixed!Unmasked(b), m) = Fixed!Masked(b, m)
BY DEF Fixed!Masked, Fixed!Unmasked

(* scatter of string arrays, which builds them anew, puts the other's rows *)
(* at the places.                                                          *)
LEMMA TextScatter ==
  ASSUME NEW a, NEW w, TextKept(a, w), a.masked => Len(a.mask) >= Len(w), NEW o, NEW y, TextKept(o, y), o.unit = a.unit,
         o.masked => Len(o.mask) >= Len(y), NEW dst \in [1..2 -> 1..Len(w)], NEW src \in [1..2 -> 1..Len(y)],
         NEW x \in Seq(WantRow), AsPicked(x, w, y, dst, src)
  PROVE  LET c == Text!ScatterStr(a, dst, o, src) IN Like(c, a) /\ TextKept(c, x)
<1> DEFINE n == Len(w)
           last(d) == CHOOSE i \in DOMAIN dst : dst[i] = d /\ \A j \in DOMAIN dst : dst[j] = d => j <= i
           row(d) == IF \E i \in DOMAIN dst : dst[i] = d THEN TextCell(o, src[last(d)]) ELSE TextCell(a, d)
           t == [d \in 1..n |-> row(d)]
           vs == CellTexts(n, t)
           m == CellMask(n, t)
           b == Text!Strings(a, Text!FlattenSeq(vs), <<0>> \o Text!EndsFrom(0, vs))
           built == Fixed!Unmasked(b)
           c == IF \A d \in DOMAIN m : m[d] THEN built ELSE Fixed!Masked(built, m)
<1>0. Fields(a) /\ Frame(a, w) /\ "offsets" \in DOMAIN a /\ a.unit \in Nat /\ w \in Seq(WantRow) /\ n \in Nat
      /\ Text!Length(a) = n /\ y \in Seq(WantRow)
  BY TextOf
<1>1. Text!ScatterStr(a, dst, o, src) = c
  <2> DEFINE cell(d) == IF \E i \in DOMAIN dst : dst[i] = d
                        THEN IF Text!IsNull(o, src[last(d)]) THEN <<>> ELSE <<Text!Value(o, src[last(d)])[2]>>
                        ELSE IF Text!IsNull(a, d) THEN <<>> ELSE <<Text!Value(a, d)[2]>>
             vs1 == [d \in 1..n |-> IF cell(d) = <<>> THEN <<>> ELSE cell(d)[1]]
             m1 == [d \in 1..n |-> cell(d) # <<>>]
             b1 == Fixed!Unmasked(Text!Strings(a, Text!FlattenSeq(vs1), <<0>> \o Text!EndsFrom(0, vs1)))
  <2>1. Text!ScatterStr(a, dst, o, src) = IF \A d \in DOMAIN m1 : m1[d] THEN b1 ELSE Fixed!Masked(b1, m1)
    <3>1. Text!Length(a) = n
      BY <1>0
    <3> HIDE DEF n
    <3> QED BY <3>1, TextSame DEF Text!ScatterStr
  <2>2. ASSUME NEW d \in 1..n PROVE cell(d) = t[d]
    BY DEF TextCell
  <2>3. vs1 = vs /\ m1 = m
    <3> HIDE DEF t, cell
    <3> QED BY <2>2 DEF CellTexts, CellMask
  <2> QED BY <2>1, <2>3
<1>2. Len(x) = n /\ \A d \in 1..n : x[d] = IF dst[2] = d THEN y[src[2]] ELSE IF dst[1] = d THEN y[src[1]] ELSE w[d]
  BY DEF AsPicked
<1>3. ASSUME NEW d \in 1..n PROVE CellFits(a.unit, t[d], x[d])
  <2>0. DOMAIN dst = 1..2 /\ src[1] \in 1..Len(y) /\ src[2] \in 1..Len(y)
    OBVIOUS
  <2>1. CASE dst[2] = d \/ dst[1] = d
    <3>1. \E i \in DOMAIN dst : dst[i] = d
      BY <2>0, <2>1
    <3>2. last(d) = IF dst[2] = d THEN 2 ELSE 1
      BY <1>0, <3>1, LastIs
    <3> DEFINE i == src[IF dst[2] = d THEN 2 ELSE 1]
    <3>3. t[d] = TextCell(o, i)
      <4> HIDE DEF last
      <4> QED BY <3>1, <3>2
    <3>4. i \in 1..Len(y) /\ x[d] = y[i]
      BY <1>2, <2>0, <2>1
    <3> HIDE DEF t, i
    <3>5. CellFits(o.unit, TextCell(o, i), y[i])
      BY <3>4, TextCellFits
    <3> QED BY <3>3, <3>4, <3>5
  <2>2. CASE ~(dst[2] = d \/ dst[1] = d)
    <3>1. ~\E i \in DOMAIN dst : dst[i] = d
      BY <2>0, <2>2
    <3>2. t[d] = TextCell(a, d) /\ x[d] = w[d]
      <4> HIDE DEF last
      <4> QED BY <1>2, <2>2, <3>1
    <3> HIDE DEF t
    <3>3. CellFits(a.unit, TextCell(a, d), w[d])
      BY TextCellFits
    <3> QED BY <3>2, <3>3
  <2> QED BY <2>1, <2>2
<1> HIDE DEF t, n
<1>4. /\ vs \in Seq(Seq(Byte)) /\ Len(vs) = n /\ Pairs(Is(a.unit), vs, x)
      /\ m \in Seq(Bits) /\ Nulls(TRUE, m, x) /\ ((\A i \in 1..n : m[i]) => \A i \in 1..n : x[i] # <<>>)
  <2>1. n = Len(x) /\ \A i \in 1..Len(x) : CellFits(a.unit, t[i], x[i])
    BY <1>2, <1>3
  <2> QED BY <1>0, <2>1, CellsMade
<1>5. DOMAIN m = 1..n
  BY DEF CellMask
<1> HIDE DEF vs, m
<1>6. Moved(b, a)
  BY <1>0, StringsPut DEF Put
<1>7. Turned(c, b, a, x)
  <2> HIDE DEF b
  <2>1. CASE \A d \in DOMAIN m : m[d]
    <3>1. \A i \in 1..Len(x) : x[i] # <<>>
      BY <1>2, <1>4, <1>5, <2>1
    <3>2. Turned(built, b, a, x)
      BY <1>0, <1>6, <3>1, TurnUnmasked
    <3> QED BY <2>1, <3>2
  <2>2. CASE ~\A d \in DOMAIN m : m[d]
    <3>1. c = Fixed!Masked(b, m)
      BY <2>2, Remasked
    <3> HIDE DEF c
    <3>2. Turned(Fixed!Masked(b, m), b, a, x)
      BY <1>0, <1>4, <1>6, TurnMasked
    <3> QED BY <3>1, <3>2
  <2> QED BY <2>1, <2>2
<1> HIDE DEF c
<1>8. Like(c, a) /\ TextKept(c, x)
  BY <1>2, <1>4, <1>7, TextRebuilt
<1> QED BY <1>1, <1>8
=============================================================================
