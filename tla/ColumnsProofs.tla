-------------------------- MODULE ColumnsProofs --------------------------
(***************************************************************************)
(* That a column holds, after any sequence of calls, exactly the rows its  *)
(* owner expects (RowsAreExact), its masks, offsets and codes in step      *)
(* (WellFormed).  First the categorical arrays, as ArrayProofs has the     *)
(* other kinds; then the operations on an array of any kind; then the      *)
(* invariant Held of Columns and one lemma for each of its actions.        *)
(***************************************************************************)
EXTENDS ArrayProofs

-----------------------------------------------------------------------------
(* Categorical arrays                                                      *)

(* Dictionaries, in which no category is twice; a category of one; a       *)
(* dictionary that another is the beginning of; a code and its row in a    *)
(* unit and a dictionary: the row is null or the code has an entry, which  *)
(* the row holds. A categorical array that keeps the rows w.               *)
Dicts == {d \in Seq(Seq(Byte)) : \A i, j \in 1..Len(d) : i # j => d[i] # d[j]}
Has(d, v) == \E i \in 1..Len(d) : d[i] = v
Longer(e, d) == Len(e) >= Len(d) /\ \A i \in 1..Len(d) : e[i] = d[i]
Coded(u, d) == {p \in Nat \X WantRow : p[2] # <<>> => p[1] < Len(d) /\ p[2] = Rowed(u, d[p[1] + 1])}
CatKept(a, w) == Kept(Nat, Coded(a.unit, a.dict), a, w) /\ "dict" \in DOMAIN a /\ a.dict \in Dicts

(* What is known of a dictionary.                                          *)
LEMMA DictIs ==
  ASSUME NEW d \in Dicts
  PROVE  /\ d \in Seq(Seq(Byte)) /\ Len(d) \in Nat /\ (\A i \in 1..Len(d) : d[i] \in Seq(Byte))
         /\ \A i, j \in 1..Len(d) : i # j => d[i] # d[j]
<1>1. d \in Seq(Seq(Byte)) /\ \A i, j \in 1..Len(d) : i # j => d[i] # d[j]
  BY DEF Dicts
<1>2. Len(d) \in Nat /\ (\A i \in 1..Len(d) : d[i] \in Seq(Byte))
  <2> DEFINE S == Seq(Byte)
  <2> HIDE DEF S
  <2>1. d \in Seq(S)
    BY <1>1 DEF S
  <2>2. Len(d) \in Nat /\ (\A i \in 1..Len(d) : d[i] \in S)
    BY ONLY <2>1
  <2> QED BY <2>2 DEF S
<1> QED BY <1>1, <1>2

(* A dictionary that grew twice.                                           *)
LEMMA LongerTwice ==
  ASSUME NEW d \in Dicts, NEW e \in Dicts, NEW f, Longer(e, d), Longer(f, e), Len(f) \in Nat
  PROVE  Longer(f, d)
<1>1. Len(d) \in Nat /\ Len(e) \in Nat
  BY DictIs
<1> QED BY <1>1 DEF Longer

(* A dictionary is no shorter than itself.                                 *)
LEMMA LongerSame == \A d \in Dicts : Longer(d, d)
<1> TAKE d \in Dicts
<1>1. Len(d) \in Nat
  BY DictIs
<1> QED BY <1>1 DEF Longer

(* A dictionary that grew has what it had.                                 *)
LEMMA LongerHas ==
  ASSUME NEW d \in Dicts, NEW e \in Dicts, Longer(e, d), NEW v, Has(d, v)
  PROVE  Has(e, v)
<1>1. Len(d) \in Nat /\ Len(e) \in Nat
  BY DictIs
<1>2. PICK i \in 1..Len(d) : d[i] = v
  BY DEF Has
<1>3. i \in 1..Len(e) /\ e[i] = v
  BY <1>1, <1>2 DEF Longer
<1> QED BY <1>3 DEF Has

(* Codes mean the same in a dictionary that grew.                          *)
LEMMA CodedWider ==
  ASSUME NEW d \in Dicts, NEW e \in Dicts, Longer(e, d), NEW u
  PROVE  Coded(u, d) \subseteq Coded(u, e)
<1> SUFFICES ASSUME NEW p \in Coded(u, d) PROVE p \in Coded(u, e)
  OBVIOUS
<1>1. Len(d) \in Nat /\ Len(e) \in Nat
  BY DictIs
<1>2. p \in Nat \X WantRow /\ (p[2] # <<>> => p[1] < Len(d) /\ p[2] = Rowed(u, d[p[1] + 1]))
  BY DEF Coded
<1> DEFINE k == p[1]
           r == p[2]
<1>3. k \in Nat
  BY <1>2
<1>4. ASSUME r # <<>> PROVE k < Len(e) /\ r = Rowed(u, e[k + 1])
  <2>1. k < Len(d) /\ r = Rowed(u, d[k + 1])
    BY <1>2, <1>4
  <2> HIDE DEF k, r
  <2>2. k + 1 \in 1..Len(d)
    BY <1>1, <1>3, <2>1
  <2>3. e[k + 1] = d[k + 1] /\ k < Len(e)
    BY <1>1, <1>3, <2>1, <2>2 DEF Longer
  <2> QED BY <2>1, <2>3
<1> QED BY <1>2, <1>4 DEF Coded

(* A code that has an entry corresponds to the entry's row.                *)
LEMMA CodedIs ==
  ASSUME NEW d \in Dicts, NEW u \in Nat, NEW k \in Nat, k < Len(d)
  PROVE  /\ Rowed(u, d[k + 1]) \in WantRow /\ Rowed(u, d[k + 1]) # <<>> /\ <<k, Rowed(u, d[k + 1])>> \in Coded(u, d)
<1>1. Len(d) \in Nat /\ \A i \in 1..Len(d) : d[i] \in Seq(Byte)
  BY DictIs
<1>2. k + 1 \in 1..Len(d)
  BY <1>1
<1> DEFINE v == d[k + 1]
           r == Rowed(u, v)
<1>3. v \in Cell
  BY <1>1, <1>2, ByteCell
<1> HIDE DEF v
<1>4. r \in WantRow /\ r # <<>>
  BY <1>3, RowedIs
<1>5. <<k, r>> \in Coded(u, d)
  <2> HIDE DEF r
  <2>1. r = Rowed(u, d[k + 1])
    BY DEF r, v
  <2> QED BY <1>4, <2>1 DEF Coded
<1> QED BY <1>4, <1>5 DEF v

(* Any code corresponds to a null.                                         *)
LEMMA CodedNull == \A u, d : \A k \in Nat : <<k, <<>> >> \in Coded(u, d)
<1>1. <<>> \in WantRow
  BY DEF WantRow
<1> HIDE DEF WantRow
<1> QED BY <1>1 DEF Coded

(* Interning makes a dictionary that has the category, with what was there *)
(* in its place.                                                           *)
LEMMA InternedIs ==
  ASSUME NEW d \in Dicts, NEW v \in Seq(Byte)
  PROVE  LET e == Cat!Interned(d, v) IN e \in Dicts /\ Longer(e, d) /\ Has(e, v)
<1>0. d \in Seq(Seq(Byte)) /\ Len(d) \in Nat /\ DOMAIN d = 1..Len(d)
  <2>1. d \in Seq(Seq(Byte))
    BY DictIs
  <2> DEFINE S == Seq(Byte)
  <2> HIDE DEF S
  <2>2. d \in Seq(S)
    BY <2>1 DEF S
  <2>3. Len(d) \in Nat /\ DOMAIN d = 1..Len(d)
    BY ONLY <2>2
  <2> QED BY <2>1, <2>3
<1>1. CASE \E i \in DOMAIN d : d[i] = v
  <2>1. Cat!Interned(d, v) = d
    BY <1>1 DEF Cat!Interned
  <2> QED BY <1>0, <1>1, <2>1, LongerSame DEF Has
<1>2. CASE ~\E i \in DOMAIN d : d[i] = v
  <2> DEFINE e == Append(d, v)
  <2>1. Cat!Interned(d, v) = e
    BY <1>2 DEF Cat!Interned
  <2>2. e \in Seq(Seq(Byte)) /\ Len(e) = Len(d) + 1 /\ e[Len(d) + 1] = v /\ \A i \in 1..Len(d) : e[i] = d[i]
    <3> DEFINE S == Seq(Byte)
    <3> HIDE DEF S
    <3>1. d \in Seq(S) /\ v \in S
      BY <1>0 DEF S
    <3>2. e \in Seq(S) /\ Len(e) = Len(d) + 1 /\ e[Len(d) + 1] = v /\ \A i \in 1..Len(d) : e[i] = d[i]
      BY ONLY <3>1
    <3> QED BY <3>2 DEF S
  <2> HIDE DEF e
  <2>3. ASSUME NEW i \in 1..Len(e), NEW j \in 1..Len(e), i # j PROVE e[i] # e[j]
    <3>1. CASE i \in 1..Len(d) /\ j \in 1..Len(d)
      BY <2>2, <2>3, <3>1, DictIs
    <3>2. CASE i \in 1..Len(d) /\ j = Len(d) + 1
      BY <1>0, <1>2, <2>2, <3>2
    <3>3. CASE i = Len(d) + 1 /\ j \in 1..Len(d)
      BY <1>0, <1>2, <2>2, <3>3
    <3> QED BY <1>0, <2>2, <2>3, <3>1, <3>2, <3>3
  <2>4. e \in Dicts
    BY <2>2, <2>3 DEF Dicts
  <2>5. Len(d) + 1 \in 1..Len(e)
    BY <1>0, <2>2
  <2>6. Longer(e, d) /\ Has(e, v)
    BY <1>0, <2>2, <2>5 DEF Longer, Has
  <2> QED BY <2>1, <2>4, <2>6
<1> QED BY <1>1, <1>2

(* The code of a category that is there is where it is.                    *)
LEMMA CodeIs ==
  ASSUME NEW d \in Dicts, NEW v, Has(d, v)
  PROVE  Cat!Code(d, v) \in Nat /\ Cat!Code(d, v) < Len(d) /\ d[Cat!Code(d, v) + 1] = v
<1> DEFINE i == CHOOSE k \in DOMAIN d : d[k] = v
<1>0. Len(d) \in Nat /\ DOMAIN d = 1..Len(d)
  <2>1. d \in Seq(Seq(Byte))
    BY DictIs
  <2> DEFINE S == Seq(Byte)
  <2> HIDE DEF S
  <2>2. d \in Seq(S)
    BY <2>1 DEF S
  <2> QED BY ONLY <2>2
<1>1. i \in 1..Len(d) /\ d[i] = v
  BY <1>0 DEF Has
<1>2. Cat!Code(d, v) = i - 1
  BY DEF Cat!Code
<1> HIDE DEF i
<1>3. i - 1 \in Nat /\ i - 1 < Len(d) /\ (i - 1) + 1 = i
  BY <1>0, <1>1
<1> QED BY <1>1, <1>2, <1>3

(* And it corresponds to the category's row.                               *)
LEMMA CodeFits ==
  ASSUME NEW d \in Dicts, NEW u \in Nat, NEW v \in Seq(Byte), Has(d, v)
  PROVE  /\ Cat!Code(d, v) \in Nat /\ Rowed(u, v) \in WantRow /\ Rowed(u, v) # <<>>
         /\ <<Cat!Code(d, v), Rowed(u, v)>> \in Coded(u, d)
<1> DEFINE k == Cat!Code(d, v)
<1>1. k \in Nat /\ k < Len(d) /\ d[k + 1] = v
  BY CodeIs
<1> HIDE DEF k
<1>2. /\ Rowed(u, d[k + 1]) \in WantRow /\ Rowed(u, d[k + 1]) # <<>> /\ <<k, Rowed(u, d[k + 1])>> \in Coded(u, d)
  BY <1>1, CodedIs
<1> QED BY <1>1, <1>2 DEF k

(* Interning the cells of rows one after the other makes a dictionary that *)
(* has them all, with what was there in its place: by the steps of the     *)
(* loop.                                                                   *)
LEMMA InternedRowsAre ==
  ASSUME NEW dict, dict \in Dicts, NEW rows, Len(rows) \in Nat,
         \A i \in 1..Len(rows) : rows[i] # <<>> => rows[i][1] \in Seq(Byte)
  PROVE  LET e == Cat!InternedRows(dict, rows)
         IN  /\ e \in Dicts /\ Longer(e, dict)
             /\ \A i \in 1..Len(rows) : rows[i] # <<>> => Has(e, rows[i][1])
<1> DEFINE n == Len(rows)
           after(k, d) == IF rows[k] = <<>> THEN d ELSE Cat!Interned(d, rows[k][1])
           R(g) == g = [i \in 0..n |-> IF i = 0 THEN dict
                                       ELSE IF rows[i] = <<>> THEN g[i - 1] ELSE Cat!Interned(g[i - 1], rows[i][1])]
           f == CHOOSE g : R(g)
           step == [k \in 1..n |-> [d \in Dicts |-> after(k, d)]]
<1>0. n \in Nat
  OBVIOUS
<1>1. ASSUME NEW k \in 1..n, NEW d \in Dicts
      PROVE  after(k, d) \in Dicts /\ Longer(after(k, d), d) /\ (rows[k] # <<>> => Has(after(k, d), rows[k][1]))
  <2>1. CASE rows[k] = <<>>
    BY <2>1, LongerSame
  <2>2. CASE rows[k] # <<>>
    <3>1. rows[k][1] \in Seq(Byte)
      BY <2>2
    <3>2. after(k, d) = Cat!Interned(d, rows[k][1])
      BY <2>2
    <3> QED BY <3>1, <3>2, InternedIs
  <2> QED BY <2>1, <2>2
<1> HIDE DEF after
<1>2. step \in [1..n -> [Dicts -> Dicts]] /\ \A k \in 1..n : \A d \in Dicts : step[k][d] = after(k, d)
  BY <1>1
<1> HIDE DEF step
<1>3. \E g \in [0..n -> Dicts] : g[0] = dict /\ \A k \in 1..n : g[k] = step[k][g[k - 1]]
  <2>1. n \in Nat /\ step \in [1..n -> [Dicts -> Dicts]] /\ dict \in Dicts
    BY <1>0, <1>2
  <2> DEFINE all == Dicts
             start == dict
  <2>2. start \in all /\ n \in Nat /\ step \in [1..n -> [all -> all]]
    BY <2>1
  <2> HIDE DEF all, n, start, R
  <2>3. \E g \in [0..n -> all] : g[0] = start /\ \A k \in 1..n : g[k] = step[k][g[k - 1]]
    BY ONLY <2>2, LoopRuns
  <2> QED BY <2>3 DEF all, start
<1>4. PICK g \in [0..n -> Dicts] : g[0] = dict /\ \A k \in 1..n : g[k] = step[k][g[k - 1]]
  BY <1>3
<1>5. R(g)
  <2>1. \A i \in 0..n : g[i] = IF i = 0 THEN dict
                               ELSE IF rows[i] = <<>> THEN g[i - 1] ELSE Cat!Interned(g[i - 1], rows[i][1])
    <3> TAKE i \in 0..n
    <3>1. CASE i = 0
      BY <1>4, <3>1
    <3>2. CASE i # 0
      <4>1. i \in 1..n /\ i - 1 \in 0..n
        BY <1>0, <3>2
      <4>2. g[i] = step[i][g[i - 1]] /\ g[i - 1] \in Dicts
        BY <1>4, <4>1
      <4>3. g[i] = after(i, g[i - 1])
        BY <1>2, <4>1, <4>2
      <4> QED BY <3>2, <4>3 DEF after
    <3> QED BY <3>1, <3>2
  <2>2. g = [i \in 0..n |-> g[i]]
    OBVIOUS
  <2> QED BY <2>1, <2>2
<1>6. R(f)
  <2> HIDE DEF R
  <2> QED BY <1>5
<1>7. Cat!InternedRows(dict, rows) = f[n]
  BY DEF Cat!InternedRows
<1> HIDE DEF f
<1>8. f[0] = dict /\ \A k \in 1..n : f[k] = after(k, f[k - 1])
  <2>1. 0 \in 0..n
    BY <1>0
  <2>2. ASSUME NEW k \in 1..n PROVE f[k] = after(k, f[k - 1])
    <3>1. k \in 0..n /\ k # 0
      BY <1>0
    <3> QED BY <1>6, <3>1 DEF after
  <2> QED BY <1>6, <2>1, <2>2
<1> HIDE DEF R
<1> DEFINE Good(k) == /\ f[k] \in Dicts /\ Longer(f[k], dict)
                      /\ \A j \in 1..k : rows[j] # <<>> => Has(f[k], rows[j][1])
           T == {k \in Nat : k <= n => Good(k)}
<1>9. 0 \in T
  BY <1>8, LongerSame
<1>10. ASSUME NEW k \in Nat, k \in T PROVE k + 1 \in T
  <2> SUFFICES ASSUME k + 1 <= n PROVE Good(k + 1)
    OBVIOUS
  <2> DEFINE d == f[k]
             e == f[k + 1]
             m == k + 1
  <2>1. m \in 1..n /\ m - 1 = k
    BY <1>0
  <2>2. d \in Dicts /\ Longer(d, dict) /\ \A j \in 1..k : rows[j] # <<>> => Has(d, rows[j][1])
    BY <1>0, <1>10
  <2>3. e = after(m, d)
    BY <1>8, <2>1
  <2> HIDE DEF d, e
  <2>4. e \in Dicts /\ Longer(e, d) /\ (rows[m] # <<>> => Has(e, rows[m][1]))
    <3> HIDE DEF m
    <3> QED BY <1>1, <2>1, <2>2, <2>3
  <2>5. Longer(e, dict)
    <3>1. Len(e) \in Nat
      BY <2>4, DictIs
    <3> QED BY <2>2, <2>4, <3>1, LongerTwice
  <2>6. ASSUME NEW j \in 1..m, rows[j] # <<>> PROVE Has(e, rows[j][1])
    <3>1. CASE j = m
      BY <2>4, <2>6, <3>1
    <3>2. CASE j \in 1..k
      <4>1. Has(d, rows[j][1])
        BY <2>2, <2>6, <3>2
      <4> QED BY <2>2, <2>4, <4>1, LongerHas
    <3> QED BY <3>1, <3>2
  <2> QED BY <2>4, <2>5, <2>6 DEF e
<1>11. \A k \in Nat : k \in T
  <2> HIDE DEF T
  <2> QED BY <1>9, <1>10, Induction
<1>12. Good(n)
  BY <1>0, <1>11
<1> QED BY <1>7, <1>12

(* What is known of a categorical array that keeps the rows w.             *)
LEMMA CatOf ==
  ASSUME NEW a, NEW w, CatKept(a, w)
  PROVE  /\ Kept(Nat, Coded(a.unit, a.dict), a, w) /\ Frame(a, w) /\ Fields(a) /\ a.unit \in Nat /\ a.masked \in BOOLEAN
         /\ a.data \in Seq(Nat) /\ w \in Seq(WantRow) /\ Len(w) \in Nat /\ Len(a.data) = Len(w)
         /\ a.mask \in Seq(Bits) /\ Nulls(a.masked, a.mask, w) /\ Cat!Length(a) = Len(w)
         /\ Pairs(Coded(a.unit, a.dict), a.data, w) /\ "dict" \in DOMAIN a /\ a.dict \in Dicts
BY KeptOf DEF CatKept, Cat!Length

(* An array of codes that correspond to x in a dictionary, under a mask    *)
(* that marks the nulls of x, keeps x.                                     *)
LEMMA CatMade ==
  ASSUME NEW a, NEW b, NEW c, NEW x, NEW e \in Dicts, "dict" \in DOMAIN a, Turned(c, b, a, x),
         Kept(Nat, Coded(a.unit, e), c, x), b.dict = e
  PROVE  Like(c, a) /\ CatKept(c, x) /\ c.dict = e
<1>1. Like(c, a) /\ c.unit = a.unit /\ "dict" \in DOMAIN c /\ c.dict = e
  BY DEF Turned, Like, Rest
<1> QED BY <1>1 DEF CatKept

(* Replacing the codes and the dictionary moves nothing else.              *)
LEMMA CodesPut ==
  ASSUME NEW a, Fields(a), "dict" \in DOMAIN a, NEW d, NEW e
  PROVE  Put(Cat!Codes(a, d, e), a, d) /\ Cat!Codes(a, d, e).dict = e
BY DEF Put, Moved, Fields, Cat!Codes

(* An array keeps its rows in every wider correspondence.                  *)
LEMMA KeptWider ==
  ASSUME NEW S, NEW R, NEW Q, R \subseteq Q, NEW a, NEW w, Kept(S, R, a, w)
  PROVE  Kept(S, Q, a, w)
<1>1. Pairs(R, a.data, w)
  BY DEF Kept
<1>2. Pairs(Q, a.data, w)
  BY <1>1, PairsWider
<1> QED BY <1>2 DEF Kept

(* A categorical array keeps its rows when its dictionary grows.           *)
LEMMA CatWider ==
  ASSUME NEW a, NEW w, CatKept(a, w), NEW e \in Dicts, Longer(e, a.dict)
  PROVE  Kept(Nat, Coded(a.unit, e), a, w) /\ Pairs(Coded(a.unit, e), a.data, w)
<1>1. Coded(a.unit, a.dict) \subseteq Coded(a.unit, e)
  BY CatOf, CodedWider
<1> HIDE DEF Coded
<1>2. Kept(Nat, Coded(a.unit, e), a, w)
  BY <1>1, CatOf, KeptWider
<1> QED BY <1>2 DEF Kept

(* Interning one category keeps the rows of the array, and gives a code    *)
(* that corresponds to the category's row.                                 *)
LEMMA CatInterned ==
  ASSUME NEW a, NEW w, CatKept(a, w), NEW v \in Seq(Byte), NEW e, e = Cat!Interned(a.dict, v)
  PROVE  /\ e \in Dicts /\ Longer(e, a.dict) /\ Has(e, v) /\ Cat!Code(e, v) \in Nat
         /\ Kept(Nat, Coded(a.unit, e), a, w)
         /\ Rowed(a.unit, v) \in WantRow /\ Rowed(a.unit, v) # <<>>
         /\ <<Cat!Code(e, v), Rowed(a.unit, v)>> \in Coded(a.unit, e)
<1>1. e \in Dicts /\ Longer(e, a.dict) /\ Has(e, v)
  BY CatOf, InternedIs
<1>2. Kept(Nat, Coded(a.unit, e), a, w)
  BY <1>1, CatWider
<1>3. a.unit \in Nat
  BY CatOf
<1> HIDE DEF Coded
<1> QED BY <1>1, <1>2, <1>3, CodeFits

(* push of a categorical array adds the category's row.                    *)
LEMMA CatPush ==
  ASSUME NEW a, NEW w, CatKept(a, w), WholeAt(a, w), NEW v \in Seq(Byte)
  PROVE  LET c == Cat!Push(a, v)
         IN  /\ Like(c, a) /\ CatKept(c, w \o <<Rowed(a.unit, v)>>) /\ (c.masked => Len(c.mask) >= Len(w))
<1> DEFINE e == Cat!Interned(a.dict, v)
           k == Cat!Code(e, v)
           r == Rowed(a.unit, v)
           b == Cat!Codes(a, Append(a.data, k), e)
           x == w \o <<r>>
           c == Fixed!ValidAt(b, Len(w) + 1)
           R == Coded(a.unit, e)
<1>0. Fields(a) /\ Frame(a, w) /\ Len(w) \in Nat /\ Cat!Length(a) = Len(w) /\ "dict" \in DOMAIN a
  BY CatOf
<1>1. e \in Dicts /\ Kept(Nat, R, a, w) /\ r \in WantRow /\ r # <<>> /\ k \in Nat /\ <<k, r>> \in R
  BY CatInterned
<1>2. Put(b, a, Append(a.data, k)) /\ b.dict = e
  BY <1>0, CodesPut
<1>3. Cat!Push(a, v) = c
  BY <1>0, CatSame DEF Cat!Push
<1> HIDE DEF e, k, r, b, R
<1>4. Turned(c, b, a, x) /\ Kept(Nat, R, c, x)
  BY <1>1, <1>2, KeptPush
<1>5. c.masked => Len(c.mask) >= Len(w)
  <2> DEFINE n == Len(w) + 1
  <2>1. n \in Nat /\ n >= 1
    BY <1>0
  <2> HIDE DEF n
  <2>2. Moved(b, a) /\ (a.masked => Len(a.mask) >= Len(w))
    BY <1>0, <1>2, WholeFrame DEF Put
  <2>3. LET f == Fixed!ValidAt(b, n) IN f.masked => Len(f.mask) >= Len(w)
    BY <1>0, <2>1, <2>2, ValidGrows
  <2> QED BY <2>3 DEF n
<1> HIDE DEF c, x
<1>6. Like(c, a) /\ CatKept(c, x)
  BY <1>0, <1>1, <1>2, <1>4, CatMade DEF R
<1> QED BY <1>3, <1>5, <1>6 DEF r, x

(* Rows of a categorical array made null, over the codes that are there.   *)
LEMMA CatNulled ==
  ASSUME NEW a, NEW w, CatKept(a, w), NEW c, NEW x \in Seq(WantRow), Turned(c, a, a, x), Len(x) = Len(w),
         \A i \in 1..Len(x) : x[i] = w[i] \/ x[i] = <<>>
  PROVE  Like(c, a) /\ CatKept(c, x)
<1> DEFINE R == Coded(a.unit, a.dict)
<1>1. Fields(a) /\ Frame(a, w) /\ a.unit \in Nat /\ a.data \in Seq(Nat) /\ Len(a.data) = Len(w) /\ Pairs(R, a.data, w)
      /\ "dict" \in DOMAIN a /\ a.dict \in Dicts
  BY CatOf
<1>2. \A v \in Nat : <<v, <<>> >> \in R
  BY CodedNull
<1>4. Put(a, a, a.data)
  BY DEF Put, Moved
<1> HIDE DEF R
<1>3. Pairs(R, a.data, x)
  BY <1>1, <1>2, PairsNull
<1>5. Kept(Nat, R, c, x)
  BY <1>1, <1>3, <1>4, KeptMade
<1> QED BY <1>1, <1>5, CatMade DEF R

(* push_null of a categorical array adds a null.                           *)
LEMMA CatPushNull ==
  ASSUME NEW a, NEW w, CatKept(a, w), WholeAt(a, w)
  PROVE  LET c == Cat!PushNull(a) IN Like(c, a) /\ CatKept(c, Append(w, <<>>))
<1> DEFINE b == Cat!Push(a, <<>>)
           r == Rowed(a.unit, <<>>)
           z == w \o <<r>>
           c == Fixed!NullTo(b, Len(w) + 1, 1)
           x == Append(w, <<>>)
<1>0. a.unit \in Nat /\ w \in Seq(WantRow) /\ Cat!Length(a) = Len(w) /\ r \in WantRow /\ <<>> \in Seq(Byte)
  <2>1. <<>> \in Seq(Byte)
    OBVIOUS
  <2> QED BY <2>1, CatOf, RowedIs, ByteCell
<1>1. Like(b, a) /\ CatKept(b, z) /\ (b.masked => Len(b.mask) >= Len(w))
  BY <1>0, CatPush
<1>2. Cat!PushNull(a) = c
  BY <1>0, CatSame DEF Cat!PushNull
<1>3. /\ Append(w, <<>>) \in Seq(WantRow) /\ Len(Append(w, <<>>)) = Len(w \o <<r>>)
      /\ \A i \in 1..Len(Append(w, <<>>)) : Append(w, <<>>)[i] = (w \o <<r>>)[i] \/ Append(w, <<>>)[i] = <<>>
  BY <1>0, LastNull
<1> HIDE DEF b, r
<1>4. Turned(c, b, b, x)
  BY <1>0, <1>1, CatOf, TurnNullLast
<1> HIDE DEF c
<1>5. Like(c, b) /\ CatKept(c, x)
  BY <1>1, <1>3, <1>4, CatNulled
<1>6. Like(c, a)
  BY <1>1, <1>5 DEF Like
<1> QED BY <1>2, <1>5, <1>6

(* resize of a categorical array cuts the rows or adds the given one.      *)
LEMMA CatResize ==
  ASSUME NEW a, NEW w, CatKept(a, w), WholeAt(a, w), NEW n \in Nat, NEW v \in Seq(Byte)
  PROVE  LET c == Cat!Resize(a, n, v) IN Like(c, a) /\ CatKept(c, Fixed!Fit(w, n, Rowed(a.unit, v)))
<1> DEFINE e == Cat!Interned(a.dict, v)
           k == Cat!Code(e, v)
           r == Rowed(a.unit, v)
           b == Cat!Codes(a, Fixed!Fit(a.data, n, k), e)
           x == Fixed!Fit(w, n, r)
           R == Coded(a.unit, e)
<1>0. Fields(a) /\ "dict" \in DOMAIN a
  BY CatOf
<1>1. e \in Dicts /\ Kept(Nat, R, a, w) /\ r \in WantRow /\ r # <<>> /\ k \in Nat /\ <<k, r>> \in R
  BY CatInterned
<1>2. Put(b, a, Fixed!Fit(a.data, n, k)) /\ b.dict = e
  BY <1>0, CodesPut
<1>3. Cat!Resize(a, n, v) = b
  BY CatSame DEF Cat!Resize
<1> HIDE DEF e, k, r, b, R
<1>4. Turned(b, b, a, x) /\ Kept(Nat, R, b, x)
  BY <1>1, <1>2, KeptFit
<1> HIDE DEF x
<1>6. Like(b, a) /\ CatKept(b, x)
  BY <1>0, <1>1, <1>2, <1>4, CatMade DEF R
<1> QED BY <1>3, <1>6 DEF r, x

(* A resize upwards is as many items joined on.                            *)
LEMMA FitMore ==
  ASSUME NEW S, NEW s \in Seq(S), NEW k \in Nat, NEW v \in S
  PROVE  Fixed!Fit(s, Len(s) + k, v) = s \o Fixed!All(k, v)
<1> DEFINE e == Fixed!All(k, v)
<1>0. e \in Seq(S) /\ Len(e) = k
  BY AllIs
<1>1. CASE k = 0
  <2>1. Fixed!Fit(s, Len(s) + k, v) = SubSeq(s, 1, Len(s))
    BY <1>1 DEF Fixed!Fit
  <2>2. SubSeq(s, 1, Len(s)) = s
    BY SubSeqFull
  <2> HIDE DEF e
  <2>3. e = <<>>
    BY <1>0, <1>1
  <2>4. s \o e = s
    BY <2>3
  <2> QED BY <2>1, <2>2, <2>4 DEF e
<1>2. CASE k # 0
  <2>1. ~(Len(s) + k <= Len(s)) /\ (Len(s) + k) - Len(s) = k
    BY <1>2
  <2> QED BY <2>1 DEF Fixed!Fit
<1> QED BY <1>1, <1>2

(* push_nulls of a categorical array adds that many nulls.                 *)
LEMMA CatPushNulls ==
  ASSUME NEW a, NEW w, CatKept(a, w), WholeAt(a, w), NEW n \in Nat
  PROVE  LET c == Cat!PushNulls(a, n) IN Like(c, a) /\ CatKept(c, w \o Fixed!All(n, <<>>))
<1> DEFINE v == <<>>
           e == Cat!Interned(a.dict, v)
           k == Cat!Code(e, v)
           d == Fixed!Fit(a.data, Len(w) + n, k)
           b == Cat!Codes(a, d, e)
           x == w \o Fixed!All(n, <<>>)
           c == Fixed!NullTo(b, Len(w) + n, n)
           R == Coded(a.unit, e)
<1>0. Fields(a) /\ "dict" \in DOMAIN a /\ Cat!Length(a) = Len(w) /\ a.data \in Seq(Nat) /\ Len(a.data) = Len(w) /\ v \in Seq(Byte)
  <2>1. v \in Seq(Byte)
    OBVIOUS
  <2> QED BY <2>1, CatOf
<1>1. e \in Dicts /\ Kept(Nat, R, a, w) /\ k \in Nat
  BY <1>0, CatInterned
<1>2. Put(b, a, d) /\ b.dict = e
  BY <1>0, CodesPut
<1>3. Cat!PushNulls(a, n) = c
  <2>1. Cat!Resize(a, Len(w) + n, <<>>) = b
    BY CatSame DEF Cat!Resize
  <2> HIDE DEF b
  <2> QED BY <1>0, <2>1, CatSame DEF Cat!PushNulls
<1> HIDE DEF e, k, b
<1>5. d = a.data \o Fixed!All(n, k)
  BY <1>0, <1>1, FitMore
<1>6. <<k, <<>> >> \in R
  BY <1>1, CodedNull
<1> HIDE DEF R, d
<1>4. Turned(c, b, a, x) /\ Kept(Nat, R, c, x)
  BY <1>1, <1>2, <1>5, <1>6, KeptNulls
<1> HIDE DEF c, x
<1>7. Like(c, a) /\ CatKept(c, x)
  BY <1>0, <1>1, <1>2, <1>4, CatMade DEF R
<1> QED BY <1>3, <1>7 DEF x

(* set of a categorical array replaces one row.                            *)
LEMMA CatSet ==
  ASSUME NEW a, NEW w, CatKept(a, w), WholeAt(a, w), NEW i \in 1..Len(w), NEW v \in Seq(Byte)
  PROVE  LET c == Cat!Set(a, i, v) IN Like(c, a) /\ CatKept(c, [w EXCEPT ![i] = Rowed(a.unit, v)])
<1> DEFINE e == Cat!Interned(a.dict, v)
           k == Cat!Code(e, v)
           r == Rowed(a.unit, v)
           b == Cat!Codes(a, [a.data EXCEPT ![i] = k], e)
           x == [w EXCEPT ![i] = r]
           c == Fixed!ValidAt(b, i)
           R == Coded(a.unit, e)
<1>0. Fields(a) /\ "dict" \in DOMAIN a
  BY CatOf
<1>1. e \in Dicts /\ Kept(Nat, R, a, w) /\ r \in WantRow /\ r # <<>> /\ k \in Nat /\ <<k, r>> \in R
  BY CatInterned
<1>2. Put(b, a, [a.data EXCEPT ![i] = k]) /\ b.dict = e
  BY <1>0, CodesPut
<1>3. Cat!Set(a, i, v) = c
  BY CatSame DEF Cat!Set
<1> HIDE DEF e, k, r, b, R
<1>4. Turned(c, b, a, x) /\ Kept(Nat, R, c, x)
  BY <1>1, <1>2, KeptSet
<1> HIDE DEF c, x
<1>6. Like(c, a) /\ CatKept(c, x)
  BY <1>0, <1>1, <1>2, <1>4, CatMade DEF R
<1> QED BY <1>3, <1>6 DEF r, x

(* A range set in a categorical array replaces those rows.                 *)
LEMMA CatSetRange ==
  ASSUME NEW a, NEW w, CatKept(a, w), WholeAt(a, w), NEW from \in Nat, NEW to \in Nat, from <= to, to <= Len(w),
         NEW v \in Seq(Byte), NEW x \in Seq(WantRow), AsRange(x, w, from, to, Rowed(a.unit, v))
  PROVE  LET c == Cat!SetRange(a, from, to, v) IN Like(c, a) /\ CatKept(c, x)
<1> DEFINE e == Cat!Interned(a.dict, v)
           k == Cat!Code(e, v)
           r == Rowed(a.unit, v)
           d == [i \in DOMAIN a.data |-> IF i > from /\ i <= to THEN k ELSE a.data[i]]
           b == Cat!Codes(a, d, e)
           c == Fixed!OnMask(b, Fixed!SetBits(a.mask, from, to, TRUE))
           R == Coded(a.unit, e)
<1>0. Fields(a) /\ "dict" \in DOMAIN a /\ a.data \in Seq(Nat)
  BY CatOf
<1>1. e \in Dicts /\ Kept(Nat, R, a, w) /\ r \in WantRow /\ r # <<>> /\ k \in Nat /\ <<k, r>> \in R
  BY CatInterned
<1>2. Put(b, a, d) /\ b.dict = e
  BY <1>0, CodesPut
<1>3. Cat!SetRange(a, from, to, v) = c
  BY CatSame DEF Cat!SetRange
<1>5. d \in Seq(Nat) /\ AsRange(d, a.data, from, to, k)
  <2> HIDE DEF k
  <2> QED BY <1>0, <1>1, RangeIs, Zenon
<1> HIDE DEF e, k, b, R, d
<1>4. Turned(c, b, a, x) /\ Kept(Nat, R, c, x)
  BY <1>1, <1>2, <1>5, KeptRange
<1> HIDE DEF c
<1>6. Like(c, a) /\ CatKept(c, x)
  BY <1>0, <1>1, <1>2, <1>4, CatMade DEF R
<1> QED BY <1>3, <1>6

(* A range deleted from a categorical array takes those rows away.         *)
LEMMA CatDelete ==
  ASSUME NEW a, NEW w, CatKept(a, w), WholeAt(a, w), NEW from \in Nat, NEW to \in Nat, from <= to, to <= Len(w)
  PROVE  LET c == Cat!DeleteRange(a, from, to) IN Like(c, a) /\ CatKept(c, Fixed!Without(w, from, to))
<1> DEFINE b == [a EXCEPT !.data = Fixed!Without(a.data, from, to)]
           x == Fixed!Without(w, from, to)
           c == Fixed!OnMask(b, Fixed!Without(a.mask, from, to))
           R == Coded(a.unit, a.dict)
<1>0. Fields(a) /\ Kept(Nat, R, a, w) /\ "dict" \in DOMAIN a /\ a.dict \in Dicts
  BY CatOf
<1>1. Put(b, a, Fixed!Without(a.data, from, to)) /\ b.dict = a.dict
  BY <1>0, DataPut
<1>2. Cat!DeleteRange(a, from, to) = c
  BY CatSame DEF Cat!DeleteRange
<1> HIDE DEF b, R
<1>4. Turned(c, b, a, x) /\ Kept(Nat, R, c, x)
  BY <1>0, <1>1, KeptDelete
<1> HIDE DEF c, x
<1>5. Like(c, a) /\ CatKept(c, x)
  BY <1>0, <1>1, <1>4, CatMade DEF R
<1> QED BY <1>2, <1>5 DEF x

(* slice_clone of a categorical array keeps the rows of the window, with   *)
(* the whole dictionary.                                                   *)
LEMMA CatSlice ==
  ASSUME NEW a, NEW w, CatKept(a, w), a.masked => Len(a.mask) >= Len(w),
         NEW from \in Nat, NEW n \in Nat, from + n <= Len(w)
  PROVE  LET c == Cat!SliceClone(a, from, n) IN Like(c, a) /\ CatKept(c, Fixed!Window(w, from, n))
<1> DEFINE b == [a EXCEPT !.data = Fixed!Window(a.data, from, n)]
           x == Fixed!Window(w, from, n)
           c == Fixed!OnMask(b, Fixed!Window(a.mask, from, n))
           R == Coded(a.unit, a.dict)
<1>0. Fields(a) /\ Kept(Nat, R, a, w) /\ "dict" \in DOMAIN a /\ a.dict \in Dicts
  BY CatOf
<1>1. Put(b, a, Fixed!Window(a.data, from, n)) /\ b.dict = a.dict
  BY <1>0, DataPut
<1>2. Cat!SliceClone(a, from, n) = c
  BY CatSame DEF Cat!SliceClone
<1> HIDE DEF b, R
<1>4. Turned(c, b, a, x) /\ Kept(Nat, R, c, x)
  BY <1>0, <1>1, KeptWindow
<1> HIDE DEF c, x
<1>5. Like(c, a) /\ CatKept(c, x)
  BY <1>0, <1>1, <1>4, CatMade DEF R
<1> QED BY <1>2, <1>5 DEF x

(* split of a categorical array: the first rows, and the rest, each with   *)
(* the whole dictionary.                                                   *)
LEMMA CatSplit ==
  ASSUME NEW a, NEW w, CatKept(a, w), WholeAt(a, w), NEW at \in Nat, at <= Len(w)
  PROVE  LET h == Cat!Split(a, at)
         IN  /\ Like(h[1], a) /\ CatKept(h[1], SubSeq(w, 1, at))
             /\ Like(h[2], a) /\ CatKept(h[2], Fixed!Without(w, 0, at))
<1>0. w \in Seq(WantRow) /\ Len(w) \in Nat /\ Frame(a, w) /\ (a.masked => Len(a.mask) >= Len(w))
  BY CatOf, WholeFrame
<1>1. Cat!Split(a, at)[1] = Cat!SliceClone(a, 0, at) /\ Cat!Split(a, at)[2] = Cat!DeleteRange(a, 0, at)
  BY DEF Cat!Split
<1>2. 0 \in Nat /\ 0 + at <= Len(w) /\ 0 <= at
  BY <1>0
<1>3. Like(Cat!SliceClone(a, 0, at), a) /\ CatKept(Cat!SliceClone(a, 0, at), Fixed!Window(w, 0, at))
  BY <1>0, <1>2, CatSlice
<1>4. Like(Cat!DeleteRange(a, 0, at), a) /\ CatKept(Cat!DeleteRange(a, 0, at), Fixed!Without(w, 0, at))
  BY <1>2, CatDelete
<1>5. Fixed!Window(w, 0, at) = SubSeq(w, 1, at)
  BY WindowFirst
<1> QED BY <1>1, <1>3, <1>4, <1>5

(* What IsPrefix says is that the dictionary grew.                         *)
LEMMA PrefixLonger ==
  ASSUME NEW d \in Dicts, NEW e \in Dicts, Cat!IsPrefix(d, e)
  PROVE  Longer(e, d)
<1>1. Len(d) \in Nat /\ Len(e) \in Nat /\ d \in Seq(Seq(Byte)) /\ e \in Seq(Seq(Byte))
  BY DictIs
<1>2. Len(d) <= Len(e) /\ SubSeq(d, 1, Len(d)) = SubSeq(e, 1, Len(d))
  BY DEF Cat!IsPrefix
<1>3. ASSUME NEW i \in 1..Len(d) PROVE e[i] = d[i]
  <2> DEFINE S == Seq(Byte)
  <2>1. d \in Seq(S) /\ e \in Seq(S)
    BY <1>1
  <2> HIDE DEF S
  <2>2. SubSeq(d, 1, Len(d))[i] = d[i] /\ SubSeq(e, 1, Len(d))[i] = e[i]
    BY <1>1, <1>2, <2>1
  <2> QED BY <1>2, <2>2
<1> QED BY <1>1, <1>2, <1>3 DEF Longer

(* Codes joined on in a dictionary that grew add the rows they correspond  *)
(* to.                                                                     *)
LEMMA CatJoined ==
  ASSUME NEW a, NEW w, CatKept(a, w), WholeAt(a, w), NEW e \in Dicts, Longer(e, a.dict),
         NEW d \in Seq(Nat), NEW y, Len(d) = Len(y), Pairs(Coded(a.unit, e), d, y),
         NEW g, NEW m, NEW q, Nulls(g, q, y), g => q = m, a.masked /\ g => Len(a.mask) = Len(w),
         NEW b, Put(b, a, a.data \o d), b.dict = e
  PROVE  LET c == Fixed!Extended(b, Len(w), g, m, Len(y)) IN Like(c, a) /\ CatKept(c, w \o y)
<1> DEFINE x == w \o y
           c == Fixed!Extended(b, Len(w), g, m, Len(y))
           R == Coded(a.unit, e)
<1>0. Kept(Nat, R, a, w) /\ "dict" \in DOMAIN a /\ Pairs(R, d, y)
  BY CatOf, CatWider
<1> HIDE DEF R
<1>1. Turned(c, b, a, x) /\ Kept(Nat, R, c, x)
  BY <1>0, KeptExtended
<1> HIDE DEF c, x
<1>2. Like(c, a) /\ CatKept(c, x)
  BY <1>0, <1>1, CatMade DEF R
<1> QED BY <1>2 DEF c, x

(* append_array of a categorical array adds the rows of one whose          *)
(* dictionary is the beginning of its own, when the masks can be joined.   *)
LEMMA CatAppend ==
  ASSUME NEW a, NEW w, CatKept(a, w), WholeAt(a, w), NEW o, NEW y, CatKept(o, y), o.unit = a.unit,
         Cat!IsPrefix(o.dict, a.dict), a.masked /\ o.masked => Len(a.mask) = Len(w)
  PROVE  LET c == Cat!AppendArray(a, o) IN Like(c, a) /\ CatKept(c, w \o y)
<1> DEFINE b == [a EXCEPT !.data = a.data \o o.data]
           c == Fixed!Extended(b, Len(w), o.masked, o.mask, Len(y))
<1>0. /\ Fields(a) /\ Cat!Length(a) = Len(w) /\ Cat!Length(o) = Len(y) /\ "dict" \in DOMAIN a
      /\ Nulls(o.masked, o.mask, y) /\ o.data \in Seq(Nat) /\ Len(o.data) = Len(y)
      /\ a.dict \in Dicts /\ o.dict \in Dicts
  BY CatOf
<1>1. Put(b, a, a.data \o o.data) /\ b.dict = a.dict
  BY <1>0, DataPut
<1>2. Cat!AppendArray(a, o) = c
  BY <1>0, CatSame DEF Cat!AppendArray
<1>3. Longer(a.dict, o.dict) /\ Longer(a.dict, a.dict)
  BY <1>0, PrefixLonger, LongerSame
<1>4. Pairs(Coded(a.unit, a.dict), o.data, y)
  BY <1>0, <1>3, CatWider
<1> HIDE DEF b
<1>5. Like(c, a) /\ CatKept(c, w \o y)
  BY <1>0, <1>1, <1>3, <1>4, CatJoined
<1> QED BY <1>2, <1>5

(* append_range of a categorical array adds the rows of the window, on the *)
(* same conditions.                                                        *)
LEMMA CatAppendRange ==
  ASSUME NEW a, NEW w, CatKept(a, w), WholeAt(a, w), NEW o, NEW y, CatKept(o, y), o.unit = a.unit,
         Cat!IsPrefix(o.dict, a.dict), a.masked /\ o.masked => Len(a.mask) = Len(w), o.masked => Len(o.mask) >= Len(y),
         NEW from \in Nat, NEW n \in Nat, from + n <= Len(y)
  PROVE  LET c == Cat!AppendRange(a, o, from, n) IN Like(c, a) /\ CatKept(c, w \o Fixed!Window(y, from, n))
<1> DEFINE z == Fixed!Window(y, from, n)
           d == Fixed!Window(o.data, from, n)
           q == IF o.masked THEN Fixed!Window(o.mask, from, n) ELSE o.mask
           b == [a EXCEPT !.data = a.data \o d]
           R == Coded(a.unit, a.dict)
           c == Fixed!Extended(b, Len(w), o.masked, Fixed!Window(o.mask, from, n), Len(z))
<1>0. /\ Fields(a) /\ Cat!Length(a) = Len(w) /\ "dict" \in DOMAIN a /\ y \in Seq(WantRow)
      /\ Nulls(o.masked, o.mask, y) /\ o.data \in Seq(Nat) /\ Len(o.data) = Len(y)
      /\ a.dict \in Dicts /\ o.dict \in Dicts
  BY CatOf
<1>1. Put(b, a, a.data \o d) /\ b.dict = a.dict
  BY <1>0, DataPut
<1>3. d \in Seq(Nat) /\ AsWindow(d, o.data, from, n) /\ z \in Seq(WantRow) /\ AsWindow(z, y, from, n)
  BY <1>0, WindowIs
<1>5. Len(d) = n /\ Len(z) = n
  BY <1>3 DEF AsWindow
<1>4. Longer(a.dict, o.dict) /\ Longer(a.dict, a.dict)
  BY <1>0, PrefixLonger, LongerSame
<1>6. Pairs(R, d, z)
  <2>1. Pairs(R, o.data, y)
    BY <1>0, <1>4, CatWider
  <2> HIDE DEF R
  <2> QED BY <1>0, <2>1, PairsWindow
<1>7. Nulls(o.masked, q, z)
  BY <1>0, NullsWindow
<1>2. Cat!AppendRange(a, o, from, n) = c
  BY <1>0, <1>5, CatSame DEF Cat!AppendRange
<1>8. o.masked => q = Fixed!Window(o.mask, from, n)
  OBVIOUS
<1> HIDE DEF b, d, z, q
<1>9. Like(c, a) /\ CatKept(c, w \o z)
  BY <1>0, <1>1, <1>3, <1>4, <1>5, <1>6, <1>7, <1>8, CatJoined
<1> QED BY <1>2, <1>9 DEF z

(* Interning all categories of another dictionary makes one that has them, *)
(* with what was there in its place.                                       *)
LEMMA InternedAllAre ==
  ASSUME NEW dict \in Dicts, NEW vs, vs \in Seq(Seq(Byte))
  PROVE  LET e == Cat!InternedAll(dict, vs)
         IN  e \in Dicts /\ Longer(e, dict) /\ \A i \in 1..Len(vs) : Has(e, vs[i])
<1> DEFINE n == Len(vs)
           rows == [i \in 1..n |-> <<vs[i]>>]
<1>0. n \in Nat /\ DOMAIN vs = 1..n /\ \A i \in 1..n : vs[i] \in Seq(Byte)
  <2> DEFINE S == Seq(Byte)
  <2> HIDE DEF S
  <2>1. vs \in Seq(S)
    BY DEF S
  <2>2. n \in Nat /\ DOMAIN vs = 1..n /\ \A i \in 1..n : vs[i] \in S
    BY ONLY <2>1
  <2> QED BY <2>2 DEF S
<1>1. Cat!InternedAll(dict, vs) = Cat!InternedRows(dict, rows)
  BY <1>0 DEF Cat!InternedAll
<1>2. Len(rows) = n
  <2> HIDE DEF n
  <2> QED BY <1>0
<1>3. \A i \in 1..n : rows[i][1] = vs[i] /\ rows[i] # <<>>
  OBVIOUS
<1> HIDE DEF rows
<1>4. Len(rows) \in Nat /\ \A i \in 1..Len(rows) : rows[i] # <<>> => rows[i][1] \in Seq(Byte)
  BY <1>0, <1>2, <1>3
<1>5. LET e == Cat!InternedRows(dict, rows)
      IN  e \in Dicts /\ Longer(e, dict) /\ \A i \in 1..Len(rows) : rows[i] # <<>> => Has(e, rows[i][1])
  BY <1>4, InternedRowsAre
<1> QED BY <1>1, <1>2, <1>3, <1>5

(* The other's codes, translated to a dictionary that has its categories,  *)
(* correspond to its rows; what is put under a null does not matter.       *)
LEMMA RemappedAre ==
  ASSUME NEW o, NEW y, CatKept(o, y), NEW e \in Dicts, \A i \in 1..Len(o.dict) : Has(e, o.dict[i]), NEW junk \in Nat
  PROVE  LET d == [i \in DOMAIN o.data |-> Cat!Remapped(e, o, i, junk)]
         IN  d \in Seq(Nat) /\ Len(d) = Len(y) /\ Pairs(Coded(o.unit, e), d, y)
<1> DEFINE n == Len(y)
           d == [i \in 1..n |-> Cat!Remapped(e, o, i, junk)]
           u == o.unit
<1>0. /\ o.data \in Seq(Nat) /\ Len(o.data) = n /\ n \in Nat /\ o.dict \in Dicts /\ y \in Seq(WantRow) /\ u \in Nat
      /\ Pairs(Coded(u, o.dict), o.data, y)
  BY CatOf
<1>1. DOMAIN o.data = 1..n /\ \A i \in 1..n : o.data[i] \in Nat
  BY <1>0
<1>2. ASSUME NEW i \in 1..n PROVE d[i] \in Nat /\ <<d[i], y[i]>> \in Coded(u, e)
  <2> DEFINE k == o.data[i]
             r == y[i]
             v == o.dict[k + 1]
  <2>1. k \in Nat /\ r \in WantRow
    BY <1>0, <1>1
  <2>2. r # <<>> => k < Len(o.dict) /\ r = Rowed(u, v)
    <3>1. <<k, r>> \in Coded(u, o.dict)
      BY <1>0 DEF Pairs
    <3> HIDE DEF k, r
    <3> QED BY <3>1 DEF Coded, v
  <2>3. d[i] = IF k < Len(o.dict) THEN Cat!Code(e, v) ELSE junk
    BY DEF Cat!Remapped
  <2> HIDE DEF k, r, d
  <2>4. CASE k < Len(o.dict)
    <3>1. k + 1 \in 1..Len(o.dict) /\ v \in Seq(Byte)
      BY <1>0, <2>1, <2>4, DictIs
    <3>2. Has(e, v)
      BY <3>1
    <3> HIDE DEF v
    <3>3. Cat!Code(e, v) \in Nat /\ <<Cat!Code(e, v), Rowed(u, v)>> \in Coded(u, e)
      BY <1>0, <3>1, <3>2, CodeFits
    <3>4. <<Cat!Code(e, v), <<>> >> \in Coded(u, e)
      BY <3>3, CodedNull
    <3>5. r = <<>> \/ r = Rowed(u, v)
      BY <2>2, <2>4
    <3> QED BY <2>3, <2>4, <3>3, <3>4, <3>5 DEF r
  <2>5. CASE ~(k < Len(o.dict))
    <3>1. r = <<>> /\ d[i] = junk
      BY <2>2, <2>3, <2>5
    <3> QED BY <3>1, CodedNull DEF r
  <2> QED BY <2>4, <2>5
<1>3. d \in Seq(Nat) /\ Len(d) = n
  <2>1. d = [i \in 1..n |-> d[i]]
    OBVIOUS
  <2>2. \A i \in 1..n : d[i] \in Nat
    BY <1>2
  <2> HIDE DEF d
  <2> QED BY ONLY <1>0, <2>1, <2>2
<1> HIDE DEF d
<1>4. Pairs(Coded(u, e), d, y)
  BY <1>0, <1>2, <1>3 DEF Pairs
<1> QED BY <1>1, <1>3, <1>4 DEF d

(* insert_rows of a categorical array interns the other's categories and   *)
(* puts its rows in at the place.                                          *)
LEMMA CatInsert ==
  ASSUME NEW a, NEW w, CatKept(a, w), WholeAt(a, w), NEW o, NEW y, CatKept(o, y), o.unit = a.unit,
         o.masked => Len(o.mask) >= Len(y), NEW at \in Nat, at <= Len(w), NEW junk \in Nat
  PROVE  LET c == Cat!InsertRows(a, at, o, junk) IN Like(c, a) /\ CatKept(c, Fixed!Spliced(w, at, y))
<1>8. CASE Len(y) = 0
  <2>1. Cat!Length(o) = 0 /\ w \in Seq(WantRow) /\ y \in Seq(WantRow)
    BY <1>8, CatOf
  <2>2. Cat!InsertRows(a, at, o, junk) = a
    BY <2>1 DEF Cat!InsertRows
  <2>3. Fixed!Spliced(w, at, y) = w
    BY <1>8, <2>1, SplicedNone
  <2> QED BY <2>2, <2>3 DEF Like
<1> SUFFICES ASSUME Len(y) # 0
             PROVE  LET c == Cat!InsertRows(a, at, o, junk) IN Like(c, a) /\ CatKept(c, Fixed!Spliced(w, at, y))
  BY <1>8
<1> DEFINE e == Cat!InternedAll(a.dict, o.dict)
           d == [i \in DOMAIN o.data |-> Cat!Remapped(e, o, i, junk)]
           b == Cat!Codes(a, Fixed!Spliced(a.data, at, d), e)
           x == Fixed!Spliced(w, at, y)
           c == Fixed!Inserted(b, Len(w), at, o.masked, o.mask, Len(y))
           R == Coded(a.unit, e)
<1>0. /\ Fields(a) /\ Cat!Length(a) = Len(w) /\ Cat!Length(o) = Len(y) /\ "dict" \in DOMAIN a
      /\ Nulls(o.masked, o.mask, y) /\ a.dict \in Dicts /\ o.dict \in Dicts /\ o.dict \in Seq(Seq(Byte))
  BY CatOf, DictIs
<1>1. e \in Dicts /\ Longer(e, a.dict) /\ \A i \in 1..Len(o.dict) : Has(e, o.dict[i])
  BY <1>0, InternedAllAre
<1>2. Put(b, a, Fixed!Spliced(a.data, at, d)) /\ b.dict = e
  BY <1>0, CodesPut
<1>3. Cat!InsertRows(a, at, o, junk) = c
  BY <1>0, CatSame DEF Cat!InsertRows
<1> HIDE DEF e
<1>4. d \in Seq(Nat) /\ Len(d) = Len(y) /\ Pairs(R, d, y)
  BY <1>1, RemappedAre
<1>5. Kept(Nat, R, a, w)
  BY <1>1, CatWider
<1> HIDE DEF R, d, b
<1>6. Turned(c, b, a, x) /\ Kept(Nat, R, c, x)
  BY <1>0, <1>2, <1>4, <1>5, KeptInserted
<1> HIDE DEF c, x
<1>7. Like(c, a) /\ CatKept(c, x)
  BY <1>0, <1>1, <1>2, <1>6, CatMade DEF R
<1> QED BY <1>3, <1>7 DEF x

(* concat of a categorical array merges the dictionaries and adds the      *)
(* other's rows, when the masks can be joined.                             *)
LEMMA CatConcat ==
  ASSUME NEW a, NEW w, CatKept(a, w), WholeAt(a, w), NEW o, NEW y, CatKept(o, y), o.unit = a.unit,
         a.masked /\ o.masked => Len(a.mask) = Len(w), o.masked => Len(o.mask) >= Len(y)
  PROVE  LET c == Cat!Concat(a, o) IN Like(c, a) /\ CatKept(c, w \o y)
<1>0. /\ Fields(a) /\ Cat!Length(a) = Len(w) /\ Cat!Length(o) = Len(y) /\ "dict" \in DOMAIN a /\ o.data \in Seq(Nat)
      /\ Nulls(o.masked, o.mask, y) /\ a.dict \in Dicts /\ o.dict \in Dicts /\ Len(o.data) = Len(y) /\ Fields(o)
      /\ Len(a.dict) \in Nat /\ Len(o.dict) \in Nat /\ o.dict \in Seq(Seq(Byte))
  BY CatOf, DictIs
<1>3. CASE Len(y) = 0
  <2>1. w \in Seq(WantRow) /\ y \in Seq(WantRow)
    BY CatOf
  <2>2. Cat!Concat(a, o) = a
    BY <1>0, <1>3 DEF Cat!Concat
  <2>3. w \o y = w
    BY <1>3, <2>1
  <2> QED BY <2>2, <2>3 DEF Like
<1> SUFFICES ASSUME Len(y) # 0
             PROVE  LET c == Cat!Concat(a, o) IN Like(c, a) /\ CatKept(c, w \o y)
  BY <1>3
<1>1. CASE Cat!CodesStay(a, o)
  <2> DEFINE e == IF Len(o.dict) > Len(a.dict) THEN o.dict ELSE a.dict
             b0 == [a EXCEPT !.dict = e]
             b == [b0 EXCEPT !.data = b0.data \o o.data]
             c == Fixed!Extended(b, Len(w), o.masked, o.mask, Len(y))
  <2>1. e \in Dicts /\ Longer(e, a.dict) /\ Longer(e, o.dict)
    <3>1. Longer(a.dict, o.dict) \/ Longer(o.dict, a.dict)
      BY <1>0, <1>1, PrefixLonger DEF Cat!CodesStay
    <3>2. Longer(a.dict, a.dict) /\ Longer(o.dict, o.dict)
      BY <1>0, LongerSame
    <3>3. CASE Len(o.dict) > Len(a.dict)
      BY <1>0, <3>1, <3>2, <3>3 DEF Longer
    <3>4. CASE ~(Len(o.dict) > Len(a.dict))
      <4>1. Longer(a.dict, o.dict)
        <5>1. CASE Longer(o.dict, a.dict)
          <6>1. Len(o.dict) >= Len(a.dict) /\ \A i \in 1..Len(a.dict) : o.dict[i] = a.dict[i]
            BY <5>1 DEF Longer
          <6>2. Len(o.dict) = Len(a.dict)
            BY <1>0, <3>4, <6>1
          <6> QED BY <1>0, <6>1, <6>2 DEF Longer
        <5> QED BY <3>1, <5>1
      <4> QED BY <1>0, <3>2, <3>4, <4>1
    <3> QED BY <3>3, <3>4
  <2>2. b0.data = a.data /\ Put(b, a, a.data \o o.data) /\ b.dict = e /\ Len(b0.data) = Len(w)
    BY <1>0 DEF Put, Moved, Fields, Cat!Length
  <2>3. Cat!Concat(a, o) = c
    <3>1. Cat!Concat(a, o) = Cat!AppendArray(b0, o)
      BY <1>0, <1>1 DEF Cat!Concat
    <3>2. Cat!Length(b0) = Len(w)
      BY <2>2 DEF Cat!Length
    <3> HIDE DEF b0
    <3>3. Cat!AppendArray(b0, o) = c
      BY <1>0, <3>2, CatSame DEF Cat!AppendArray
    <3> QED BY <3>1, <3>3
  <2>4. Pairs(Coded(a.unit, e), o.data, y)
    BY <2>1, CatWider
  <2> HIDE DEF e, b
  <2>5. Like(c, a) /\ CatKept(c, w \o y)
    BY <1>0, <2>1, <2>2, <2>4, CatJoined
  <2> QED BY <2>3, <2>5
<1>2. CASE ~Cat!CodesStay(a, o)
  <2> DEFINE e == Cat!InternedAll(a.dict, o.dict)
             d == [i \in DOMAIN o.data |-> Cat!Remapped(e, o, i, 0)]
             b0 == [a EXCEPT !.dict = e]
             m == Fixed!RowBits(a, o, Len(y))
             o0 == [o EXCEPT !.data = d, !.mask = m]
             b == [b0 EXCEPT !.data = b0.data \o d]
             c == Fixed!Extended(b, Len(w), o.masked, m, Len(y))
  <2>1. e \in Dicts /\ Longer(e, a.dict) /\ \A i \in 1..Len(o.dict) : Has(e, o.dict[i])
    BY <1>0, InternedAllAre
  <2>2. b0.data = a.data /\ Put(b, a, a.data \o d) /\ b.dict = e
    BY <1>0 DEF Put, Moved, Fields
  <2>6. Cat!Concat(a, o) = Cat!AppendArray(b0, o0)
    BY <1>0, <1>2, CatSame DEF Cat!Concat
  <2> HIDE DEF e
  <2>4. d \in Seq(Nat) /\ Len(d) = Len(y) /\ Pairs(Coded(a.unit, e), d, y)
    BY <2>1, 0 \in Nat, RemappedAre
  <2>7. Nulls(o.masked, m, y)
    BY <1>0, NullsRowBits
  <2> HIDE DEF d, m
  <2>3. Cat!AppendArray(b0, o0) = c
    <3>1. o0.data = d /\ o0.masked = o.masked /\ o0.mask = m
      BY <1>0 DEF Fields
    <3>2. Cat!Length(b0) = Len(w) /\ Cat!Length(o0) = Len(y)
      BY <1>0, <2>2, <2>4, <3>1 DEF Cat!Length
    <3> HIDE DEF b0, o0
    <3> QED BY <3>1, <3>2, CatSame DEF Cat!AppendArray
  <2> HIDE DEF b
  <2>5. Like(c, a) /\ CatKept(c, w \o y)
    BY <1>0, <2>1, <2>2, <2>4, <2>7, CatJoined
  <2> QED BY <2>3, <2>5, <2>6
<1> QED BY <1>1, <1>2

(* extend_from_slice of a categorical array adds the categories' rows.     *)
LEMMA CatExtend ==
  ASSUME NEW a, NEW w, CatKept(a, w), WholeAt(a, w), NEW v \in Seq(Byte), NEW u \in Seq(Byte)
  PROVE  LET c == Cat!ExtendFromSlice(a, <<v, u>>)
         IN  Like(c, a) /\ CatKept(c, w \o <<Rowed(a.unit, v), Rowed(a.unit, u)>>)
<1> DEFINE vs == <<v, u>>
           e == Cat!InternedAll(a.dict, vs)
           r == Rowed(a.unit, v)
           q == Rowed(a.unit, u)
           y == <<r, q>>
           d == <<Cat!Code(e, v), Cat!Code(e, u)>>
           b == Cat!Codes(a, a.data \o d, e)
           x == w \o y
           c == Fixed!OnMask(b, Fixed!Fit(a.mask, Len(w) + Len(y), TRUE))
           R == Coded(a.unit, e)
<1>0. Fields(a) /\ "dict" \in DOMAIN a /\ Cat!Length(a) = Len(w) /\ a.dict \in Dicts /\ a.unit \in Nat /\ w \in Seq(WantRow)
  BY CatOf
<1>1. vs \in Seq(Seq(Byte)) /\ Len(vs) = 2 /\ vs[1] = v /\ vs[2] = u /\ DOMAIN vs = 1..2
  <2> DEFINE S == Seq(Byte)
  <2> HIDE DEF S
  <2>1. v \in S /\ u \in S
    BY DEF S
  <2>2. <<v, u>> \in Seq(S) /\ Len(<<v, u>>) = 2 /\ <<v, u>>[1] = v /\ <<v, u>>[2] = u /\ DOMAIN <<v, u>> = 1..2
    BY ONLY <2>1
  <2> QED BY <2>2 DEF S
<1>2. e \in Dicts /\ Longer(e, a.dict) /\ Has(e, v) /\ Has(e, u)
  <2> HIDE DEF vs
  <2>1. e \in Dicts /\ Longer(e, a.dict) /\ \A i \in 1..Len(vs) : Has(e, vs[i])
    BY <1>0, <1>1, InternedAllAre
  <2> QED BY <1>1, <2>1
<1>3. Cat!ExtendFromSlice(a, <<v, u>>) = c
  <2>1. [i \in DOMAIN vs |-> Cat!Code(e, vs[i])] = d
    <3> HIDE DEF e, vs
    <3> QED BY <1>1
  <2>2. Len(y) = 2
    OBVIOUS
  <2>3. Cat!ExtendFromSlice(a, vs) = Fixed!OnMask(b, Fixed!Fit(a.mask, Len(w) + 2, TRUE))
    <3> HIDE DEF e, d, vs
    <3> QED BY <1>0, <1>1, <2>1, CatSame DEF Cat!ExtendFromSlice, e
  <2> QED BY <2>2, <2>3
<1> HIDE DEF e, vs
<1>4. /\ Cat!Code(e, v) \in Nat /\ r \in WantRow /\ r # <<>> /\ <<Cat!Code(e, v), r>> \in R
      /\ Cat!Code(e, u) \in Nat /\ q \in WantRow /\ q # <<>> /\ <<Cat!Code(e, u), q>> \in R
  BY <1>0, <1>2, CodeFits
<1>5. Put(b, a, a.data \o d) /\ b.dict = e
  BY <1>0, CodesPut
<1>6. Kept(Nat, R, a, w)
  BY <1>2, CatWider
<1> HIDE DEF R, r, q, b
<1>7. d \in Seq(Nat) /\ Len(d) = 2
  BY <1>4
<1>8. Pairs(R, d, y)
  BY <1>4, PairsTwo
<1>9. y \in Seq(WantRow) /\ Len(y) = 2 /\ \A i \in 1..Len(y) : y[i] # <<>>
  BY <1>0, <1>4, TwoMore
<1> HIDE DEF d, y
<1>10. Turned(c, b, a, x) /\ Kept(Nat, R, c, x)
  BY <1>5, <1>6, <1>7, <1>8, <1>9, KeptMore
<1> HIDE DEF c, x
<1>11. Like(c, a) /\ CatKept(c, x)
  BY <1>0, <1>2, <1>5, <1>10, CatMade DEF R
<1> QED BY <1>3, <1>11 DEF x, y, r, q

(* A dictionary of one category.                                           *)
LEMMA OneDict ==
  ASSUME NEW v \in Seq(Byte)
  PROVE  <<v>> \in Dicts /\ Len(<<v>>) = 1 /\ <<v>>[1] = v
<1> DEFINE S == Seq(Byte)
<1> HIDE DEF S
<1>1. v \in S
  BY DEF S
<1>2. <<v>> \in Seq(S) /\ Len(<<v>>) = 1 /\ <<v>>[1] = v
  BY ONLY <1>1
<1>3. \A i, j \in 1..Len(<<v>>) : i # j => <<v>>[i] # <<v>>[j]
  BY <1>2
<1> QED BY <1>2, <1>3 DEF S, Dicts

(* A categorical array filled with one category.                           *)
LEMMA CatFilled ==
  ASSUME NEW a, NEW w, CatKept(a, w), NEW v \in Seq(Byte), NEW n \in Nat
  PROVE  LET c == Cat!Filled(a, v, n) IN Like(c, a) /\ CatKept(c, Fixed!All(n, Rowed(a.unit, v)))
<1> DEFINE e == <<v>>
           r == Rowed(a.unit, v)
           d == Fixed!All(n, 0)
           b == Cat!Codes(a, d, e)
           x == Fixed!All(n, r)
           c == Fixed!Unmasked(b)
           R == Coded(a.unit, e)
<1>0. Fields(a) /\ "dict" \in DOMAIN a /\ a.unit \in Nat /\ Frame(a, w)
  BY CatOf
<1>1. e \in Dicts /\ Len(e) = 1 /\ e[0 + 1] = v
  BY OneDict
<1>2. Put(b, a, d) /\ b.dict = e
  BY <1>0, CodesPut
<1>3. Cat!Filled(a, v, n) = c
  BY CatSame DEF Cat!Filled
<1> HIDE DEF e
<1>4. r \in WantRow /\ r # <<>> /\ <<0, r>> \in R
  <2>1. 0 \in Nat /\ 0 < Len(e)
    BY <1>1
  <2>2. /\ Rowed(a.unit, e[0 + 1]) \in WantRow /\ Rowed(a.unit, e[0 + 1]) # <<>>
        /\ <<0, Rowed(a.unit, e[0 + 1])>> \in Coded(a.unit, e)
    BY <1>0, <1>1, <2>1, CodedIs
  <2> QED BY <1>1, <2>2
<1> HIDE DEF R, r
<1>5. d \in Seq(Nat) /\ Len(d) = n /\ x \in Seq(WantRow) /\ Len(x) = n /\ \A i \in 1..n : x[i] = r
  BY <1>4, 0 \in Nat, AllIs
<1>6. Pairs(R, d, x)
  BY <1>4, 0 \in Nat, PairsAll
<1>7. \A i \in 1..Len(x) : x[i] # <<>>
  BY <1>4, <1>5
<1> HIDE DEF b, d, x
<1>8. Turned(c, b, a, x) /\ Kept(Nat, R, c, x)
  <2>1. Turned(c, b, a, x)
    BY <1>0, <1>2, <1>5, <1>7, TurnUnmasked DEF Put
  <2> HIDE DEF c
  <2> QED BY <1>0, <1>2, <1>5, <1>6, <2>1, KeptMade
<1> HIDE DEF c
<1>9. Like(c, a) /\ CatKept(c, x)
  BY <1>0, <1>1, <1>2, <1>8, CatMade DEF R
<1> QED BY <1>3, <1>9 DEF x, r

(* What a row of a categorical array reads as.                             *)
CatCell(x, i) == IF Cat!IsNull(x, i) THEN <<>> ELSE <<Cat!Value(x, i)[2]>>

(* A row of a categorical array is read as the null or the category it is. *)
LEMMA CatRead ==
  ASSUME NEW a, NEW w, CatKept(a, w), a.masked => Len(a.mask) >= Len(w), NEW i \in 1..Len(w)
  PROVE  /\ Cat!IsNull(a, i) <=> w[i] = <<>>
         /\ Cat!Value(a, i) = <<a.unit, Cat!Value(a, i)[2]>> /\ a.data[i] \in Nat
         /\ w[i] # <<>> => /\ a.data[i] < Len(a.dict) /\ a.data[i] + 1 \in 1..Len(a.dict)
                           /\ Cat!Value(a, i)[2] = a.dict[a.data[i] + 1]
                           /\ Cat!Value(a, i)[2] \in Seq(Byte) /\ w[i] = Rowed(a.unit, Cat!Value(a, i)[2])
<1> DEFINE k == a.data[i]
           r == w[i]
           v == IF k < Len(a.dict) THEN a.dict[k + 1] ELSE <<>>
<1>0. /\ Nulls(a.masked, a.mask, w) /\ w \in Seq(WantRow) /\ a.unit \in Nat /\ Pairs(Coded(a.unit, a.dict), a.data, w)
      /\ a.data \in Seq(Nat) /\ Len(a.data) = Len(w) /\ a.dict \in Dicts
  BY CatOf
<1>1. Cat!IsNull(a, i) <=> w[i] = <<>>
  BY <1>0, NullIs, CatSame
<1>2. Cat!Value(a, i) = <<a.unit, v>>
  BY DEF Cat!Value
<1>3. <<k, r>> \in Coded(a.unit, a.dict)
  BY <1>0 DEF Pairs
<1>4. k \in Nat
  BY <1>0
<1> HIDE DEF k, r
<1>5. r # <<>> => k < Len(a.dict) /\ r = Rowed(a.unit, a.dict[k + 1])
  BY <1>3 DEF Coded
<1>6. Cat!Value(a, i)[2] = v
  BY <1>2
<1>7. ASSUME r # <<>>
      PROVE  /\ k < Len(a.dict) /\ k + 1 \in 1..Len(a.dict) /\ v = a.dict[k + 1] /\ v \in Seq(Byte) /\ r = Rowed(a.unit, v)
  <2>1. k < Len(a.dict) /\ r = Rowed(a.unit, a.dict[k + 1]) /\ Len(a.dict) \in Nat
    BY <1>0, <1>5, <1>7, DictIs
  <2>2. k + 1 \in 1..Len(a.dict)
    BY <1>4, <2>1
  <2>3. a.dict[k + 1] \in Seq(Byte)
    BY <1>0, <2>2, DictIs
  <2> QED BY <2>1, <2>2, <2>3
<1> HIDE DEF v
<1> QED BY <1>1, <1>2, <1>4, <1>6, <1>7 DEF k, r

(* So the cell that is read fits the row.                                  *)
LEMMA CatCellFits ==
  ASSUME NEW a, NEW w, CatKept(a, w), a.masked => Len(a.mask) >= Len(w), NEW i \in 1..Len(w)
  PROVE  CellFits(a.unit, CatCell(a, i), w[i])
<1> DEFINE v == Cat!Value(a, i)[2]
           r == w[i]
           u == a.unit
<1>1. (Cat!IsNull(a, i) <=> r = <<>>) /\ (r # <<>> => v \in Seq(Byte) /\ r = Rowed(u, v))
  BY CatRead
<1>2. CatCell(a, i) = IF Cat!IsNull(a, i) THEN <<>> ELSE <<v>>
  BY DEF CatCell
<1> HIDE DEF v, r, u
<1>3. CellFits(u, CatCell(a, i), r)
  <2>1. CASE r = <<>>
    BY <1>1, <1>2, <2>1 DEF CellFits
  <2>2. CASE r # <<>>
    <3>1. CatCell(a, i) = <<v>>
      BY <1>1, <1>2, <2>2
    <3>2. <<v>>[1] = v /\ <<v>> # <<>>
      OBVIOUS
    <3> QED BY <1>1, <2>2, <3>1, <3>2 DEF CellFits
  <2> QED BY <2>1, <2>2
<1> QED BY <1>3 DEF u, r

(* An empty dictionary.                                                    *)
LEMMA NoDict == <<>> \in Dicts
<1> DEFINE S == Seq(Byte)
<1> HIDE DEF S
<1>1. <<>> \in Seq(S) /\ Len(<<>>) = 0
  OBVIOUS
<1> QED BY <1>1 DEF S, Dicts

(* The dictionary made by interning cells, and their codes in it with 0    *)
(* for none, correspond to the rows the cells fit.                         *)
LEMMA CodesMade ==
  ASSUME NEW u \in Nat, NEW x \in Seq(WantRow), NEW t, Len(t) = Len(x), \A i \in 1..Len(x) : CellFits(u, t[i], x[i]),
         NEW n, n = Len(x)
  PROVE  LET e == Cat!InternedRows(<<>>, t)
             d == [i \in 1..n |-> IF t[i] = <<>> THEN 0 ELSE Cat!Code(e, t[i][1])]
         IN  e \in Dicts /\ d \in Seq(Nat) /\ Len(d) = n /\ Pairs(Coded(u, e), d, x)
<1> DEFINE e == Cat!InternedRows(<<>>, t)
           d == [i \in 1..n |-> IF t[i] = <<>> THEN 0 ELSE Cat!Code(e, t[i][1])]
<1>0. n \in Nat /\ Len(t) \in Nat /\ 1..Len(t) = 1..n /\ 1..n = 1..Len(x)
  OBVIOUS
<1>1. \A i \in 1..Len(t) : t[i] # <<>> => t[i][1] \in Seq(Byte)
  <2> TAKE i \in 1..Len(t)
  <2>1. CellFits(u, t[i], x[i])
    BY <1>0
  <2> QED BY <2>1 DEF CellFits
<1>2. e \in Dicts /\ \A i \in 1..Len(t) : t[i] # <<>> => Has(e, t[i][1])
  <2> DEFINE none == <<>>
  <2>1. none \in Dicts
    BY NoDict
  <2> HIDE DEF none
  <2>2. LET f == Cat!InternedRows(none, t)
        IN  f \in Dicts /\ Longer(f, none) /\ \A i \in 1..Len(t) : t[i] # <<>> => Has(f, t[i][1])
    BY <1>0, <1>1, <2>1, InternedRowsAre
  <2> QED BY <2>2 DEF none
<1> HIDE DEF e
<1>3. ASSUME NEW i \in 1..n PROVE d[i] \in Nat /\ <<d[i], x[i]>> \in Coded(u, e)
  <2> DEFINE z == t[i]
             r == x[i]
             v == z[1]
  <2>1. CellFits(u, z, r) /\ (z # <<>> => Has(e, v))
    BY <1>0, <1>2
  <2>2. d[i] = IF z = <<>> THEN 0 ELSE Cat!Code(e, v)
    OBVIOUS
  <2> HIDE DEF z, d
  <2>3. CASE z = <<>>
    <3>1. r = <<>> /\ d[i] = 0
      BY <2>1, <2>2, <2>3 DEF CellFits
    <3>2. <<0, <<>> >> \in Coded(u, e) /\ 0 \in Nat
      BY CodedNull
    <3> QED BY <3>1, <3>2
  <2>4. CASE z # <<>>
    <3>1. v \in Seq(Byte) /\ r = Rowed(u, v) /\ Has(e, v)
      BY <2>1, <2>4 DEF CellFits
    <3> HIDE DEF v, r
    <3>2. Cat!Code(e, v) \in Nat /\ <<Cat!Code(e, v), Rowed(u, v)>> \in Coded(u, e)
      BY <1>2, <3>1, CodeFits
    <3> QED BY <2>2, <2>4, <3>1, <3>2 DEF r
  <2> QED BY <2>3, <2>4
<1>4. d \in Seq(Nat) /\ Len(d) = n
  <2>1. d = [i \in 1..n |-> d[i]]
    OBVIOUS
  <2>2. \A i \in 1..n : d[i] \in Nat
    BY <1>3
  <2> HIDE DEF d
  <2> QED BY ONLY <1>0, <2>1, <2>2
<1> HIDE DEF d
<1>5. Pairs(Coded(u, e), d, x)
  BY <1>0, <1>3, <1>4 DEF Pairs
<1> QED BY <1>2, <1>4, <1>5 DEF d, e

(* compact_dict keeps the rows: the categories in use, interned in the     *)
(* order of the rows, and the codes translated.                            *)
LEMMA CatCompact ==
  ASSUME NEW a, NEW w, CatKept(a, w), a.masked => Len(a.mask) >= Len(w)
  PROVE  LET c == Cat!CompactDict(a) IN Like(c, a) /\ CatKept(c, w)
<1> DEFINE n == Len(w)
           t == [i \in 1..n |-> CatCell(a, i)]
           e == Cat!InternedRows(<<>>, t)
           d == [i \in 1..n |-> IF t[i] = <<>> THEN 0 ELSE Cat!Code(e, t[i][1])]
           c == Cat!Codes(a, d, e)
           R == Coded(a.unit, e)
<1>0. /\ Fields(a) /\ Frame(a, w) /\ "dict" \in DOMAIN a /\ a.unit \in Nat /\ w \in Seq(WantRow) /\ n \in Nat
      /\ Cat!Length(a) = n
  BY CatOf
<1>1. Cat!CompactDict(a) = c
  <2>1. Cat!StringRows(a) = t
    BY <1>0 DEF Cat!StringRows, CatCell
  <2>2. DOMAIN t = 1..n
    OBVIOUS
  <2> HIDE DEF t
  <2> QED BY <2>1, <2>2 DEF Cat!CompactDict
<1>2. Len(t) = n /\ \A i \in 1..n : CellFits(a.unit, t[i], w[i])
  <2>1. \A i \in 1..n : t[i] = CatCell(a, i)
    OBVIOUS
  <2>2. Len(t) = n
    <3> HIDE DEF n
    <3> QED BY <1>0
  <2> HIDE DEF t
  <2> QED BY <2>1, <2>2, CatCellFits
<1> HIDE DEF t
<1>3. e \in Dicts /\ d \in Seq(Nat) /\ Len(d) = n /\ Pairs(R, d, w)
  BY <1>0, <1>2, CodesMade
<1> HIDE DEF e, d, R
<1>4. Put(c, a, d) /\ c.dict = e
  BY <1>0, CodesPut
<1> HIDE DEF c
<1>5. Rest(c, c) /\ Moved(c, a) /\ Marks(c, w)
  BY <1>0, <1>4, MovedMarks DEF Put, Rest
<1>6. Turned(c, c, a, w)
  BY <1>0, <1>5, TurnedIs
<1>7. Kept(Nat, R, c, w)
  BY <1>0, <1>3, <1>4, <1>6, KeptMade
<1>8. Like(c, a) /\ CatKept(c, w)
  BY <1>0, <1>3, <1>4, <1>6, <1>7, CatMade DEF R
<1> QED BY <1>1, <1>8

(* The items of a sequence are in its set.                                 *)
LEMMA ItemsIn == \A S : \A s \in Seq(S) : \A i \in 1..Len(s) : s[i] \in S
  OBVIOUS

(* The last write of a set of writes; the writes of a scatter to one       *)
(* place; which of two it is.                                              *)
Latest(T) == CHOOSE i \in T : \A j \in T : j <= i

(* The last of a set of the two writes is in it, and no other is as late.  *)
LEMMA LatestIs ==
  ASSUME NEW T, T \subseteq 1..2, T # {}
  PROVE  Latest(T) \in T /\ (\A j \in T : j <= Latest(T)) /\ \A k \in T : (\A j \in T : j <= k) => Latest(T) = k
<1> DEFINE P(i) == i \in T /\ \A j \in T : j <= i
           m == IF 2 \in T THEN 2 ELSE 1
<1>1. P(m)
  <2>1. CASE 2 \in T
    BY <2>1
  <2>2. CASE 2 \notin T
    <3>0. \A k \in T : k = 1 \/ k = 2
      OBVIOUS
    <3>1. T = {1}
      <4>1. \A k \in T : k = 1
        BY <2>2, <3>0
      <4> QED BY <4>1
    <3> QED BY <2>2, <3>1
  <2> QED BY <2>1, <2>2
<1>2. Latest(T) = CHOOSE i : P(i)
  BY DEF Latest
<1>3. P(Latest(T))
  BY <1>1, <1>2
<1>4. ASSUME NEW k \in T, \A j \in T : j <= k PROVE Latest(T) = k
  <2> DEFINE i == Latest(T)
  <2>1. i \in 1..2 /\ k \in 1..2 /\ i <= k /\ k <= i
    BY <1>3, <1>4
  <2> HIDE DEF i
  <2>2. i = k
    BY <2>1
  <2> QED BY <2>2 DEF i
<1> QED BY <1>3, <1>4

(* The writes of a scatter to the place d, and the last of them.           *)
Writes(dst, d) == {i \in DOMAIN dst : dst[i] = d}
WroteTo(dst, d) == IF dst[2] = d THEN 2 ELSE 1

(* Where a scatter writes, WroteTo is the last write, also among some of   *)
(* them.                                                                   *)
LEMMA WritesAre ==
  ASSUME NEW n \in Nat, NEW dst \in [1..2 -> 1..n], NEW d, NEW k, k = WroteTo(dst, d), dst[2] = d \/ dst[1] = d
  PROVE  /\ Latest(Writes(dst, d)) = k /\ k \in 1..2 /\ k \in Writes(dst, d)
         /\ \A T : T \subseteq Writes(dst, d) /\ k \in T => Latest(T) = k
<1>1. DOMAIN dst = 1..2
  OBVIOUS
<1>2. Writes(dst, d) \subseteq 1..2 /\ k \in Writes(dst, d) /\ (\A j \in Writes(dst, d) : j <= k) /\ k \in 1..2
  BY <1>1 DEF Writes, WroteTo
<1>3. \A T : T \subseteq Writes(dst, d) /\ k \in T => Latest(T) = k
  <2> TAKE T
  <2> HAVE T \subseteq Writes(dst, d) /\ k \in T
  <2>1. T \subseteq 1..2 /\ T # {} /\ \A j \in T : j <= k
    BY <1>2
  <2> QED BY <2>1, LatestIs
<1> QED BY <1>2, <1>3

(* A row is not null when there is no mask or its bit is set.              *)
LEMMA NotNullIs ==
  ASSUME NEW o, NEW y, Nulls(o.masked, o.mask, y), o.masked => Len(o.mask) >= Len(y), NEW i \in 1..Len(y)
  PROVE  (~Fixed!IsNull(o, i)) = (~o.masked \/ o.mask[i])
<1>1. o.masked \in BOOLEAN /\ o.mask \in Seq(Bits) /\ y \in Seq(WantRow)
  BY DEF Nulls
<1>2. o.masked => i \in 1..Len(o.mask)
  BY <1>1
<1>3. o.masked => o.mask[i] \in BOOLEAN
  BY <1>1, <1>2 DEF Bits
<1>4. CASE o.masked = TRUE
  <2>1. i <= Len(o.mask) /\ o.mask[i] \in BOOLEAN
    BY <1>2, <1>3, <1>4
  <2> DEFINE p == o.mask[i]
             q == i <= Len(o.mask)
  <2>2. p \in BOOLEAN /\ q = TRUE
    BY <2>1
  <2>3. Fixed!IsNull(o, i) = (o.masked /\ ~(q /\ p))
    BY DEF Fixed!IsNull
  <2> HIDE DEF p, q
  <2>4. (~Fixed!IsNull(o, i)) = (~o.masked \/ p)
    BY ONLY <1>4, <2>2, <2>3
  <2> QED BY <2>4 DEF p
<1>5. CASE o.masked = FALSE
  BY <1>5 DEF Fixed!IsNull
<1> QED BY <1>1, <1>4, <1>5

(* The mask of a scattered array is the one a fixed-width array gets. *)
LEMMA ScatterMarks ==
  ASSUME NEW a, NEW w, Frame(a, w), a.masked => Len(a.mask) >= Len(w), a.data \in Seq(Nat), Len(a.data) = Len(w),
         NEW o, NEW y, o.data \in Seq(Nat), Len(o.data) = Len(y),
         Nulls(o.masked, o.mask, y), o.masked => Len(o.mask) >= Len(y),
         NEW dst \in [1..2 -> 1..Len(w)], NEW src \in [1..2 -> 1..Len(y)],
         NEW x \in Seq(WantRow), AsPicked(x, w, y, dst, src), NEW b, Moved(b, a), NEW m, m = Fixed!MaskOr(a, Len(w))
  PROVE  LET hit == {dst[i] : i \in DOMAIN dst}
             bits == [d \in DOMAIN m |-> IF d \in hit THEN ~Fixed!IsNull(o, src[Latest(Writes(dst, d))]) ELSE m[d]]
         IN  Turned(IF o.masked \/ a.masked THEN Fixed!Masked(b, bits) ELSE b, b, a, x)
<1> DEFINE hit == {dst[i] : i \in DOMAIN dst}
           last(d) == CHOOSE i \in DOMAIN dst : dst[i] = d /\ \A j \in DOMAIN dst : dst[j] = d => j <= i
           bits == [d \in DOMAIN m |-> IF d \in hit THEN ~Fixed!IsNull(o, src[Latest(Writes(dst, d))]) ELSE m[d]]
           g == [d \in DOMAIN m |-> IF d \notin hit THEN m[d] ELSE ~o.masked \/ o.mask[src[last(d)]]]
           f == [d \in DOMAIN a.data |-> IF d \in hit THEN o.data[src[last(d)]] ELSE a.data[d]]
           b0 == [a EXCEPT !.data = f]
           c0 == Fixed!ScatterPrim(a, dst, o, src)
           R == Nat \X WantRow
           c == IF o.masked \/ a.masked THEN Fixed!Masked(b, bits) ELSE b
<1>0. /\ Len(w) \in Nat /\ w \in Seq(WantRow) /\ y \in Seq(WantRow) /\ Fields(a) /\ o.masked \in BOOLEAN /\ a.masked \in BOOLEAN
      /\ {"masked", "mask"} \subseteq DOMAIN a /\ a.mask \in Seq(Bits)
  BY MarksOf DEF Nulls, Frame, Marks
<1>1. Pairs(R, a.data, w) /\ Pairs(R, o.data, y)
  <2> HIDE DEF WantRow
  <2>0. /\ \A s \in Seq(Nat) : \A i \in 1..Len(s) : s[i] \in Nat
        /\ \A s \in Seq(WantRow) : \A i \in 1..Len(s) : s[i] \in WantRow
    BY ItemsIn
  <2>1. (\A i \in 1..Len(w) : a.data[i] \in Nat) /\ (\A i \in 1..Len(w) : w[i] \in WantRow)
    <3>1. \A i \in 1..Len(a.data) : a.data[i] \in Nat
      BY <2>0
    <3>2. \A i \in 1..Len(w) : w[i] \in WantRow
      BY <1>0, <2>0
    <3> QED BY <3>1, <3>2
  <2>2. (\A i \in 1..Len(y) : o.data[i] \in Nat) /\ (\A i \in 1..Len(y) : y[i] \in WantRow)
    <3>1. \A i \in 1..Len(o.data) : o.data[i] \in Nat
      BY <2>0
    <3>2. \A i \in 1..Len(y) : y[i] \in WantRow
      BY <1>0, <2>0
    <3> QED BY <3>1, <3>2
  <2>3. (\A i \in 1..Len(w) : <<a.data[i], w[i]>> \in R) /\ (\A i \in 1..Len(y) : <<o.data[i], y[i]>> \in R)
    BY <2>1, <2>2
  <2>4. Len(a.data) >= Len(w) /\ Len(o.data) >= Len(y)
    BY <1>0
  <2> HIDE DEF R
  <2>5. Pairs(R, a.data, w)
    BY <1>0, <2>3, <2>4 DEF Pairs
  <2>6. Pairs(R, o.data, y)
    BY <1>0, <2>3, <2>4 DEF Pairs
  <2> QED BY <2>5, <2>6
<1> HIDE DEF R
<1>2. PICK d0 \in Seq(Nat) : Turned(c0, [a EXCEPT !.data = d0], a, x)
  BY <1>1, ScatterIs
<1>3. c0 = IF o.masked \/ a.masked THEN Fixed!Masked(b0, g) ELSE b0
  BY DEF Fixed!ScatterPrim, Fixed!Length
<1>4. g = bits
  <2>1. ASSUME NEW d \in DOMAIN m, d \in hit
        PROVE  (~o.masked \/ o.mask[src[last(d)]]) = (~Fixed!IsNull(o, src[Latest(Writes(dst, d))]))
    <3>0. DOMAIN dst = 1..2 /\ (dst[2] = d \/ dst[1] = d)
      BY <2>1
    <3> DEFINE k == WroteTo(dst, d)
    <3>1. last(d) = k
      <4>1. \E i \in DOMAIN dst : dst[i] = d
        BY <2>1
      <4> QED BY <1>0, <4>1, LastIs DEF WroteTo
    <3>2. Latest(Writes(dst, d)) = k /\ k \in 1..2
      BY <1>0, <3>0, WritesAre
    <3> HIDE DEF k, last
    <3>3. src[k] \in 1..Len(y)
      BY <3>2
    <3>4. (~Fixed!IsNull(o, src[k])) = (~o.masked \/ o.mask[src[k]])
      BY <3>3, NotNullIs
    <3> QED BY <3>1, <3>2, <3>4
  <2> HIDE DEF hit, last
  <2> QED BY <2>1
<1> HIDE DEF g, f, bits, c0, hit, last
<1>5. Frame(c0, x) /\ Marks(c0, x)
  BY <1>2 DEF Turned, Frame
<1>6. CASE o.masked \/ a.masked
  <2>1. c0.masked = TRUE /\ c0.mask = bits
    BY <1>0, <1>3, <1>4, <1>6 DEF Fixed!Masked, b0
  <2>2. Nulls(TRUE, bits, x)
    BY <1>5, <2>1 DEF Marks
  <2>3. Turned(Fixed!Masked(b, bits), b, a, x)
    BY <2>2, TurnMasked
  <2> QED BY <1>6, <2>3 DEF c, bits, hit
<1>7. CASE ~(o.masked \/ a.masked)
  <2>1. c0.masked = a.masked /\ c0.mask = a.mask
    BY <1>0, <1>3, <1>7 DEF b0
  <2>2. Nulls(a.masked, a.mask, x)
    BY <1>5, <2>1 DEF Marks
  <2>3. Marks(b, x) /\ Rest(b, b)
    BY <1>0, <2>2 DEF Marks, Rest, Moved, Fields
  <2>4. Turned(b, b, a, x)
    BY <2>3, TurnedIs
  <2> QED BY <1>7, <2>4
<1> QED BY <1>6, <1>7 DEF bits, hit

(* The writes to a row that write a value. *)
ValidWrites(o, dst, src, d) == {i \in Writes(dst, d) : ~Cat!IsNull(o, src[i])}

(* What is written is there to be looked up. *)
Reached(e, o, y, src) ==
  \A i \in 1..2 : ~Cat!IsNull(o, src[i]) =>
    LET v == o.dict[o.data[src[i]] + 1]
    IN  v \in Seq(Byte) /\ Has(e, v) /\ y[src[i]] = Rowed(o.unit, v)

(* The codes of a scatter that keeps the dictionary. *)
LEMMA ScatterCodesSame ==
  ASSUME NEW a, NEW w, CatKept(a, w), NEW o, NEW y, CatKept(o, y), o.unit = a.unit,
         NEW dst \in [1..2 -> 1..Len(w)], NEW src \in [1..2 -> 1..Len(y)],
         NEW x \in Seq(WantRow), AsPicked(x, w, y, dst, src), Cat!IsPrefix(o.dict, a.dict), NEW d \in 1..Len(w),
         NEW hit, d \in hit <=> (dst[2] = d \/ dst[1] = d)
  PROVE  LET k == IF d \in hit THEN o.data[src[Latest(Writes(dst, d))]] ELSE a.data[d]
         IN  k \in Nat /\ <<k, x[d]>> \in Coded(a.unit, a.dict)
<1> DEFINE R == Coded(a.unit, a.dict)
           k == IF d \in hit THEN o.data[src[Latest(Writes(dst, d))]] ELSE a.data[d]
<1>0. /\ Pairs(R, a.data, w) /\ a.data \in Seq(Nat) /\ Len(a.data) = Len(w) /\ a.dict \in Dicts /\ Len(w) \in Nat
      /\ o.data \in Seq(Nat) /\ Len(o.data) = Len(y) /\ o.dict \in Dicts /\ Len(y) \in Nat
  BY CatOf
<1>1. Pairs(R, o.data, y)
  BY <1>0, PrefixLonger, CatWider
<1> HIDE DEF R
<1>2. x[d] = IF dst[2] = d THEN y[src[2]] ELSE IF dst[1] = d THEN y[src[1]] ELSE w[d]
  BY DEF AsPicked
<1>3. DOMAIN dst = 1..2
  OBVIOUS
<1>4. CASE d \in hit
  <2>1. dst[2] = d \/ dst[1] = d
    BY <1>4
  <2> DEFINE j == WroteTo(dst, d)
  <2>2. Latest(Writes(dst, d)) = j /\ j \in 1..2
    BY <1>0, <2>1, WritesAre
  <2>3. x[d] = y[src[j]]
    BY <1>2, <2>1 DEF WroteTo
  <2> HIDE DEF j
  <2>4. src[j] \in 1..Len(y)
    BY <2>2
  <2> DEFINE i == src[j]
  <2>5. k = o.data[i] /\ x[d] = y[i] /\ i \in 1..Len(y)
    BY <1>4, <2>2, <2>3, <2>4
  <2> HIDE DEF i, k
  <2>6. i \in 1..Len(o.data)
    BY <1>0, <2>5
  <2>7. o.data[i] \in Nat
    BY <1>0, <2>6, ItemsIn
  <2>8. <<o.data[i], y[i]>> \in R
    BY <1>1, <2>5 DEF Pairs
  <2>9. k \in Nat /\ <<k, x[d]>> \in R
    BY <2>5, <2>7, <2>8
  <2> QED BY <2>9 DEF k, R
<1>5. CASE d \notin hit
  <2>1. dst[2] # d /\ dst[1] # d
    BY <1>5
  <2>2. k = a.data[d] /\ x[d] = w[d]
    BY <1>2, <1>5, <2>1
  <2> HIDE DEF k
  <2>3. d \in 1..Len(a.data)
    BY <1>0
  <2>4. a.data[d] \in Nat
    BY <1>0, <2>3, ItemsIn
  <2>5. <<a.data[d], w[d]>> \in R
    BY <1>0 DEF Pairs
  <2>9. k \in Nat /\ <<k, x[d]>> \in R
    BY <2>2, <2>4, <2>5
  <2> QED BY <2>9 DEF k, R
<1> QED BY <1>4, <1>5

(* The rows a scatter interns. *)
LEMMA ScatterInterns ==
  ASSUME NEW a, NEW w, CatKept(a, w), NEW o, NEW y, CatKept(o, y), o.masked => Len(o.mask) >= Len(y),
         NEW src \in [1..2 -> 1..Len(y)], NEW rows, Len(rows) = 2,
         \A i \in 1..2 : rows[i] = IF Cat!IsNull(o, src[i]) THEN <<>> ELSE <<o.dict[o.data[src[i]] + 1]>>
  PROVE  LET e == Cat!InternedRows(a.dict, rows)
         IN  e \in Dicts /\ Longer(e, a.dict) /\ Reached(e, o, y, src)
<1> DEFINE v(i) == o.dict[o.data[src[i]] + 1]
           null(i) == Cat!IsNull(o, src[i])
           e == Cat!InternedRows(a.dict, rows)
<1>1. \A i \in 1..2 : ~null(i) => v(i) \in Seq(Byte) /\ y[src[i]] = Rowed(o.unit, v(i))
  <2> TAKE i \in 1..2
  <2>1. src[i] \in 1..Len(y)
    OBVIOUS
  <2> DEFINE j == src[i]
  <2>2. j \in 1..Len(y)
    BY <2>1
  <2> HIDE DEF j
  <2>3. /\ Cat!IsNull(o, j) <=> y[j] = <<>>
        /\ y[j] # <<>> => /\ Cat!Value(o, j)[2] = o.dict[o.data[j] + 1] /\ Cat!Value(o, j)[2] \in Seq(Byte)
                          /\ y[j] = Rowed(o.unit, Cat!Value(o, j)[2])
    BY <2>2, CatRead
  <2>4. ~Cat!IsNull(o, j) => o.dict[o.data[j] + 1] \in Seq(Byte) /\ y[j] = Rowed(o.unit, o.dict[o.data[j] + 1])
    BY ONLY <2>3
  <2> QED BY <2>4 DEF j
<1>2. Len(rows) = 2 /\ \A i \in 1..2 : rows[i] = IF null(i) THEN <<>> ELSE <<v(i)>>
  OBVIOUS
<1> HIDE DEF v, null
<1>3. \A i \in 1..Len(rows) : rows[i] # <<>> => rows[i][1] \in Seq(Byte)
  BY <1>1, <1>2
<1>4. a.dict \in Dicts
  BY CatOf
<1>5. /\ e \in Dicts /\ Longer(e, a.dict)
      /\ \A i \in 1..Len(rows) : rows[i] # <<>> => Has(e, rows[i][1])
  <2>1. Len(rows) \in Nat
    BY <1>2
  <2> QED BY <1>3, <1>4, <2>1, InternedRowsAre
<1> HIDE DEF e
<1>6. \A i \in 1..2 : ~null(i) => Has(e, v(i))
  <2> TAKE i \in 1..2
  <2>1. ~null(i) => rows[i] = <<v(i)>> /\ rows[i] # <<>> /\ rows[i][1] = v(i) /\ i \in 1..Len(rows)
    BY <1>2
  <2> QED BY <1>5, <2>1
<1>8. /\ e \in Dicts /\ Longer(e, a.dict)
      /\ \A i \in 1..2 : ~null(i) => v(i) \in Seq(Byte) /\ Has(e, v(i)) /\ y[src[i]] = Rowed(o.unit, v(i))
  BY <1>1, <1>5, <1>6
<1> QED BY <1>8 DEF e, v, null, Reached

(* The codes of a scatter that interns what it writes: a row whose last    *)
(* write is a null keeps its code or takes that of an earlier value.       *)
LEMMA ScatterCodesNew ==
  ASSUME NEW a, NEW w, CatKept(a, w), NEW o, NEW y, CatKept(o, y), o.unit = a.unit, o.masked => Len(o.mask) >= Len(y),
         NEW dst \in [1..2 -> 1..Len(w)], NEW src \in [1..2 -> 1..Len(y)],
         NEW x \in Seq(WantRow), AsPicked(x, w, y, dst, src), NEW d \in 1..Len(w),
         NEW e \in Dicts, Longer(e, a.dict), Reached(e, o, y, src)
  PROVE  LET T == ValidWrites(o, dst, src, d)
             k == IF T # {} THEN Cat!Code(e, o.dict[o.data[src[Latest(T)]] + 1]) ELSE a.data[d]
         IN  k \in Nat /\ <<k, x[d]>> \in Coded(a.unit, e)
<1> DEFINE R == Coded(a.unit, e)
           T == ValidWrites(o, dst, src, d)
           v(i) == o.dict[o.data[src[i]] + 1]
           null(i) == Cat!IsNull(o, src[i])
           k == IF T # {} THEN Cat!Code(e, v(Latest(T))) ELSE a.data[d]
<1>0. /\ Pairs(R, a.data, w) /\ a.data \in Seq(Nat) /\ Len(a.data) = Len(w) /\ a.unit \in Nat /\ Len(w) \in Nat
  BY CatOf, CatWider
<1>1. \A i \in 1..2 : ~null(i) =>
        Cat!Code(e, v(i)) \in Nat /\ <<Cat!Code(e, v(i)), y[src[i]]>> \in R /\ y[src[i]] # <<>>
  <2> TAKE i \in 1..2
  <2> HAVE ~null(i)
  <2> HIDE DEF R
  <2>1. v(i) \in Seq(Byte) /\ Has(e, v(i)) /\ y[src[i]] = Rowed(a.unit, v(i))
    BY DEF Reached
  <2> HIDE DEF v, null
  <2>2. Cat!Code(e, v(i)) \in Nat /\ <<Cat!Code(e, v(i)), Rowed(a.unit, v(i))>> \in Coded(a.unit, e) /\ Rowed(a.unit, v(i)) # <<>>
    BY <1>0, <2>1, CodeFits
  <2> QED BY <2>1, <2>2 DEF R
<1>2. \A i \in 1..2 : null(i) => y[src[i]] = <<>>
  <2> TAKE i \in 1..2
  <2> DEFINE j == src[i]
  <2>1. j \in 1..Len(y)
    OBVIOUS
  <2> HIDE DEF j
  <2>2. Cat!IsNull(o, j) <=> y[j] = <<>>
    BY <2>1, CatRead
  <2> QED BY <2>2 DEF j
<1>3. x[d] = IF dst[2] = d THEN y[src[2]] ELSE IF dst[1] = d THEN y[src[1]] ELSE w[d]
  BY DEF AsPicked
<1>4. DOMAIN dst = 1..2 /\ T \subseteq Writes(dst, d) /\ \A i : i \in T <=> i \in Writes(dst, d) /\ ~null(i)
  BY DEF ValidWrites
<1>5. \A q \in Nat : <<q, <<>> >> \in R
  BY CodedNull
<1>6. d \in 1..Len(a.data) /\ a.data[d] \in Nat /\ <<a.data[d], w[d]>> \in R
  <2> HIDE DEF R
  <2>1. d \in 1..Len(a.data)
    BY <1>0
  <2> QED BY <1>0, <2>1, ItemsIn DEF Pairs
<1> HIDE DEF R, v, null
<1>7. CASE dst[2] = d \/ dst[1] = d
  <2> DEFINE j == WroteTo(dst, d)
  <2>1. j \in 1..2 /\ j \in Writes(dst, d) /\ \A U : U \subseteq Writes(dst, d) /\ j \in U => Latest(U) = j
    BY <1>0, <1>7, WritesAre
  <2>2. x[d] = y[src[j]]
    BY <1>3, <1>7 DEF WroteTo
  <2> HIDE DEF j, T
  <2>3. CASE ~null(j)
    <3>1. Latest(T) = j /\ T # {}
      BY <1>4, <2>1, <2>3
    <3>2. k = Cat!Code(e, v(j))
      BY <3>1
    <3> HIDE DEF k
    <3>3. k \in Nat /\ <<k, x[d]>> \in R
      BY <1>1, <2>1, <2>2, <2>3, <3>2
    <3> QED BY <3>3 DEF k, T, R, v
  <2>4. CASE null(j)
    <3>1. x[d] = <<>>
      BY <1>2, <2>1, <2>2, <2>4
    <3>2. k \in Nat
      <4>1. CASE T = {}
        BY <1>6, <4>1
      <4>2. CASE T # {}
        <5>1. T \subseteq 1..2
          BY <1>4 DEF Writes
        <5>2. Latest(T) \in T
          BY <4>2, <5>1, LatestIs
        <5> DEFINE i == Latest(T)
        <5>3. i \in 1..2 /\ ~null(i) /\ k = Cat!Code(e, v(i))
          BY <1>4, <4>2, <5>1, <5>2
        <5> HIDE DEF i, k
        <5> QED BY <1>1, <5>3
      <4> QED BY <4>1, <4>2
    <3> HIDE DEF k
    <3>3. k \in Nat /\ <<k, x[d]>> \in R
      BY <1>5, <3>1, <3>2
    <3> QED BY <3>3 DEF k, T, R, v
  <2> QED BY <2>3, <2>4
<1>8. CASE ~(dst[2] = d \/ dst[1] = d)
  <2>1. T = {}
    BY <1>4, <1>8 DEF Writes
  <2>2. k = a.data[d] /\ x[d] = w[d]
    BY <1>3, <1>8, <2>1
  <2> HIDE DEF k
  <2>3. k \in Nat /\ <<k, x[d]>> \in R
    BY <1>6, <2>2
  <2> QED BY <2>3 DEF k, T, R, v
<1> QED BY <1>7, <1>8

(* scatter of categorical arrays, with the dictionary kept or extended,    *)
(* puts the other's rows at the places.                                    *)
LEMMA CatScatter ==
  ASSUME NEW a, NEW w, CatKept(a, w), a.masked => Len(a.mask) >= Len(w),
         NEW o, NEW y, CatKept(o, y), o.unit = a.unit, o.masked => Len(o.mask) >= Len(y),
         NEW dst \in [1..2 -> 1..Len(w)], NEW src \in [1..2 -> 1..Len(y)],
         NEW x \in Seq(WantRow), AsPicked(x, w, y, dst, src)
  PROVE  LET c == Cat!ScatterCat(a, dst, o, src) IN Like(c, a) /\ CatKept(c, x)
<1> DEFINE n == Len(w)
           hit == {dst[i] : i \in DOMAIN dst}
           same == Cat!IsPrefix(o.dict, a.dict)
           rows == [i \in DOMAIN dst |-> IF Cat!IsNull(o, src[i]) THEN <<>> ELSE <<o.dict[o.data[src[i]] + 1]>>]
           e == IF same THEN a.dict ELSE Cat!InternedRows(a.dict, rows)
           code(d) == IF same /\ d \in hit THEN o.data[src[Latest(Writes(dst, d))]]
                      ELSE IF ~same /\ ValidWrites(o, dst, src, d) # {}
                           THEN Cat!Code(e, o.dict[o.data[src[Latest(ValidWrites(o, dst, src, d))]] + 1])
                           ELSE a.data[d]
           f == [d \in DOMAIN a.data |-> code(d)]
           b == Cat!Codes(a, f, e)
           m == Fixed!MaskOr(a, n)
           bits == [d \in DOMAIN m |-> IF d \in hit THEN ~Fixed!IsNull(o, src[Latest(Writes(dst, d))]) ELSE m[d]]
           c == IF o.masked \/ a.masked THEN Fixed!Masked(b, bits) ELSE b
           R == Coded(a.unit, e)
<1>0. /\ Frame(a, w) /\ Fields(a) /\ a.unit \in Nat /\ a.data \in Seq(Nat) /\ w \in Seq(WantRow) /\ n \in Nat
      /\ Len(a.data) = n /\ Cat!Length(a) = n /\ "dict" \in DOMAIN a /\ a.dict \in Dicts
  BY CatOf
<1>1. o.data \in Seq(Nat) /\ Len(o.data) = Len(y) /\ Nulls(o.masked, o.mask, y) /\ o.dict \in Dicts
  BY CatOf
<1>2. Cat!ScatterCat(a, dst, o, src) = c
  BY <1>0, CatSame DEF Cat!ScatterCat, Latest, Writes, ValidWrites
<1>3. /\ e \in Dicts /\ Longer(e, a.dict)
      /\ ~same => Reached(e, o, y, src)
  <2>1. CASE same
    BY <1>0, <2>1, LongerSame
  <2>2. CASE ~same
    <3> DEFINE g == Cat!InternedRows(a.dict, rows)
    <3>1. e = g
      BY <2>2
    <3>3. Len(rows) = 2 /\ \A i \in 1..2 : rows[i] = IF Cat!IsNull(o, src[i]) THEN <<>> ELSE <<o.dict[o.data[src[i]] + 1]>>
      <4>1. DOMAIN dst = 1..2
        OBVIOUS
      <4> QED BY <4>1
    <3> HIDE DEF rows, same, code, hit
    <3>2. g \in Dicts /\ Longer(g, a.dict) /\ Reached(g, o, y, src)
      BY <3>3, ScatterInterns
    <3> HIDE DEF g, e, rows
    <3> QED BY <3>1, <3>2
  <2> QED BY <2>1, <2>2
<1> HIDE DEF e, rows
<1>4. ASSUME NEW d \in 1..n PROVE code(d) \in Nat /\ <<code(d), x[d]>> \in R
  <2>1. CASE same
    <3>0. d \in hit <=> (dst[2] = d \/ dst[1] = d)
      <4>1. DOMAIN dst = 1..2
        OBVIOUS
      <4> QED BY <4>1
    <3> DEFINE k == IF d \in hit THEN o.data[src[Latest(Writes(dst, d))]] ELSE a.data[d]
    <3>2. code(d) = k
      BY <2>1
    <3> HIDE DEF code, hit, R
    <3>1. k \in Nat /\ <<k, x[d]>> \in Coded(a.unit, a.dict)
      BY <2>1, <3>0, ScatterCodesSame
    <3>3. e = a.dict
      BY <2>1 DEF e
    <3> HIDE DEF k, code, R
    <3> QED BY <3>1, <3>2, <3>3 DEF R
  <2>2. CASE ~same
    <3> DEFINE T == ValidWrites(o, dst, src, d)
               k == IF T # {} THEN Cat!Code(e, o.dict[o.data[src[Latest(T)]] + 1]) ELSE a.data[d]
    <3>0. Reached(e, o, y, src)
      BY <1>3, <2>2
    <3>2. code(d) = k
      BY <2>2
    <3> HIDE DEF code, hit, same, R
    <3>1. k \in Nat /\ <<k, x[d]>> \in Coded(a.unit, e)
      <4>1. e \in Dicts /\ Longer(e, a.dict)
        BY <1>3
      <4> QED BY <3>0, <4>1, ScatterCodesNew
    <3> HIDE DEF k, code
    <3> QED BY <3>1, <3>2 DEF R
  <2> QED BY <2>1, <2>2
<1> HIDE DEF code, R, hit, same
<1>5. f \in Seq(Nat) /\ Len(f) = n /\ Pairs(R, f, x)
  <2>1. DOMAIN a.data = 1..n
    BY <1>0
  <2>2. f = [d \in 1..n |-> code(d)]
    BY <2>1
  <2>3. Len(x) = n
    BY DEF AsPicked
  <2>4. f \in Seq(Nat) /\ Len(f) = n
    <3>1. \A d \in 1..n : code(d) \in Nat
      BY <1>4
    <3> DEFINE g == [d \in 1..n |-> code(d)]
    <3>2. g \in Seq(Nat) /\ Len(g) = n
      <4> HIDE DEF n
      <4> QED BY <1>0, <3>1
    <3> QED BY <2>2, <3>2
  <2> HIDE DEF f
  <2>5. \A d \in 1..n : <<f[d], x[d]>> \in R
    BY <1>4, <2>2
  <2> HIDE DEF n
  <2> QED BY <1>0, <2>3, <2>4, <2>5 DEF Pairs
<1> HIDE DEF f
<1>6. Put(b, a, f) /\ b.dict = e
  BY <1>0, CodesPut
<1>7. Moved(b, a)
  BY <1>6 DEF Put
<1> HIDE DEF b
<1>8. Turned(c, b, a, x)
  BY <1>0, <1>1, <1>7, ScatterMarks DEF hit
<1> HIDE DEF c
<1>9. Kept(Nat, R, c, x)
  <2>1. Len(x) = n
    BY DEF AsPicked
  <2>2. f \in Seq(Nat) /\ Len(f) = Len(x) /\ Pairs(R, f, x)
    BY <1>5, <2>1
  <2> HIDE DEF n
  <2> QED BY <1>0, <1>6, <1>8, <2>2, KeptMade
<1>10. Like(c, a) /\ CatKept(c, x)
  BY <1>0, <1>3, <1>6, <1>8, <1>9, CatMade DEF R
<1> QED BY <1>2, <1>10

(* The cells of a text column and the codes of a dictionary for them.      *)
TextCells(a, n) == [i \in 1..n |-> TextCell(a, i)]
CodesFor(e, rows, n) == [i \in 1..n |-> IF rows[i] = <<>> THEN 0 ELSE Cat!Code(e, rows[i][1])]

(* A text column as codes. *)
LEMMA TextToCodes ==
  ASSUME NEW a, NEW w, TextKept(a, w), a.masked => Len(a.mask) >= Len(w),
         NEW rows, rows = TextCells(a, Len(w)), NEW e, e = Cat!InternedRows(<<>>, rows),
         NEW d, d = CodesFor(e, rows, Len(w)),
         NEW c, c = [kind |-> "categorical", unit |-> a.unit, masked |-> a.masked, mask |-> a.mask, dict |-> e, data |-> d]
  PROVE  CatKept(c, w)
<1> DEFINE n == Len(w)
<1>0. /\ Frame(a, w) /\ Fields(a) /\ a.unit \in Nat /\ w \in Seq(WantRow) /\ n \in Nat /\ Nulls(a.masked, a.mask, w)
      /\ Len(rows) = n /\ \A i \in 1..n : rows[i] = TextCell(a, i)
  BY TextOf DEF TextCells
<1>1. \A i \in 1..n : CellFits(a.unit, rows[i], w[i])
  BY <1>0, TextCellFits
<1>2. e \in Dicts /\ d \in Seq(Nat) /\ Len(d) = n /\ Pairs(Coded(a.unit, e), d, w)
  <2> DEFINE f == Cat!InternedRows(<<>>, rows)
             g == [i \in 1..n |-> IF rows[i] = <<>> THEN 0 ELSE Cat!Code(f, rows[i][1])]
  <2>1. f \in Dicts /\ g \in Seq(Nat) /\ Len(g) = n /\ Pairs(Coded(a.unit, f), g, w)
    <3>1. n = Len(w) /\ Len(rows) = Len(w) /\ \A i \in 1..Len(w) : CellFits(a.unit, rows[i], w[i])
      BY <1>0, <1>1
    <3> HIDE DEF n
    <3> QED BY ONLY <1>0, <3>1, CodesMade
  <2>2. e = f /\ d = g
    BY DEF CodesFor
  <2> HIDE DEF f, g
  <2> QED BY <2>1, <2>2
<1>3. /\ Fields(c) /\ "dict" \in DOMAIN c /\ c.unit = a.unit /\ c.masked = a.masked /\ c.mask = a.mask
      /\ c.dict = e /\ c.data = d /\ {"masked", "mask"} \subseteq DOMAIN c
  BY DEF Fields
<1> HIDE DEF n
<1>4. Frame(c, w)
  BY <1>0, <1>3 DEF Frame, Marks
<1> QED BY <1>2, <1>3, <1>4 DEF CatKept, Kept, n

(* A categorical column as text. *)
LEMMA CodesToText ==
  ASSUME NEW a, NEW w, CatKept(a, w), a.masked => Len(a.mask) >= Len(w),
         NEW texts, texts = [i \in 1..Len(w) |-> IF Cat!IsNull(a, i) THEN <<>> ELSE Cat!Value(a, i)[2]],
         NEW c, c = [kind |-> "text", unit |-> a.unit, masked |-> a.masked, mask |-> a.mask,
                     data |-> Text!FlattenSeq(texts), offsets |-> << 0 >> \o Text!EndsFrom(0, texts)]
  PROVE  TextKept(c, w)
<1> DEFINE n == Len(w)
           t == [i \in 1..n |-> CatCell(a, i)]
           vs == CellTexts(n, t)
<1>0. Frame(a, w) /\ Fields(a) /\ a.unit \in Nat /\ w \in Seq(WantRow) /\ n \in Nat /\ Nulls(a.masked, a.mask, w)
  BY CatOf
<1>1. \A i \in 1..n : t[i] = CatCell(a, i) /\ CellFits(a.unit, t[i], w[i])
  BY <1>0, CatCellFits
<1>2. texts = vs
  <2>1. ASSUME NEW i \in 1..n
        PROVE  (IF Cat!IsNull(a, i) THEN <<>> ELSE Cat!Value(a, i)[2]) = IF t[i] = <<>> THEN <<>> ELSE t[i][1]
    <3>1. t[i] = IF Cat!IsNull(a, i) THEN <<>> ELSE <<Cat!Value(a, i)[2]>>
      BY <1>1 DEF CatCell
    <3> QED BY <3>1
  <2> HIDE DEF t
  <2> QED BY <2>1 DEF CellTexts
<1>3. vs \in Seq(Seq(Byte)) /\ Len(vs) = n /\ Pairs(Is(a.unit), vs, w)
  <2>1. n = Len(w) /\ \A i \in 1..Len(w) : CellFits(a.unit, t[i], w[i])
    BY <1>1
  <2> HIDE DEF t, n
  <2>2. vs \in Seq(Seq(Byte))
    BY <1>0, <2>1, CellsMade
  <2>3. Len(vs) = n
    BY <1>0 DEF CellTexts
  <2>4. Pairs(Is(a.unit), vs, w)
    BY <1>0, <2>1, CellsMade
  <2> QED BY <2>2, <2>3, <2>4
<1> HIDE DEF vs, n
<1> DEFINE g == Text!FlattenSeq(vs)
           q == <<0>> \o Text!EndsFrom(0, vs)
<1>4. Laid(g, q, vs)
  BY <1>3, LaidFlat
<1>5. /\ Fields(c) /\ "offsets" \in DOMAIN c /\ c.unit = a.unit /\ c.masked = a.masked /\ c.mask = a.mask
      /\ c.offsets = q /\ c.data = g /\ {"masked", "mask"} \subseteq DOMAIN c
  BY <1>2 DEF Fields
<1> HIDE DEF g, q
<1>6. Frame(c, w)
  BY <1>0, <1>5 DEF Frame, Marks
<1> QED BY <1>3, <1>4, <1>5, <1>6 DEF TextKept, n

-----------------------------------------------------------------------------
(* Arrays of any kind                                                      *)

(* An array of any kind that holds the rows w. *)
KeptAs(a, w) ==
  /\ a.kind = "boolean" => BoolKept(a, w)
  /\ a.kind = "text" => TextKept(a, w)
  /\ a.kind = "categorical" => CatKept(a, w)
  /\ a.kind \notin {"boolean", "text", "categorical"} => FixedKept(a, w)
Kinded(a) ==
  /\ a.kind \in AllKinds /\ DOMAIN a = FieldsOf(a.kind)
  /\ a.unit # 0 => a.kind \in {"decimal", "datetime"}
FixedKind(a) == a.kind \notin {"boolean", "text", "categorical"}

(* Pick takes the result of the array's kind.                              *)
LEMMA PickIs ==
  ASSUME NEW a, NEW f, NEW b, NEW t, NEW c
  PROVE  /\ a.kind = "boolean" => Pick(a, f, b, t, c) = b
         /\ a.kind = "text" => Pick(a, f, b, t, c) = t
         /\ a.kind = "categorical" => Pick(a, f, b, t, c) = c
         /\ FixedKind(a) => Pick(a, f, b, t, c) = f
BY DEF Pick, FixedKind

(* Dispatch through the collections takes the result of the array's kind.  *)
LEMMA CollectionIs ==
  ASSUME NEW a, NEW f, NEW b, NEW t, NEW c
  PROVE  /\ a.kind = "boolean" => InCollection(a, f, OfText(a, t, c), f, b) = b
         /\ a.kind = "text" => InCollection(a, f, OfText(a, t, c), f, b) = t
         /\ a.kind = "categorical" => InCollection(a, f, OfText(a, t, c), f, b) = c
         /\ FixedKind(a) => InCollection(a, f, OfText(a, t, c), f, b) = f
BY DEF InCollection, OfText, FixedKind

(* There is no other kind.                                                 *)
LEMMA KindIs ==
  ASSUME NEW a
  PROVE  a.kind = "boolean" \/ a.kind = "text" \/ a.kind = "categorical" \/ FixedKind(a)
BY DEF FixedKind

(* What is known of an array of any kind that keeps the rows w.            *)
LEMMA KeptOfKind ==
  ASSUME NEW a, NEW w, KeptAs(a, w)
  PROVE  /\ Frame(a, w) /\ Fields(a) /\ a.unit \in Nat /\ a.masked \in BOOLEAN /\ a.mask \in Seq(Bits)
         /\ w \in Seq(WantRow) /\ Len(w) \in Nat /\ Nulls(a.masked, a.mask, w) /\ Length(a) = Len(w)
<1>1. CASE a.kind = "boolean"
  <2>1. BoolKept(a, w)
    BY <1>1 DEF KeptAs
  <2>2. Length(a) = a.len
    BY <1>1, PickIs DEF Length, Bool!Length
  <2>3. Frame(a, w) /\ a.len = Len(w)
    BY <2>1 DEF BoolKept
  <2> QED BY <2>2, <2>3, MarksOf DEF Frame
<1>2. CASE a.kind = "text"
  <2>1. TextKept(a, w)
    BY <1>2 DEF KeptAs
  <2>2. Length(a) = Text!Length(a)
    BY <1>2, PickIs DEF Length
  <2> QED BY <2>1, <2>2, TextOf
<1>3. CASE a.kind = "categorical"
  <2>1. CatKept(a, w)
    BY <1>3 DEF KeptAs
  <2>2. Length(a) = Cat!Length(a)
    BY <1>3, PickIs DEF Length
  <2> QED BY <2>1, <2>2, CatOf
<1>4. CASE FixedKind(a)
  <2>1. FixedKept(a, w)
    BY <1>4 DEF KeptAs, FixedKind
  <2>2. Length(a) = Len(a.data)
    BY <1>4, PickIs DEF Length, Fixed!Length
  <2>3. Frame(a, w) /\ Len(a.data) = Len(w)
    BY <2>1, FixedOf
  <2> QED BY <2>2, <2>3, MarksOf DEF Frame
<1> QED BY <1>1, <1>2, <1>3, <1>4, KindIs

(* An array whose mask the edits may rely on has a whole mask, which       *)
(* covers its rows.                                                        *)
LEMMA WholeIs ==
  ASSUME NEW a, NEW w, KeptAs(a, w), Whole(a)
  PROVE  WholeAt(a, w) /\ (a.masked => Len(a.mask) >= Len(w))
<1>1. Length(a) = Len(w)
  BY KeptOfKind
<1> QED BY <1>1 DEF Whole, Covered, WholeAt, WholeTo, Yes

(* The rows that are read are the ones that are held. *)
LEMMA RowsAre ==
  ASSUME NEW a, NEW w, KeptAs(a, w), Covered(a)
  PROVE  Rows(a) = w
<1>0. /\ a.unit \in Nat /\ w \in Seq(WantRow) /\ Len(w) \in Nat /\ Nulls(a.masked, a.mask, w) /\ Length(a) = Len(w)
      /\ (a.masked => Len(a.mask) >= Len(w))
  BY KeptOfKind DEF Covered
<1>1. ASSUME NEW i \in 1..Len(w) PROVE Row(a, i) = w[i]
  <2>1. Fixed!IsNull(a, i) <=> w[i] = <<>>
    BY <1>0, NullIs
  <2>2. w[i] # <<>> => w[i] = <<Pick(a, Fixed!Value(a, i), Bool!Value(a, i), Text!Value(a, i), Cat!Value(a, i))>>
    <3>1. CASE a.kind = "boolean"
      <4>1. Pairs(Is(a.unit), a.data, w)
        BY <3>1 DEF KeptAs, BoolKept
      <4>2. <<a.data[i], w[i]>> \in Is(a.unit)
        BY <4>1 DEF Pairs
      <4>3. w[i] # <<>> => w[i] = << <<a.unit, a.data[i]>> >>
        BY <4>2 DEF Is
      <4> QED BY <3>1, <4>3, PickIs DEF Bool!Value
    <3>2. CASE a.kind = "text"
      <4>1. TextKept(a, w)
        BY <3>2 DEF KeptAs
      <4>2. Text!Value(a, i) = <<a.unit, Text!Value(a, i)[2]>> /\ (w[i] # <<>> => w[i] = Rowed(a.unit, Text!Value(a, i)[2]))
        BY <1>0, <4>1, TextRead
      <4>3. Pick(a, Fixed!Value(a, i), Bool!Value(a, i), Text!Value(a, i), Cat!Value(a, i)) = Text!Value(a, i)
        BY <3>2, PickIs
      <4> DEFINE v == Text!Value(a, i)
      <4> HIDE DEF v
      <4> QED BY <4>2, <4>3 DEF Rowed, v
    <3>3. CASE a.kind = "categorical"
      <4>1. CatKept(a, w)
        BY <3>3 DEF KeptAs
      <4>2. Cat!Value(a, i) = <<a.unit, Cat!Value(a, i)[2]>> /\ (w[i] # <<>> => w[i] = Rowed(a.unit, Cat!Value(a, i)[2]))
        BY <1>0, <4>1, CatRead
      <4>3. Pick(a, Fixed!Value(a, i), Bool!Value(a, i), Text!Value(a, i), Cat!Value(a, i)) = Cat!Value(a, i)
        BY <3>3, PickIs
      <4> QED BY <4>2, <4>3 DEF Rowed
    <3>4. CASE FixedKind(a)
      <4>1. Pairs(Is(a.unit), a.data, w)
        BY <3>4, FixedOf DEF KeptAs, FixedKind
      <4>2. <<a.data[i], w[i]>> \in Is(a.unit)
        BY <4>1 DEF Pairs
      <4>3. w[i] # <<>> => w[i] = << <<a.unit, a.data[i]>> >>
        BY <4>2 DEF Is
      <4> QED BY <3>4, <4>3, PickIs DEF Fixed!Value
    <3> QED BY <3>1, <3>2, <3>3, <3>4, KindIs
  <2> QED BY <2>1, <2>2 DEF Row
<1>2. Rows(a) = [i \in 1..Len(w) |-> w[i]]
  BY <1>0, <1>1 DEF Rows
<1> QED BY <1>0, <1>2

(* Every array that holds rows is laid out as readers take it to be. *)
LEMMA SoundIs ==
  ASSUME NEW a, NEW w, KeptAs(a, w)
  PROVE  Sound(a)
<1>1. ASSUME a.kind = "text"
      PROVE  /\ a.offsets[1] = 0
             /\ \A i \in 1..Length(a) : Text!Start(a, i) <= Text!End(a, i)
             /\ Text!End(a, Length(a)) = Len(a.data)
  <2>1. TextKept(a, w)
    BY <1>1 DEF KeptAs
  <2>2. PICK c : Laid(a.data, a.offsets, c) /\ Len(c) = Len(w)
    BY <2>1 DEF TextKept
  <2>3. Length(a) = Len(w) /\ Len(w) \in Nat
    BY KeptOfKind
  <2>4. /\ Len(a.offsets) = Len(w) + 1 /\ a.offsets[1] = 0 /\ a.offsets[Len(a.offsets)] = Len(a.data)
        /\ \A i, j \in 1..Len(a.offsets) : i <= j => a.offsets[i] <= a.offsets[j]
    BY <2>2 DEF Laid
  <2>5. ASSUME NEW i \in 1..Length(a) PROVE a.offsets[i] <= a.offsets[i + 1]
    <3>1. i \in 1..Len(a.offsets) /\ i + 1 \in 1..Len(a.offsets) /\ i <= i + 1
      BY <2>3, <2>4
    <3> QED BY <2>4, <3>1
  <2>6. a.offsets[Length(a) + 1] = Len(a.data)
    BY <2>3, <2>4
  <2> QED BY <2>4, <2>5, <2>6 DEF Text!Start, Text!End
<1>2. ASSUME a.kind = "categorical"
      PROVE  /\ \A i \in 1..Length(a) : Cat!IsNull(a, i) \/ a.data[i] < Len(a.dict)
             /\ \A i, j \in DOMAIN a.dict : i # j => a.dict[i] # a.dict[j]
  <2>1. CatKept(a, w)
    BY <1>2 DEF KeptAs
  <2>2. /\ Pairs(Coded(a.unit, a.dict), a.data, w) /\ Nulls(a.masked, a.mask, w) /\ a.dict \in Dicts
        /\ w \in Seq(WantRow) /\ Len(w) \in Nat /\ a.masked \in BOOLEAN /\ a.mask \in Seq(Bits)
    BY <2>1, CatOf
  <2>3. Length(a) = Len(w)
    BY KeptOfKind
  <2>4. ASSUME NEW i \in 1..Len(w), ~Fixed!IsNull(a, i) PROVE a.data[i] < Len(a.dict)
    <3>1. ~(a.masked /\ ~(i <= Len(a.mask) /\ a.mask[i]))
      BY <2>4 DEF Fixed!IsNull
    <3>2. ~(a.masked /\ i <= Len(a.mask) /\ a.mask[i] # Yes)
      BY <3>1 DEF Yes
    <3>3. w[i] # <<>>
      BY <2>2, <3>2 DEF Nulls
    <3>4. <<a.data[i], w[i]>> \in Coded(a.unit, a.dict)
      BY <2>2 DEF Pairs
    <3> QED BY <3>3, <3>4 DEF Coded
  <2>5. \A i \in 1..Length(a) : Cat!IsNull(a, i) \/ a.data[i] < Len(a.dict)
    BY <2>3, <2>4, CatSame
  <2>6. DOMAIN a.dict = 1..Len(a.dict) /\ \A i, j \in 1..Len(a.dict) : i # j => a.dict[i] # a.dict[j]
    BY <2>2, DictIs
  <2> QED BY <2>5, <2>6
<1> QED BY <1>1, <1>2 DEF Sound

(* Every array that holds rows has the fields and the types of its kind.   *)
LEMMA TypedIs ==
  ASSUME NEW a, NEW w, KeptAs(a, w), Kinded(a)
  PROVE  Typed(a)
<1>1. a.unit \in Nat /\ a.masked \in BOOLEAN /\ a.mask \in Seq(BOOLEAN)
  BY KeptOfKind DEF Bits
<1>2. a.kind = "boolean" => a.data \in Seq(BOOLEAN) /\ a.len \in Nat
  BY BoolOf DEF KeptAs, Bits
<1>3. a.kind = "text" => a.data \in Seq(Byte) /\ a.offsets \in Seq(Nat) /\ a.offsets # <<>>
  <2> SUFFICES ASSUME a.kind = "text" PROVE a.data \in Seq(Byte) /\ a.offsets \in Seq(Nat) /\ a.offsets # <<>>
    OBVIOUS
  <2>1. a.data \in Seq(Byte) /\ a.offsets \in Seq(Nat) /\ Len(a.offsets) = Len(w) + 1 /\ Len(w) \in Nat
    BY TextOf DEF KeptAs
  <2> QED BY <2>1
<1>4. a.kind = "categorical" => a.data \in Seq(Nat) /\ a.dict \in Seq(Seq(Byte))
  BY CatOf, DictIs DEF KeptAs
<1>5. FixedKind(a) => a.data \in Seq(Int)
  BY FixedOf DEF KeptAs, FixedKind
<1> QED BY <1>1, <1>2, <1>3, <1>4, <1>5 DEF Typed, Kinded, FixedKind

(* Offsets none of which is below the one before are in order.             *)
LEMMA Rising ==
  ASSUME NEW p \in Seq(Nat), \A i \in 1..Len(p) : i + 1 \in 1..Len(p) => p[i] <= p[i + 1]
  PROVE  \A i, j \in 1..Len(p) : i <= j => p[i] <= p[j]
<1> DEFINE n == Len(p)
           T == {k \in Nat : \A i \in 1..n : i + k \in 1..n => p[i] <= p[i + k]}
<1>0. n \in Nat /\ \A i \in 1..n : p[i] \in Nat
  OBVIOUS
<1> HIDE DEF n
<1>1. 0 \in T
  <2>1. \A i \in 1..n : i + 0 = i
    BY <1>0
  <2> QED BY <1>0, <2>1
<1>2. \A k \in Nat : k \in T => k + 1 \in T
  <2> TAKE k \in Nat
  <2> HAVE k \in T
  <2>1. ASSUME NEW i \in 1..n, i + (k + 1) \in 1..n PROVE p[i] <= p[i + (k + 1)]
    <3>1. i + k \in 1..n /\ (i + k) + 1 = i + (k + 1)
      BY <1>0, <2>1
    <3> DEFINE j == i + k
               a == p[i]
               b == p[j]
               c == p[j + 1]
    <3>2. a <= b
      BY <3>1
    <3>3. b <= c
      <4>1. j \in 1..n /\ j + 1 \in 1..n
        BY <2>1, <3>1
      <4> HIDE DEF j
      <4> QED BY <4>1 DEF n
    <3>4. a \in Nat /\ b \in Nat /\ c \in Nat
      BY <1>0, <2>1, <3>1
    <3>5. i + (k + 1) = j + 1
      BY <3>1
    <3> HIDE DEF a, b, c
    <3>6. a <= c
      BY <3>2, <3>3, <3>4
    <3> QED BY <3>5, <3>6 DEF a, c
  <2> QED BY <2>1
<1> HIDE DEF T
<1>3. \A k \in Nat : k \in T
  BY <1>1, <1>2, Induction
<1>4. ASSUME NEW i \in 1..n, NEW j \in 1..n, i <= j PROVE p[i] <= p[j]
  <2>1. j - i \in Nat /\ i + (j - i) = j
    BY <1>0, <1>4
  <2> DEFINE k == j - i
  <2>2. k \in T
    BY <1>3, <2>1
  <2>3. i + k \in 1..n => p[i] <= p[i + k]
    BY <2>2 DEF T
  <2> QED BY <2>1, <2>3
<1> QED BY <1>4 DEF n

(* The strings between offsets.                                            *)
PiecesOf(d, p, n) == [i \in 1..n |-> SubSeq(d, p[i] + 1, p[i + 1])]

(* The strings of an array that is laid out as readers take it to be. *)
LEMMA LaidSound ==
  ASSUME NEW d \in Seq(Byte), NEW p \in Seq(Nat), NEW n \in Nat, Len(p) = n + 1, p[1] = 0, p[n + 1] = Len(d),
         \A i \in 1..n : p[i] <= p[i + 1], NEW c, c = PiecesOf(d, p, n)
  PROVE  Laid(d, p, c) /\ Len(c) = n
<1>1. \A i \in 1..Len(p) : i + 1 \in 1..Len(p) => p[i] <= p[i + 1]
  <2> TAKE i \in 1..Len(p)
  <2> HAVE i + 1 \in 1..Len(p)
  <2>1. i \in 1..n
    OBVIOUS
  <2> QED BY <2>1
<1>2. \A i, j \in 1..Len(p) : i <= j => p[i] <= p[j]
  BY <1>1, Rising
<1>3. ASSUME NEW i \in 1..n PROVE SubSeq(d, p[i] + 1, p[i + 1]) \in Seq(Byte)
  <2>1. i \in 1..Len(p) /\ i + 1 \in 1..Len(p) /\ n + 1 \in 1..Len(p) /\ i + 1 <= n + 1
    OBVIOUS
  <2> DEFINE u == p[i]
             v == p[i + 1]
  <2>2. u \in Nat /\ v \in Nat
    BY <2>1, ItemsIn
  <2>3. v <= Len(d)
    BY <1>2, <2>1
  <2>4. Len(d) \in Nat
    OBVIOUS
  <2> HIDE DEF u, v
  <2>5. SubSeq(d, u + 1, v) \in Seq(Byte)
    BY <2>2, <2>3, <2>4
  <2> QED BY <2>5 DEF u, v
<1>4. c \in Seq(Seq(Byte)) /\ Len(c) = n
  <2> DEFINE S == Seq(Byte)
             f(i) == SubSeq(d, p[i] + 1, p[i + 1])
  <2>1. \A i \in 1..n : f(i) \in S
    BY <1>3
  <2>2. c = [i \in 1..n |-> f(i)]
    BY DEF PiecesOf
  <2> HIDE DEF S, f
  <2>3. c \in Seq(S) /\ Len(c) = n
    BY ONLY n \in Nat, <2>1, <2>2
  <2> QED BY <2>3 DEF S
<1> QED BY <1>2, <1>4 DEF Laid, PiecesOf

(* The frame of an array that is not a column under test. *)
LEMMA OtherFrame ==
  ASSUME NEW o, Typed(o), o.masked => Len(o.mask) >= Length(o), Length(o) \in Nat, NEW v,
         \A i \in 1..Length(o) : v[i] \in Cell,
         \A i \in 1..Length(o) : ~Fixed!IsNull(o, i) => Row(o, i) = Rowed(o.unit, v[i])
  PROVE  /\ Frame(o, Rows(o)) /\ Rows(o) \in Seq(WantRow) /\ Len(Rows(o)) = Length(o)
         /\ \A i \in 1..Length(o) : <<v[i], Rows(o)[i]>> \in Is(o.unit) /\ (Rows(o)[i] = <<>> <=> Fixed!IsNull(o, i))
<1> DEFINE n == Length(o)
           y == Rows(o)
           u == o.unit
<1>0. /\ u \in Nat /\ o.masked \in BOOLEAN /\ o.mask \in Seq(BOOLEAN) /\ DOMAIN o = FieldsOf(o.kind) /\ n \in Nat
      /\ (o.masked => Len(o.mask) >= n)
  BY DEF Typed
<1>1. Len(y) = n /\ (\A i \in 1..n : y[i] = Row(o, i)) /\ y = [i \in 1..n |-> y[i]]
  BY <1>0 DEF Rows
<1>2. ASSUME NEW i \in 1..n
      PROVE  y[i] \in WantRow /\ <<v[i], y[i]>> \in Is(u) /\ (y[i] = <<>> <=> Fixed!IsNull(o, i))
  <2> DEFINE r == Rowed(u, v[i])
  <2>1. r \in WantRow /\ r # <<>> /\ <<v[i], r>> \in Is(u) /\ <<v[i], <<>>>> \in Is(u) /\ <<>> \in WantRow
    BY <1>0, RowedIs, IsIs
  <2>2. y[i] = IF Fixed!IsNull(o, i) THEN <<>> ELSE r
    BY <1>1 DEF Row
  <2> HIDE DEF r, y
  <2> QED BY <2>1, <2>2
<1> HIDE DEF y, n, u
<1>3. y \in Seq(WantRow)
  <2>1. \A i \in 1..n : y[i] \in WantRow
    BY <1>2
  <2> HIDE DEF WantRow
  <2> QED BY ONLY <1>0, <1>1, <2>1
<1>4. Nulls(o.masked, o.mask, y)
  <2>1. ASSUME NEW i \in 1..n PROVE Fixed!IsNull(o, i) <=> (o.masked /\ i <= Len(o.mask) /\ o.mask[i] # Yes)
    <3>1. CASE o.masked
      <4>1. i <= Len(o.mask) /\ i \in 1..Len(o.mask)
        BY <1>0, <3>1
      <4>2. o.mask[i] \in BOOLEAN
        BY <1>0, <4>1
      <4> DEFINE b == o.mask[i]
                 g == o.masked
                 q == i <= Len(o.mask)
      <4>3. b \in BOOLEAN /\ g = TRUE /\ q = TRUE
        BY <1>0, <3>1, <4>1, <4>2
      <4> HIDE DEF b, g, q
      <4>4. (g /\ ~(q /\ b)) <=> (g /\ q /\ b # TRUE)
        BY <4>3
      <4> QED BY <4>4 DEF Fixed!IsNull, Yes, b, g, q
    <3>2. CASE ~o.masked
      BY <3>2 DEF Fixed!IsNull
    <3> QED BY <3>1, <3>2
  <2> QED BY <1>0, <1>1, <1>2, <1>3, <2>1 DEF Nulls, Bits
<1>5. Fields(o) /\ {"masked", "mask"} \subseteq DOMAIN o
  BY <1>0 DEF Fields, FieldsOf
<1> QED BY <1>0, <1>1, <1>2, <1>3, <1>4, <1>5 DEF Frame, Marks, y, n, u

(* A fixed-width array that is well typed and covered keeps the rows it    *)
(* reads as.                                                               *)
LEMMA OtherFixed ==
  ASSUME NEW o, Typed(o), Covered(o), FixedKind(o)
  PROVE  FixedKept(o, Rows(o))
<1>1. o.data \in Seq(Int) /\ o.unit \in Nat
  BY DEF Typed, FixedKind
<1>2. Length(o) = Len(o.data) /\ Len(o.data) \in Nat
  BY <1>1, PickIs DEF Length, Fixed!Length
<1>3. \A i \in 1..Length(o) : o.data[i] \in Cell
  BY <1>1, <1>2, ItemsIn, IntCell
<1>4. \A i \in 1..Length(o) : ~Fixed!IsNull(o, i) => Row(o, i) = Rowed(o.unit, o.data[i])
  <2> TAKE i \in 1..Length(o)
  <2>1. Pick(o, Fixed!Value(o, i), Bool!Value(o, i), Text!Value(o, i), Cat!Value(o, i)) = <<o.unit, o.data[i]>>
    BY PickIs DEF Fixed!Value
  <2> QED BY <2>1 DEF Row, Rowed
<1>5. o.masked => Len(o.mask) >= Length(o)
  BY DEF Covered
<1>6. /\ Frame(o, Rows(o)) /\ Rows(o) \in Seq(WantRow) /\ Len(Rows(o)) = Length(o)
      /\ \A i \in 1..Length(o) : <<o.data[i], Rows(o)[i]>> \in Is(o.unit)
  BY <1>2, <1>3, <1>4, <1>5, OtherFrame
<1> QED BY <1>1, <1>2, <1>6 DEF FixedKept, Kept, Pairs

(* So does a boolean array.                                                *)
LEMMA OtherBool ==
  ASSUME NEW o, Typed(o), Covered(o), o.kind = "boolean"
  PROVE  BoolKept(o, Rows(o))
<1>1. o.data \in Seq(BOOLEAN) /\ o.len \in Nat /\ o.unit \in Nat /\ "len" \in DOMAIN o
  BY DEF Typed, FieldsOf
<1>2. Length(o) = o.len
  BY PickIs DEF Length, Bool!Length
<1>3. Len(o.data) >= o.len /\ Len(o.data) \in Nat
  BY <1>1 DEF Covered
<1>4. \A i \in 1..Length(o) : o.data[i] \in Cell
  <2> TAKE i \in 1..Length(o)
  <2>1. i \in 1..Len(o.data)
    BY <1>1, <1>2, <1>3
  <2>2. o.data[i] \in BOOLEAN
    BY <1>1, <2>1, ItemsIn
  <2> QED BY <2>2, BitCell DEF Bits
<1>5. \A i \in 1..Length(o) : ~Fixed!IsNull(o, i) => Row(o, i) = Rowed(o.unit, o.data[i])
  <2> TAKE i \in 1..Length(o)
  <2>1. Pick(o, Fixed!Value(o, i), Bool!Value(o, i), Text!Value(o, i), Cat!Value(o, i)) = <<o.unit, o.data[i]>>
    BY PickIs DEF Bool!Value
  <2> QED BY <2>1 DEF Row, Rowed
<1>6. o.masked => Len(o.mask) >= Length(o)
  BY DEF Covered
<1>7. /\ Frame(o, Rows(o)) /\ Rows(o) \in Seq(WantRow) /\ Len(Rows(o)) = Length(o)
      /\ \A i \in 1..Length(o) : <<o.data[i], Rows(o)[i]>> \in Is(o.unit)
  BY <1>1, <1>2, <1>4, <1>5, <1>6, OtherFrame
<1> QED BY <1>1, <1>2, <1>3, <1>7 DEF BoolKept, Pairs, Bits

(* So does a string array that is sound.                                   *)
LEMMA OtherText ==
  ASSUME NEW o, Typed(o), Covered(o), Sound(o), o.kind = "text"
  PROVE  TextKept(o, Rows(o))
<1> DEFINE n == Length(o)
           d == o.data
           p == o.offsets
           c == PiecesOf(d, p, n)
<1>1. d \in Seq(Byte) /\ p \in Seq(Nat) /\ p # <<>> /\ o.unit \in Nat /\ "offsets" \in DOMAIN o
  BY DEF Typed, FieldsOf
<1>2. n = Len(p) - 1
  BY PickIs DEF Length, Text!Length
<1>3. n \in Nat /\ Len(p) = n + 1
  BY <1>1, <1>2
<1>4. p[1] = 0 /\ p[n + 1] = Len(d) /\ \A i \in 1..n : p[i] <= p[i + 1]
  BY DEF Sound, Text!Start, Text!End
<1> HIDE DEF n, d, p
<1>5. Laid(d, p, c) /\ Len(c) = n
  <2> HIDE DEF c
  <2>1. c = PiecesOf(d, p, n)
    BY DEF c
  <2>2. Laid(d, p, c)
    BY <1>1, <1>3, <1>4, <2>1, LaidSound
  <2>3. Len(c) = n
    BY <1>3, <2>2, LaidOf
  <2> QED BY <2>2, <2>3
<1>6. c \in Seq(Seq(Byte)) /\ \A i \in 1..n : c[i] = SubSeq(d, p[i] + 1, p[i + 1])
  BY <1>5 DEF Laid
<1> HIDE DEF c
<1>7. \A i \in 1..n : c[i] \in Seq(Byte)
  BY <1>5, <1>6, ItemsIn
<1>8. \A i \in 1..n : c[i] \in Cell
  BY <1>7, ByteCell
<1>9. \A i \in 1..n : ~Fixed!IsNull(o, i) => Row(o, i) = Rowed(o.unit, c[i])
  <2> TAKE i \in 1..n
  <2>1. Pick(o, Fixed!Value(o, i), Bool!Value(o, i), Text!Value(o, i), Cat!Value(o, i)) = Text!Value(o, i)
    BY PickIs
  <2>2. Text!Value(o, i) = <<o.unit, c[i]>>
    BY <1>6 DEF Text!Value, Text!Start, Text!End, d, p
  <2> QED BY <2>1, <2>2 DEF Row, Rowed
<1>10. o.masked => Len(o.mask) >= n
  BY DEF Covered, n
<1>11. /\ Frame(o, Rows(o)) /\ Rows(o) \in Seq(WantRow) /\ Len(Rows(o)) = n
       /\ \A i \in 1..n : <<c[i], Rows(o)[i]>> \in Is(o.unit)
  BY <1>3, <1>8, <1>9, <1>10, OtherFrame DEF n
<1>12. Len(c) = Len(Rows(o)) /\ Pairs(Is(o.unit), c, Rows(o))
  BY <1>3, <1>5, <1>11 DEF Pairs
<1> QED BY <1>1, <1>5, <1>11, <1>12 DEF TextKept, d, p

(* So does a categorical array that is sound.                              *)
LEMMA OtherCat ==
  ASSUME NEW o, Typed(o), Covered(o), Sound(o), o.kind = "categorical"
  PROVE  CatKept(o, Rows(o))
<1> DEFINE n == Length(o)
           d == o.data
           e == o.dict
           v == [i \in 1..n |-> IF d[i] < Len(e) THEN e[d[i] + 1] ELSE <<>>]
           R == Coded(o.unit, e)
<1>1. d \in Seq(Nat) /\ e \in Seq(Seq(Byte)) /\ o.unit \in Nat /\ "dict" \in DOMAIN o
  BY DEF Typed, FieldsOf
<1>2. n = Len(d) /\ n \in Nat /\ Len(e) \in Nat
  BY <1>1, PickIs DEF Length, Cat!Length
<1>3. e \in Dicts
  <2>1. \A i, j \in DOMAIN e : i # j => e[i] # e[j]
    BY DEF Sound
  <2>2. DOMAIN e = 1..Len(e)
    BY <1>1
  <2> HIDE DEF e
  <2> QED BY <1>1, <2>1, <2>2 DEF Dicts
<1>4. ASSUME NEW i \in 1..n
      PROVE  /\ d[i] \in Nat /\ v[i] \in Seq(Byte) /\ v[i] = IF d[i] < Len(e) THEN e[d[i] + 1] ELSE <<>>
             /\ Fixed!IsNull(o, i) \/ d[i] < Len(e)
  <2>1. d[i] \in Nat
    BY <1>1, <1>2, ItemsIn
  <2>2. Fixed!IsNull(o, i) \/ d[i] < Len(e)
    BY CatSame DEF Sound
  <2> DEFINE k == d[i]
  <2>3. v[i] = IF k < Len(e) THEN e[k + 1] ELSE <<>>
    OBVIOUS
  <2>4. k < Len(e) => k + 1 \in 1..Len(e)
    BY <1>2, <2>1
  <2> HIDE DEF v, k, e
  <2>5. k < Len(e) => e[k + 1] \in Seq(Byte)
    BY <1>3, <2>4, DictIs
  <2>6. <<>> \in Seq(Byte)
    OBVIOUS
  <2>7. v[i] \in Seq(Byte)
    BY <2>3, <2>5, <2>6
  <2> QED BY <2>1, <2>2, <2>3, <2>7 DEF k, e
<1> HIDE DEF v
<1>5. \A i \in 1..n : v[i] \in Cell
  BY <1>4, ByteCell
<1>6. \A i \in 1..n : ~Fixed!IsNull(o, i) => Row(o, i) = Rowed(o.unit, v[i])
  <2> TAKE i \in 1..n
  <2>1. Pick(o, Fixed!Value(o, i), Bool!Value(o, i), Text!Value(o, i), Cat!Value(o, i)) = Cat!Value(o, i)
    BY PickIs
  <2>2. Cat!Value(o, i) = <<o.unit, v[i]>>
    BY <1>4 DEF Cat!Value
  <2> QED BY <2>1, <2>2 DEF Row, Rowed
<1>7. o.masked => Len(o.mask) >= n
  BY DEF Covered
<1>8. /\ Frame(o, Rows(o)) /\ Rows(o) \in Seq(WantRow) /\ Len(Rows(o)) = n
      /\ \A i \in 1..n : <<v[i], Rows(o)[i]>> \in Is(o.unit) /\ (Rows(o)[i] = <<>> <=> Fixed!IsNull(o, i))
  BY <1>2, <1>5, <1>6, <1>7, OtherFrame
<1>9. ASSUME NEW i \in 1..n PROVE <<d[i], Rows(o)[i]>> \in R
  <2> DEFINE r == Rows(o)[i]
             k == d[i]
  <2>1. /\ k \in Nat /\ <<v[i], r>> \in Is(o.unit) /\ (r = <<>> <=> Fixed!IsNull(o, i))
        /\ (r # <<>> => k < Len(e) /\ v[i] = e[k + 1])
    BY <1>4, <1>8
  <2> HIDE DEF r, k, e
  <2>2. r \in WantRow /\ (r # <<>> => r = Rowed(o.unit, v[i]))
    BY <2>1 DEF Is, Rowed
  <2>3. <<k, r>> \in R
    <3> HIDE DEF WantRow
    <3> QED BY <2>1, <2>2 DEF Coded
  <2> QED BY <2>3 DEF r, k, e
<1> HIDE DEF R
<1>10. Pairs(R, d, Rows(o))
  BY <1>2, <1>8, <1>9 DEF Pairs
<1> QED BY <1>1, <1>2, <1>3, <1>8, <1>10 DEF CatKept, Kept, R

(* So does an array of any kind.                                           *)
LEMMA OtherKept ==
  ASSUME NEW o, Typed(o), Covered(o), Sound(o)
  PROVE  KeptAs(o, Rows(o)) /\ Kinded(o)
<1>1. Kinded(o)
  BY DEF Typed, Kinded
<1>2. o.kind = "boolean" => BoolKept(o, Rows(o))
  BY OtherBool
<1>3. o.kind = "text" => TextKept(o, Rows(o))
  BY OtherText
<1>4. o.kind = "categorical" => CatKept(o, Rows(o))
  BY OtherCat
<1>5. FixedKind(o) => FixedKept(o, Rows(o))
  BY OtherFixed
<1> QED BY <1>1, <1>2, <1>3, <1>4, <1>5 DEF KeptAs, FixedKind

(* An array of the fields, kind and unit of a that keeps the rows x.       *)
KeptLike(c, a, x) == Like(c, a) /\ KeptAs(c, x)

(* The values of a kind.                                                   *)
LEMMA CellsAre ==
  ASSUME NEW a, NEW v \in CellsOf(a.kind)
  PROVE  /\ FixedKind(a) => v \in Int
         /\ a.kind = "boolean" => v \in Bits
         /\ a.kind \in {"text", "categorical"} => v \in Seq(Byte)
BY DEF CellsOf, FixedKind, Bits

(* What holds of the results of the four kinds holds of the one that is    *)
(* picked, directly or through the collections.                            *)
LEMMA ByKind ==
  ASSUME NEW a, NEW w, KeptAs(a, w), NEW f, NEW b, NEW t, NEW g, NEW x,
         FixedKind(a) /\ FixedKept(a, w) => Like(f, a) /\ FixedKept(f, x),
         a.kind = "boolean" /\ BoolKept(a, w) => Like(b, a) /\ BoolKept(b, x),
         a.kind = "text" /\ TextKept(a, w) => Like(t, a) /\ TextKept(t, x),
         a.kind = "categorical" /\ CatKept(a, w) => Like(g, a) /\ CatKept(g, x)
  PROVE  KeptLike(Pick(a, f, b, t, g), a, x) /\ KeptLike(InCollection(a, f, OfText(a, t, g), f, b), a, x)
<1> DEFINE p == Pick(a, f, b, t, g)
           q == InCollection(a, f, OfText(a, t, g), f, b)
<1>1. CASE a.kind = "boolean"
  <2>1. p = b /\ q = b
    BY <1>1, PickIs, CollectionIs
  <2>2. Like(b, a) /\ BoolKept(b, x)
    BY <1>1 DEF KeptAs
  <2>3. b.kind = "boolean"
    BY <1>1, <2>2 DEF Like
  <2>4. KeptLike(b, a, x)
    BY <2>2, <2>3 DEF KeptLike, KeptAs
  <2> HIDE DEF p, q
  <2>5. KeptLike(p, a, x) /\ KeptLike(q, a, x)
    BY ONLY <2>1, <2>4
  <2> QED BY <2>5 DEF p, q
<1>2. CASE a.kind = "text"
  <2>1. p = t /\ q = t
    BY <1>2, PickIs, CollectionIs
  <2>2. Like(t, a) /\ TextKept(t, x)
    BY <1>2 DEF KeptAs
  <2>3. t.kind = "text"
    BY <1>2, <2>2 DEF Like
  <2>4. KeptLike(t, a, x)
    BY <2>2, <2>3 DEF KeptLike, KeptAs
  <2> HIDE DEF p, q
  <2>5. KeptLike(p, a, x) /\ KeptLike(q, a, x)
    BY ONLY <2>1, <2>4
  <2> QED BY <2>5 DEF p, q
<1>3. CASE a.kind = "categorical"
  <2>1. p = g /\ q = g
    BY <1>3, PickIs, CollectionIs
  <2>2. Like(g, a) /\ CatKept(g, x)
    BY <1>3 DEF KeptAs
  <2>3. g.kind = "categorical"
    BY <1>3, <2>2 DEF Like
  <2>4. KeptLike(g, a, x)
    BY <2>2, <2>3 DEF KeptLike, KeptAs
  <2> HIDE DEF p, q
  <2>5. KeptLike(p, a, x) /\ KeptLike(q, a, x)
    BY ONLY <2>1, <2>4
  <2> QED BY <2>5 DEF p, q
<1>4. CASE FixedKind(a)
  <2>1. p = f /\ q = f
    BY <1>4, PickIs, CollectionIs
  <2>2. Like(f, a) /\ FixedKept(f, x)
    BY <1>4 DEF KeptAs, FixedKind
  <2>3. FixedKind(f)
    BY <1>4, <2>2 DEF Like, FixedKind
  <2>4. KeptLike(f, a, x)
    BY <2>2, <2>3 DEF KeptLike, KeptAs, FixedKind
  <2> HIDE DEF p, q
  <2>5. KeptLike(p, a, x) /\ KeptLike(q, a, x)
    BY ONLY <2>1, <2>4
  <2> QED BY <2>5 DEF p, q
<1> QED BY <1>1, <1>2, <1>3, <1>4, KindIs

(* push, whatever the kind, adds the value's row.                          *)
LEMMA PushKept ==
  ASSUME NEW a, NEW w, KeptAs(a, w), WholeAt(a, w),
         NEW v \in CellsOf(a.kind)
  PROVE  KeptLike(Pick(a, Fixed!Push(a, v), Bool!Push(a, v),
                       Text!Push(a, v), Cat!Push(a, v)), a, w \o <<Rowed(a.unit, v)>>)
<1> DEFINE f == Fixed!Push(a, v)
           b == Bool!Push(a, v)
           t == Text!Push(a, v)
           g == Cat!Push(a, v)
           x == w \o <<Rowed(a.unit, v)>>
<1>0. /\ FixedKind(a) => v \in Int
      /\ a.kind = "boolean" => v \in Bits
      /\ a.kind \in {"text", "categorical"} => v \in Seq(Byte)
  BY CellsAre
<1>1. ASSUME FixedKind(a), FixedKept(a, w) PROVE Like(f, a) /\ FixedKept(f, x)
  BY <1>0, <1>1, FixedPush
<1>2. ASSUME a.kind = "boolean", BoolKept(a, w) PROVE Like(b, a) /\ BoolKept(b, x)
  BY <1>0, <1>2, BoolPush
<1>3. ASSUME a.kind = "text", TextKept(a, w) PROVE Like(t, a) /\ TextKept(t, x)
  BY <1>0, <1>3, TextPush
<1>4. ASSUME a.kind = "categorical", CatKept(a, w) PROVE Like(g, a) /\ CatKept(g, x)
  BY <1>0, <1>4, CatPush
<1> HIDE DEF f, b, t, g, x
<1>5. KeptLike(Pick(a, f, b, t, g), a, x)
  BY <1>1, <1>2, <1>3, <1>4, ByKind
<1> QED BY <1>5 DEF f, b, t, g, x

(* push_null, whatever the kind, adds a null.                              *)
LEMMA PushNullKept ==
  ASSUME NEW a, NEW w, KeptAs(a, w), WholeAt(a, w)
  PROVE  KeptLike(Pick(a, Fixed!PushNull(a), Bool!PushNull(a),
                       Text!PushNull(a), Cat!PushNull(a)), a, Append(w, <<>>))
<1> DEFINE f == Fixed!PushNull(a)
           b == Bool!PushNull(a)
           t == Text!PushNull(a)
           g == Cat!PushNull(a)
           x == Append(w, <<>>)
<1>1. ASSUME FixedKind(a), FixedKept(a, w) PROVE Like(f, a) /\ FixedKept(f, x)
  BY <1>1, FixedPushNull
<1>2. ASSUME a.kind = "boolean", BoolKept(a, w) PROVE Like(b, a) /\ BoolKept(b, x)
  BY <1>2, BoolPushNull
<1>3. ASSUME a.kind = "text", TextKept(a, w) PROVE Like(t, a) /\ TextKept(t, x)
  BY <1>3, TextPushNull
<1>4. ASSUME a.kind = "categorical", CatKept(a, w) PROVE Like(g, a) /\ CatKept(g, x)
  BY <1>4, CatPushNull
<1> HIDE DEF f, b, t, g, x
<1>5. KeptLike(Pick(a, f, b, t, g), a, x)
  BY <1>1, <1>2, <1>3, <1>4, ByKind
<1> QED BY <1>5 DEF f, b, t, g, x

(* push_nulls, whatever the kind, adds that many nulls.                    *)
LEMMA PushNullsKept ==
  ASSUME NEW a, NEW w, KeptAs(a, w), WholeAt(a, w),
         NEW k \in Nat
  PROVE  KeptLike(Pick(a, Fixed!PushNulls(a, k), Bool!PushNulls(a, k),
                       Text!PushNulls(a, k), Cat!PushNulls(a, k)), a, w \o Fixed!All(k, <<>>))
<1> DEFINE f == Fixed!PushNulls(a, k)
           b == Bool!PushNulls(a, k)
           t == Text!PushNulls(a, k)
           g == Cat!PushNulls(a, k)
           x == w \o Fixed!All(k, <<>>)
<1>1. ASSUME FixedKind(a), FixedKept(a, w) PROVE Like(f, a) /\ FixedKept(f, x)
  BY <1>1, FixedPushNulls
<1>2. ASSUME a.kind = "boolean", BoolKept(a, w) PROVE Like(b, a) /\ BoolKept(b, x)
  BY <1>2, BoolPushNulls
<1>3. ASSUME a.kind = "text", TextKept(a, w) PROVE Like(t, a) /\ TextKept(t, x)
  BY <1>3, TextPushNulls
<1>4. ASSUME a.kind = "categorical", CatKept(a, w) PROVE Like(g, a) /\ CatKept(g, x)
  BY <1>4, CatPushNulls
<1> HIDE DEF f, b, t, g, x
<1>5. KeptLike(Pick(a, f, b, t, g), a, x)
  BY <1>1, <1>2, <1>3, <1>4, ByKind
<1> QED BY <1>5 DEF f, b, t, g, x

(* set, whatever the kind, replaces one row.                               *)
LEMMA SetKept ==
  ASSUME NEW a, NEW w, KeptAs(a, w), WholeAt(a, w),
         NEW i \in 1..Len(w), NEW v \in CellsOf(a.kind)
  PROVE  KeptLike(Pick(a, Fixed!Set(a, i, v), Bool!Set(a, i, v),
                       Text!Set(a, i, v), Cat!Set(a, i, v)), a, [w EXCEPT ![i] = Rowed(a.unit, v)])
<1> DEFINE f == Fixed!Set(a, i, v)
           b == Bool!Set(a, i, v)
           t == Text!Set(a, i, v)
           g == Cat!Set(a, i, v)
           x == [w EXCEPT ![i] = Rowed(a.unit, v)]
<1>0. /\ FixedKind(a) => v \in Int
      /\ a.kind = "boolean" => v \in Bits
      /\ a.kind \in {"text", "categorical"} => v \in Seq(Byte)
  BY CellsAre
<1>1. ASSUME FixedKind(a), FixedKept(a, w) PROVE Like(f, a) /\ FixedKept(f, x)
  BY <1>0, <1>1, FixedSet
<1>2. ASSUME a.kind = "boolean", BoolKept(a, w) PROVE Like(b, a) /\ BoolKept(b, x)
  BY <1>0, <1>2, BoolSet
<1>3. ASSUME a.kind = "text", TextKept(a, w) PROVE Like(t, a) /\ TextKept(t, x)
  BY <1>0, <1>3, TextSet
<1>4. ASSUME a.kind = "categorical", CatKept(a, w) PROVE Like(g, a) /\ CatKept(g, x)
  BY <1>0, <1>4, CatSet
<1> HIDE DEF f, b, t, g, x
<1>5. KeptLike(Pick(a, f, b, t, g), a, x)
  BY <1>1, <1>2, <1>3, <1>4, ByKind
<1> QED BY <1>5 DEF f, b, t, g, x

(* A range set, whatever the kind, replaces those rows.                    *)
LEMMA SetRangeKept ==
  ASSUME NEW a, NEW w, KeptAs(a, w), WholeAt(a, w),
         NEW from \in Nat, NEW to \in Nat, from <= to, to <= Len(w), NEW v \in CellsOf(a.kind),
         NEW z \in Seq(WantRow), AsRange(z, w, from, to, Rowed(a.unit, v))
  PROVE  KeptLike(Pick(a, Fixed!SetRange(a, from, to, v), Bool!SetRange(a, from, to, v),
                       Text!SetRange(a, from, to, v), Cat!SetRange(a, from, to, v)), a, z)
<1> DEFINE f == Fixed!SetRange(a, from, to, v)
           b == Bool!SetRange(a, from, to, v)
           t == Text!SetRange(a, from, to, v)
           g == Cat!SetRange(a, from, to, v)
           x == z
<1>0. /\ FixedKind(a) => v \in Int
      /\ a.kind = "boolean" => v \in Bits
      /\ a.kind \in {"text", "categorical"} => v \in Seq(Byte)
  BY CellsAre
<1>1. ASSUME FixedKind(a), FixedKept(a, w) PROVE Like(f, a) /\ FixedKept(f, x)
  BY <1>0, <1>1, FixedSetRange
<1>2. ASSUME a.kind = "boolean", BoolKept(a, w) PROVE Like(b, a) /\ BoolKept(b, x)
  BY <1>0, <1>2, BoolSetRange
<1>3. ASSUME a.kind = "text", TextKept(a, w) PROVE Like(t, a) /\ TextKept(t, x)
  BY <1>0, <1>3, TextSetRange
<1>4. ASSUME a.kind = "categorical", CatKept(a, w) PROVE Like(g, a) /\ CatKept(g, x)
  BY <1>0, <1>4, CatSetRange
<1> HIDE DEF f, b, t, g, x
<1>5. KeptLike(Pick(a, f, b, t, g), a, x)
  BY <1>1, <1>2, <1>3, <1>4, ByKind
<1> QED BY <1>5 DEF f, b, t, g, x

(* slice_clone, whatever the kind, keeps the rows of the window.           *)
LEMMA SliceKept ==
  ASSUME NEW a, NEW w, KeptAs(a, w), WholeAt(a, w),
         a.masked => Len(a.mask) >= Len(w), NEW from \in Nat, NEW n \in Nat, from + n <= Len(w)
  PROVE  KeptLike(Sliced(a, from, n), a, Fixed!Window(w, from, n))
<1> DEFINE f == Fixed!SliceClone(a, from, n)
           b == Bool!SliceClone(a, from, n)
           t == Text!SliceClone(a, from, n)
           g == Cat!SliceClone(a, from, n)
           x == Fixed!Window(w, from, n)
<1>1. ASSUME FixedKind(a), FixedKept(a, w) PROVE Like(f, a) /\ FixedKept(f, x)
  BY <1>1, FixedSlice
<1>2. ASSUME a.kind = "boolean", BoolKept(a, w) PROVE Like(b, a) /\ BoolKept(b, x)
  BY <1>2, BoolSlice
<1>3. ASSUME a.kind = "text", TextKept(a, w) PROVE Like(t, a) /\ TextKept(t, x)
  BY <1>3, TextSlice
<1>4. ASSUME a.kind = "categorical", CatKept(a, w) PROVE Like(g, a) /\ CatKept(g, x)
  BY <1>4, CatSlice
<1> HIDE DEF f, b, t, g, x
<1>5. KeptLike(Pick(a, f, b, t, g), a, x)
  BY <1>1, <1>2, <1>3, <1>4, ByKind
<1> QED BY <1>5 DEF f, b, t, g, x, Sliced

(* A range deleted, whatever the kind, takes those rows away; a boolean    *)
(* array may have no bits past its rows.                                   *)
LEMMA DeleteKept ==
  ASSUME NEW a, NEW w, KeptAs(a, w), WholeAt(a, w),
         a.kind = "boolean" => Len(a.data) = Len(w), NEW from \in Nat, NEW to \in Nat, from <= to, to <= Len(w)
  PROVE  KeptLike(Deleted(a, from, to), a, Fixed!Without(w, from, to))
<1> DEFINE f == Fixed!DeleteRange(a, from, to)
           b == Bool!DeleteRange(a, from, to)
           t == Text!DeleteRange(a, from, to)
           g == Cat!DeleteRange(a, from, to)
           x == Fixed!Without(w, from, to)
<1>1. ASSUME FixedKind(a), FixedKept(a, w) PROVE Like(f, a) /\ FixedKept(f, x)
  BY <1>1, FixedDelete
<1>2. ASSUME a.kind = "boolean", BoolKept(a, w) PROVE Like(b, a) /\ BoolKept(b, x)
  BY <1>2, BoolDelete
<1>3. ASSUME a.kind = "text", TextKept(a, w) PROVE Like(t, a) /\ TextKept(t, x)
  BY <1>3, TextDelete
<1>4. ASSUME a.kind = "categorical", CatKept(a, w) PROVE Like(g, a) /\ CatKept(g, x)
  BY <1>4, CatDelete
<1> HIDE DEF f, b, t, g, x
<1>5. KeptLike(InCollection(a, f, OfText(a, t, g), f, b), a, x)
  BY <1>1, <1>2, <1>3, <1>4, ByKind
<1> QED BY <1>5 DEF f, b, t, g, x, Deleted, NumericDeleted, TemporalDeleted, TextDeleted

(* An array of any kind filled with one value.                             *)
LEMMA FilledKept ==
  ASSUME NEW a, NEW w, KeptAs(a, w),
         NEW v \in CellsOf(a.kind), NEW n \in Nat
  PROVE  KeptLike(Pick(a, Fixed!Filled(a, v, n), Bool!Filled(a, v, n),
                       Text!Filled(a, v, n), Cat!Filled(a, v, n)), a, Fixed!All(n, Rowed(a.unit, v)))
<1> DEFINE f == Fixed!Filled(a, v, n)
           b == Bool!Filled(a, v, n)
           t == Text!Filled(a, v, n)
           g == Cat!Filled(a, v, n)
           x == Fixed!All(n, Rowed(a.unit, v))
<1>0. /\ FixedKind(a) => v \in Int
      /\ a.kind = "boolean" => v \in Bits
      /\ a.kind \in {"text", "categorical"} => v \in Seq(Byte)
  BY CellsAre
<1>1. ASSUME FixedKind(a), FixedKept(a, w) PROVE Like(f, a) /\ FixedKept(f, x)
  BY <1>0, <1>1, FixedFilled
<1>2. ASSUME a.kind = "boolean", BoolKept(a, w) PROVE Like(b, a) /\ BoolKept(b, x)
  BY <1>0, <1>2, BoolFilled
<1>3. ASSUME a.kind = "text", TextKept(a, w) PROVE Like(t, a) /\ TextKept(t, x)
  BY <1>0, <1>3, TextFilled
<1>4. ASSUME a.kind = "categorical", CatKept(a, w) PROVE Like(g, a) /\ CatKept(g, x)
  BY <1>0, <1>4, CatFilled
<1> HIDE DEF f, b, t, g, x
<1>5. KeptLike(Pick(a, f, b, t, g), a, x)
  BY <1>1, <1>2, <1>3, <1>4, ByKind
<1> QED BY <1>5 DEF f, b, t, g, x

(* extend_from_slice, whatever the kind, adds the values' rows.            *)
LEMMA ExtendKept ==
  ASSUME NEW a, NEW w, KeptAs(a, w), WholeAt(a, w),
         NEW v \in CellsOf(a.kind), NEW u \in CellsOf(a.kind)
  PROVE  KeptLike(Pick(a, Fixed!ExtendFromSlice(a, <<v, u>>), Bool!ExtendFromSlice(a, <<v, u>>),
                       Text!ExtendFromSlice(a, <<v, u>>), Cat!ExtendFromSlice(a, <<v, u>>)), a, w \o <<Rowed(a.unit, v), Rowed(a.unit, u)>>)
<1> DEFINE f == Fixed!ExtendFromSlice(a, <<v, u>>)
           b == Bool!ExtendFromSlice(a, <<v, u>>)
           t == Text!ExtendFromSlice(a, <<v, u>>)
           g == Cat!ExtendFromSlice(a, <<v, u>>)
           x == w \o <<Rowed(a.unit, v), Rowed(a.unit, u)>>
<1>0. /\ FixedKind(a) => v \in Int /\ u \in Int
      /\ a.kind = "boolean" => v \in Bits /\ u \in Bits
      /\ a.kind \in {"text", "categorical"} => v \in Seq(Byte) /\ u \in Seq(Byte)
  BY CellsAre
<1>1. ASSUME FixedKind(a), FixedKept(a, w) PROVE Like(f, a) /\ FixedKept(f, x)
  BY <1>0, <1>1, FixedExtend
<1>2. ASSUME a.kind = "boolean", BoolKept(a, w) PROVE Like(b, a) /\ BoolKept(b, x)
  BY <1>0, <1>2, BoolExtend
<1>3. ASSUME a.kind = "text", TextKept(a, w) PROVE Like(t, a) /\ TextKept(t, x)
  BY <1>0, <1>3, TextExtend
<1>4. ASSUME a.kind = "categorical", CatKept(a, w) PROVE Like(g, a) /\ CatKept(g, x)
  BY <1>0, <1>4, CatExtend
<1> HIDE DEF f, b, t, g, x
<1>5. KeptLike(Pick(a, f, b, t, g), a, x)
  BY <1>1, <1>2, <1>3, <1>4, ByKind
<1> QED BY <1>5 DEF f, b, t, g, x

(* append_array, whatever the kind, adds the rows of another of the same   *)
(* kind and unit, when the masks can be joined, no bits follow the rows    *)
(* and the dictionaries agree.                                             *)
LEMMA AppendKept ==
  ASSUME NEW a, NEW w, KeptAs(a, w), WholeAt(a, w), NEW o, NEW y, KeptAs(o, y), o.kind = a.kind, o.unit = a.unit,
         a.masked /\ o.masked => Len(a.mask) = Len(w), a.kind = "boolean" => Len(a.data) = Len(w),
         a.kind = "categorical" => Cat!IsPrefix(o.dict, a.dict), o.masked => Len(o.mask) >= Len(y)
  PROVE  KeptLike(Appended(a, o), a, w \o y)
<1> DEFINE f == Fixed!AppendArray(a, o)
           b == Bool!AppendArray(a, o)
           t == Text!AppendArray(a, o)
           g == Cat!AppendArray(a, o)
           x == w \o y
<1>1. ASSUME FixedKind(a), FixedKept(a, w) PROVE Like(f, a) /\ FixedKept(f, x)
  <2>1. FixedKept(o, y)
    BY <1>1 DEF KeptAs, FixedKind
  <2> QED BY <1>1, <2>1, FixedAppend
<1>2. ASSUME a.kind = "boolean", BoolKept(a, w) PROVE Like(b, a) /\ BoolKept(b, x)
  <2>1. BoolKept(o, y)
    BY <1>2 DEF KeptAs
  <2> QED BY <1>2, <2>1, BoolAppend
<1>3. ASSUME a.kind = "text", TextKept(a, w) PROVE Like(t, a) /\ TextKept(t, x)
  <2>1. TextKept(o, y)
    BY <1>3 DEF KeptAs
  <2> QED BY <1>3, <2>1, TextAppend
<1>4. ASSUME a.kind = "categorical", CatKept(a, w) PROVE Like(g, a) /\ CatKept(g, x)
  <2>1. CatKept(o, y)
    BY <1>4 DEF KeptAs
  <2> QED BY <1>4, <2>1, CatAppend
<1> HIDE DEF f, b, t, g, x
<1>5. KeptLike(InCollection(a, f, OfText(a, t, g), f, b), a, x)
  BY <1>1, <1>2, <1>3, <1>4, ByKind
<1> QED BY <1>5 DEF f, b, t, g, x, Appended, NumericAppended, TemporalAppended, TextAppended

(* append_range, whatever the kind, adds the rows of the window, on the    *)
(* same conditions.                                                        *)
LEMMA AppendRangeKept ==
  ASSUME NEW a, NEW w, KeptAs(a, w), WholeAt(a, w), NEW o, NEW y, KeptAs(o, y), o.kind = a.kind, o.unit = a.unit,
         a.masked /\ o.masked => Len(a.mask) = Len(w), a.kind = "boolean" => Len(a.data) = Len(w),
         a.kind = "categorical" => Cat!IsPrefix(o.dict, a.dict),
         o.masked => Len(o.mask) >= Len(y), NEW from \in Nat, NEW n \in Nat, from + n <= Len(y)
  PROVE  KeptLike(AppendedRange(a, o, from, n), a, w \o Fixed!Window(y, from, n))
<1> DEFINE f == Fixed!AppendRange(a, o, from, n)
           b == Bool!AppendRange(a, o, from, n)
           t == Text!AppendRange(a, o, from, n)
           g == Cat!AppendRange(a, o, from, n)
           x == w \o Fixed!Window(y, from, n)
<1>1. ASSUME FixedKind(a), FixedKept(a, w) PROVE Like(f, a) /\ FixedKept(f, x)
  <2>1. FixedKept(o, y)
    BY <1>1 DEF KeptAs, FixedKind
  <2> QED BY <1>1, <2>1, FixedAppendRange
<1>2. ASSUME a.kind = "boolean", BoolKept(a, w) PROVE Like(b, a) /\ BoolKept(b, x)
  <2>1. BoolKept(o, y)
    BY <1>2 DEF KeptAs
  <2> QED BY <1>2, <2>1, BoolAppendRange
<1>3. ASSUME a.kind = "text", TextKept(a, w) PROVE Like(t, a) /\ TextKept(t, x)
  <2>1. TextKept(o, y)
    BY <1>3 DEF KeptAs
  <2> QED BY <1>3, <2>1, TextAppendRange
<1>4. ASSUME a.kind = "categorical", CatKept(a, w) PROVE Like(g, a) /\ CatKept(g, x)
  <2>1. CatKept(o, y)
    BY <1>4 DEF KeptAs
  <2> QED BY <1>4, <2>1, CatAppendRange
<1> HIDE DEF f, b, t, g, x
<1>5. KeptLike(InCollection(a, f, OfText(a, t, g), f, b), a, x)
  BY <1>1, <1>2, <1>3, <1>4, ByKind
<1> QED BY <1>5 DEF f, b, t, g, x, AppendedRange, NumericRange, TemporalRange, TextRange

(* insert_rows, whatever the kind, puts the rows of another of the same    *)
(* kind and unit in at the place.                                          *)
LEMMA InsertKept ==
  ASSUME NEW a, NEW w, KeptAs(a, w), WholeAt(a, w), NEW o, NEW y, KeptAs(o, y), o.kind = a.kind, o.unit = a.unit,
         o.masked => Len(o.mask) >= Len(y), NEW at \in Nat, at <= Len(w), NEW junk \in Nat
  PROVE  KeptLike(InsertedRows(a, at, o, junk), a, Fixed!Spliced(w, at, y))
<1> DEFINE f == Fixed!InsertRows(a, at, o)
           b == Bool!InsertRows(a, at, o)
           t == Text!InsertRows(a, at, o)
           g == Cat!InsertRows(a, at, o, junk)
           x == Fixed!Spliced(w, at, y)
<1>1. ASSUME FixedKind(a), FixedKept(a, w) PROVE Like(f, a) /\ FixedKept(f, x)
  <2>1. FixedKept(o, y)
    BY <1>1 DEF KeptAs, FixedKind
  <2> QED BY <1>1, <2>1, FixedInsert
<1>2. ASSUME a.kind = "boolean", BoolKept(a, w) PROVE Like(b, a) /\ BoolKept(b, x)
  <2>1. BoolKept(o, y)
    BY <1>2 DEF KeptAs
  <2> QED BY <1>2, <2>1, BoolInsert
<1>3. ASSUME a.kind = "text", TextKept(a, w) PROVE Like(t, a) /\ TextKept(t, x)
  <2>1. TextKept(o, y)
    BY <1>3 DEF KeptAs
  <2> QED BY <1>3, <2>1, TextInsert
<1>4. ASSUME a.kind = "categorical", CatKept(a, w) PROVE Like(g, a) /\ CatKept(g, x)
  <2>1. CatKept(o, y)
    BY <1>4 DEF KeptAs
  <2> QED BY <1>4, <2>1, CatInsert
<1> HIDE DEF f, b, t, g, x
<1>5. KeptLike(InCollection(a, f, OfText(a, t, g), f, b), a, x)
  BY <1>1, <1>2, <1>3, <1>4, ByKind
<1> QED BY <1>5 DEF f, b, t, g, x, InsertedRows, NumericInserted, TemporalInserted, TextInserted

(* concat, whatever the kind, adds the other's rows; the dictionaries need *)
(* not agree.                                                              *)
LEMMA ConcatKept ==
  ASSUME NEW a, NEW w, KeptAs(a, w), WholeAt(a, w), NEW o, NEW y, KeptAs(o, y), o.kind = a.kind, o.unit = a.unit,
         a.masked /\ o.masked => Len(a.mask) = Len(w), a.kind = "boolean" => Len(a.data) = Len(w),
         o.masked => Len(o.mask) >= Len(y)
  PROVE  KeptLike(Concatenated(a, o), a, w \o y)
<1> DEFINE f == Fixed!AppendArray(a, o)
           b == Bool!AppendArray(a, o)
           t == Text!AppendArray(a, o)
           g == Cat!Concat(a, o)
           x == w \o y
<1>1. ASSUME FixedKind(a), FixedKept(a, w) PROVE Like(f, a) /\ FixedKept(f, x)
  <2>1. FixedKept(o, y)
    BY <1>1 DEF KeptAs, FixedKind
  <2> QED BY <1>1, <2>1, FixedAppend
<1>2. ASSUME a.kind = "boolean", BoolKept(a, w) PROVE Like(b, a) /\ BoolKept(b, x)
  <2>1. BoolKept(o, y)
    BY <1>2 DEF KeptAs
  <2> QED BY <1>2, <2>1, BoolAppend
<1>3. ASSUME a.kind = "text", TextKept(a, w) PROVE Like(t, a) /\ TextKept(t, x)
  <2>1. TextKept(o, y)
    BY <1>3 DEF KeptAs
  <2> QED BY <1>3, <2>1, TextAppend
<1>4. ASSUME a.kind = "categorical", CatKept(a, w) PROVE Like(g, a) /\ CatKept(g, x)
  <2>1. CatKept(o, y)
    BY <1>4 DEF KeptAs
  <2> QED BY <1>4, <2>1, CatConcat
<1> HIDE DEF f, b, t, g, x
<1>5. KeptLike(InCollection(a, f, OfText(a, t, g), f, b), a, x)
  BY <1>1, <1>2, <1>3, <1>4, ByKind
<1> QED BY <1>5 DEF f, b, t, g, x, Concatenated, NumericConcat, TemporalConcat, TextConcat

(* scatter, whatever the kind, puts the other's rows at the places.        *)
LEMMA ScatterKept ==
  ASSUME NEW a, NEW w, KeptAs(a, w), WholeAt(a, w), NEW o, NEW y, KeptAs(o, y), o.kind = a.kind, o.unit = a.unit,
         o.masked => Len(o.mask) >= Len(y), a.masked => Len(a.mask) >= Len(w),
         NEW dst \in [1..2 -> 1..Len(w)], NEW src \in [1..2 -> 1..Len(y)],
         NEW z \in Seq(WantRow), AsPicked(z, w, y, dst, src)
  PROVE  KeptLike(Pick(a, Fixed!ScatterPrim(a, dst, o, src), Fixed!ScatterPrim(a, dst, o, src),
                       Text!ScatterStr(a, dst, o, src), Cat!ScatterCat(a, dst, o, src)), a, z)
<1> DEFINE f == Fixed!ScatterPrim(a, dst, o, src)
           b == Fixed!ScatterPrim(a, dst, o, src)
           t == Text!ScatterStr(a, dst, o, src)
           g == Cat!ScatterCat(a, dst, o, src)
           x == z
<1>1. ASSUME FixedKind(a), FixedKept(a, w) PROVE Like(f, a) /\ FixedKept(f, x)
  <2>1. FixedKept(o, y)
    BY <1>1 DEF KeptAs, FixedKind
  <2> QED BY <1>1, <2>1, FixedScatter
<1>2. ASSUME a.kind = "boolean", BoolKept(a, w) PROVE Like(b, a) /\ BoolKept(b, x)
  <2>1. BoolKept(o, y)
    BY <1>2 DEF KeptAs
  <2> QED BY <1>2, <2>1, BoolScatter
<1>3. ASSUME a.kind = "text", TextKept(a, w) PROVE Like(t, a) /\ TextKept(t, x)
  <2>1. TextKept(o, y)
    BY <1>3 DEF KeptAs
  <2> QED BY <1>3, <2>1, TextScatter
<1>4. ASSUME a.kind = "categorical", CatKept(a, w) PROVE Like(g, a) /\ CatKept(g, x)
  <2>1. CatKept(o, y)
    BY <1>4 DEF KeptAs
  <2> QED BY <1>4, <2>1, CatScatter
<1> HIDE DEF f, b, t, g, x
<1>5. KeptLike(Pick(a, f, b, t, g), a, x)
  BY <1>1, <1>2, <1>3, <1>4, ByKind
<1> QED BY <1>5 DEF f, b, t, g, x

(* resize, whatever the kind, cuts the rows or adds the given one; a       *)
(* boolean array keeps its length.                                         *)
LEMMA ResizeKept ==
  ASSUME NEW a, NEW w, KeptAs(a, w), WholeAt(a, w), NEW n \in Nat, a.kind = "boolean" => n = Len(w), NEW v \in CellsOf(a.kind)
  PROVE  KeptLike(Pick(a, Fixed!Resize(a, n, v), Bool!Resize(a, n, v), Text!Resize(a, n, v), Cat!Resize(a, n, v)),
                  a, Fixed!Fit(w, n, Rowed(a.unit, v)))
<1> DEFINE f == Fixed!Resize(a, n, v)
           b == Bool!Resize(a, n, v)
           t == Text!Resize(a, n, v)
           g == Cat!Resize(a, n, v)
           x == Fixed!Fit(w, n, Rowed(a.unit, v))
<1>0. /\ FixedKind(a) => v \in Int
      /\ a.kind = "boolean" => v \in Bits
      /\ a.kind \in {"text", "categorical"} => v \in Seq(Byte)
  BY CellsAre
<1>1. ASSUME FixedKind(a), FixedKept(a, w) PROVE Like(f, a) /\ FixedKept(f, x)
  BY <1>0, <1>1, FixedResize
<1>2. ASSUME a.kind = "boolean", BoolKept(a, w) PROVE Like(b, a) /\ BoolKept(b, x)
  <2>1. n = Len(w) /\ v \in Bits
    BY <1>0, <1>2
  <2>2. LET c == Bool!Resize(a, Len(w), v) IN Like(c, a) /\ BoolKept(c, Fixed!Fit(w, Len(w), Rowed(a.unit, v)))
    BY <1>2, <2>1, BoolResize
  <2> QED BY ONLY <2>1, <2>2
<1>3. ASSUME a.kind = "text", TextKept(a, w) PROVE Like(t, a) /\ TextKept(t, x)
  BY <1>0, <1>3, TextResize
<1>4. ASSUME a.kind = "categorical", CatKept(a, w) PROVE Like(g, a) /\ CatKept(g, x)
  BY <1>0, <1>4, CatResize
<1> HIDE DEF f, b, t, g, x
<1>5. KeptLike(Pick(a, f, b, t, g), a, x)
  BY <1>1, <1>2, <1>3, <1>4, ByKind
<1> QED BY <1>5 DEF f, b, t, g, x

(* split, whatever the kind: the rest of the rows, and but for strings the *)
(* first rows.                                                             *)
LEMMA SplitKept ==
  ASSUME NEW a, NEW w, KeptAs(a, w), WholeAt(a, w), NEW at \in Nat, at <= Len(w)
  PROVE  /\ a.kind # "text" => KeptLike(Halves(a, at)[1], a, SubSeq(w, 1, at))
         /\ KeptLike(Halves(a, at)[2], a, Fixed!Without(w, 0, at))
<1> DEFINE h == Halves(a, at)
           x == SubSeq(w, 1, at)
           z == Fixed!Without(w, 0, at)
<1>1. CASE a.kind = "boolean"
  <2>1. h = Bool!Split(a, at)
    BY <1>1, CollectionIs DEF Halves, NumericHalves, TemporalHalves, TextHalves
  <2>2. Like(h[1], a) /\ BoolKept(h[1], x) /\ Like(h[2], a) /\ BoolKept(h[2], z)
    <3>1. BoolKept(a, w)
      BY <1>1 DEF KeptAs
    <3> HIDE DEF h
    <3> QED BY <2>1, <3>1, BoolSplit
  <2> HIDE DEF h, x, z
  <2>3. h[1].kind = "boolean" /\ h[2].kind = "boolean"
    BY <1>1, <2>2 DEF Like
  <2>4. KeptLike(h[1], a, x) /\ KeptLike(h[2], a, z)
    BY <2>2, <2>3 DEF KeptLike, KeptAs
  <2> QED BY <2>4 DEF h, x, z
<1>2. CASE a.kind = "text"
  <2>1. h = Text!Split(a, at)
    BY <1>2, CollectionIs DEF Halves, NumericHalves, TemporalHalves, TextHalves
  <2>2. Like(h[2], a) /\ TextKept(h[2], z)
    <3>1. TextKept(a, w)
      BY <1>2 DEF KeptAs
    <3> HIDE DEF h
    <3> QED BY <2>1, <3>1, TextSplit
  <2> HIDE DEF h, x, z
  <2>3. h[2].kind = "text"
    BY <1>2, <2>2 DEF Like
  <2>4. KeptLike(h[2], a, z)
    BY <2>2, <2>3 DEF KeptLike, KeptAs
  <2> QED BY <1>2, <2>4 DEF h, x, z
<1>3. CASE a.kind = "categorical"
  <2>1. h = Cat!Split(a, at)
    BY <1>3, CollectionIs DEF Halves, NumericHalves, TemporalHalves, TextHalves
  <2>2. Like(h[1], a) /\ CatKept(h[1], x) /\ Like(h[2], a) /\ CatKept(h[2], z)
    <3>1. CatKept(a, w)
      BY <1>3 DEF KeptAs
    <3> HIDE DEF h
    <3> QED BY <2>1, <3>1, CatSplit
  <2> HIDE DEF h, x, z
  <2>3. h[1].kind = "categorical" /\ h[2].kind = "categorical"
    BY <1>3, <2>2 DEF Like
  <2>4. KeptLike(h[1], a, x) /\ KeptLike(h[2], a, z)
    BY <2>2, <2>3 DEF KeptLike, KeptAs
  <2> QED BY <2>4 DEF h, x, z
<1>4. CASE FixedKind(a)
  <2>1. h = Fixed!Split(a, at)
    BY <1>4, CollectionIs DEF Halves, NumericHalves, TemporalHalves, TextHalves
  <2>2. Like(h[1], a) /\ FixedKept(h[1], x) /\ Like(h[2], a) /\ FixedKept(h[2], z)
    <3>1. FixedKept(a, w)
      BY <1>4 DEF KeptAs, FixedKind
    <3> HIDE DEF h
    <3> QED BY <2>1, <3>1, FixedSplit
  <2> HIDE DEF h, x, z
  <2>3. FixedKind(h[1]) /\ FixedKind(h[2])
    BY <1>4, <2>2 DEF Like, FixedKind
  <2>4. KeptLike(h[1], a, x) /\ KeptLike(h[2], a, z)
    BY <2>2, <2>3 DEF KeptLike, KeptAs, FixedKind
  <2> QED BY <2>4 DEF h, x, z
<1> QED BY <1>1, <1>2, <1>3, <1>4, KindIs

(* Rows of an array of any kind made null, over the values that are there. *)
LEMMA NulledKept ==
  ASSUME NEW a, NEW w, KeptAs(a, w), NEW c, NEW x \in Seq(WantRow), Turned(c, a, a, x), Len(x) = Len(w),
         \A i \in 1..Len(x) : x[i] = w[i] \/ x[i] = <<>>
  PROVE  KeptLike(c, a, x)
<1>1. FixedKind(a) /\ FixedKept(a, w) => Like(c, a) /\ FixedKept(c, x)
  BY FixedNulled
<1>2. a.kind = "boolean" /\ BoolKept(a, w) => Like(c, a) /\ BoolKept(c, x)
  BY BoolNulled
<1>3. a.kind = "text" /\ TextKept(a, w) => Like(c, a) /\ TextKept(c, x)
  BY TextNulled
<1>4. a.kind = "categorical" /\ CatKept(a, w) => Like(c, a) /\ CatKept(c, x)
  BY CatNulled
<1>5. KeptLike(Pick(a, c, c, c, c), a, x)
  BY <1>1, <1>2, <1>3, <1>4, ByKind
<1>6. Pick(a, c, c, c, c) = c
  BY PickIs, KindIs
<1> QED BY <1>5, <1>6

(* set_null, whatever the kind, makes one row null.                        *)
LEMMA SetNullKept ==
  ASSUME NEW a, NEW w, KeptAs(a, w), WholeAt(a, w), NEW i \in 1..Len(w)
  PROVE  KeptLike(Fixed!SetNull(a, Len(w), i), a, [w EXCEPT ![i] = <<>>])
<1> DEFINE x == [w EXCEPT ![i] = <<>>]
           c == Fixed!SetNull(a, Len(w), i)
<1>0. Frame(a, w) /\ w \in Seq(WantRow)
  BY KeptOfKind
<1>1. Turned(c, a, a, x)
  BY <1>0, TurnSetNull
<1>2. x \in Seq(WantRow) /\ Len(x) = Len(w) /\ \A j \in 1..Len(x) : x[j] = w[j] \/ x[j] = <<>>
  <2>1. <<>> \in WantRow
    BY DEF WantRow
  <2> HIDE DEF WantRow
  <2> QED BY <1>0, <2>1
<1> HIDE DEF x, c
<1>3. KeptLike(c, a, x)
  BY <1>1, <1>2, NulledKept
<1> QED BY <1>3 DEF x, c

(* A range of rows, whatever the kind, made null.                          *)
LEMMA RangeNullKept ==
  ASSUME NEW a, NEW w, KeptAs(a, w), WholeAt(a, w), NEW from \in Nat, NEW to \in Nat, from <= to, to <= Len(w),
         NEW x \in Seq(WantRow), AsRange(x, w, from, to, <<>>)
  PROVE  KeptLike(Fixed!Masked(a, Fixed!SetBits(Fixed!MaskOr(a, Len(w)), from, to, FALSE)), a, x)
<1> DEFINE c == Fixed!Masked(a, Fixed!SetBits(Fixed!MaskOr(a, Len(w)), from, to, FALSE))
<1>0. Frame(a, w) /\ w \in Seq(WantRow)
  BY KeptOfKind
<1>1. Turned(c, a, a, x)
  BY <1>0, TurnRangeNull
<1> HIDE DEF c
<1>2. Len(x) = Len(w) /\ \A j \in 1..Len(x) : x[j] = w[j] \/ x[j] = <<>>
  BY DEF AsRange
<1>3. KeptLike(c, a, x)
  BY <1>1, <1>2, NulledKept
<1> QED BY <1>3 DEF c

(* set_null_mask with the mask fitted to the rows changes no row.          *)
LEMMA RepairKept ==
  ASSUME NEW a, NEW w, KeptAs(a, w), a.masked
  PROVE  KeptLike(Fixed!Masked(a, Fixed!Fit(a.mask, Len(w), TRUE)), a, w)
<1> DEFINE c == Fixed!Masked(a, Fixed!Fit(a.mask, Len(w), TRUE))
<1>0. Frame(a, w) /\ w \in Seq(WantRow)
  BY KeptOfKind
<1>1. Turned(c, a, a, w)
  BY <1>0, TurnRepair
<1> HIDE DEF c
<1>3. KeptLike(c, a, w)
  BY <1>0, <1>1, NulledKept
<1> QED BY <1>3 DEF c

-----------------------------------------------------------------------------
(* The invariant, and the actions of Columns                               *)

(* The invariant: the column holds the rows its owner expects.             *)
Held ==
  /\ col.kind \in Kinds /\ Kinded(col)
  /\ other \in OthersOf[col.kind]
  /\ KeptAs(col, want)

(* What is known of the arrays that are appended, inserted and scattered.  *)
LEMMA OtherHeld ==
  ASSUME NEW kind \in Kinds, NEW o \in OthersOf[kind]
  PROVE  /\ o.kind = kind /\ Kinded(o) /\ KeptAs(o, Rows(o)) /\ Length(o) = Len(Rows(o)) /\ o.unit \in Nat
         /\ Rows(o) \in Seq(WantRow) /\ Len(Rows(o)) \in Nat /\ o.masked \in BOOLEAN
         /\ (o.masked => Len(o.mask) >= Len(Rows(o)))
<1>1. o.kind = kind /\ Typed(o) /\ Covered(o) /\ Sound(o)
  BY ColumnsAssumption DEF Kinds
<1>2. KeptAs(o, Rows(o)) /\ Kinded(o)
  BY <1>1, OtherKept
<1>3. /\ Length(o) = Len(Rows(o)) /\ Rows(o) \in Seq(WantRow) /\ Len(Rows(o)) \in Nat /\ o.unit \in Nat
      /\ o.masked \in BOOLEAN
  BY <1>2, KeptOfKind
<1>4. o.masked => Len(o.mask) >= Length(o)
  BY <1>1 DEF Covered
<1> QED BY <1>1, <1>2, <1>3, <1>4

(* What is known of the column and the other array when the invariant      *)
(* holds.                                                                  *)
LEMMA HeldOf ==
  ASSUME Held
  PROVE  /\ KeptAs(col, want) /\ col.unit \in Nat /\ Length(col) = Len(want) /\ want \in Seq(WantRow) /\ Len(want) \in Nat
         /\ col.masked \in BOOLEAN /\ (\A v \in Values : v \in CellsOf(col.kind)) /\ Frame(col, want)
         /\ other.kind = col.kind /\ KeptAs(other, Rows(other)) /\ Length(other) = Len(Rows(other))
         /\ Rows(other) \in Seq(WantRow) /\ Len(Rows(other)) \in Nat
         /\ (other.masked => Len(other.mask) >= Len(Rows(other)))
<1>1. \A v \in Values : v \in CellsOf(col.kind)
  BY ColumnsAssumption DEF Held, Kinds, Values
<1> QED BY <1>1, OtherHeld, KeptOfKind DEF Held

(* A value given is one row.                                               *)
LEMMA GivenIs ==
  ASSUME NEW v
  PROVE  Given(v) = <<Rowed(col.unit, v)>> /\ Given(v)[1] = Rowed(col.unit, v)
BY DEF Given, Rowed

(* A value of the column's kind makes a row that is no null.               *)
LEMMA RowOf ==
  ASSUME Held, NEW v \in Values
  PROVE  Rowed(col.unit, v) \in WantRow /\ Rowed(col.unit, v) # <<>>
<1>1. v \in CellsOf(col.kind) /\ col.unit \in Nat
  BY HeldOf
<1>2. v \in Cell
  BY <1>1 DEF CellsOf, Cell
<1> QED BY <1>1, <1>2, RowedIs

(* A call after which the column, of the same kind, keeps the rows         *)
(* expected keeps the invariant.                                           *)
LEMMA BecameHeld ==
  ASSUME Held, NEW c, NEW x, Became(c, x), KeptLike(c, col, x)
  PROVE  Held'
<1>1. col' = c /\ want' = x /\ c.kind = col.kind /\ other' = other
  BY DEF Became, KeptLike, Like
<1>2. Kinded(c) /\ c.kind \in Kinds
  BY <1>1 DEF Held, Kinded, KeptLike, Like
<1>3. KeptAs(c, x) /\ other \in OthersOf[c.kind]
  BY <1>1 DEF KeptLike, Held
<1> QED BY <1>1, <1>2, <1>3 DEF Held

(* An array that is neither refused nor a datetime of another unit has the *)
(* column's unit.                                                          *)
LEMMA UnitsMatch ==
  ASSUME Held, ~Refused(col, other), ~Foreign(col, other)
  PROVE  other.unit = col.unit
<1>1. Kinded(col) /\ Kinded(other) /\ other.kind = col.kind
  BY OtherHeld DEF Held
<1> QED BY <1>1 DEF Kinded, Refused, Fixed!Refuses, Foreign

(* When the other array would not be put behind a reserve, the column has  *)
(* none that matters.                                                      *)
LEMMA NotBehind ==
  ASSUME Held, Whole(col), ~Behind(col, other)
  PROVE  /\ col.masked /\ other.masked => Len(col.mask) = Len(want)
         /\ col.kind = "boolean" => Len(col.data) = Len(want)
<1>1. Length(col) = Len(want) /\ Len(want) \in Nat /\ col.mask \in Seq(Bits) /\ KeptAs(col, want)
  BY KeptOfKind DEF Held
<1>2. Len(col.mask) \in Nat
  BY <1>1
<1>3. col.masked => Len(col.mask) >= Len(want)
  BY <1>1 DEF Whole, Covered
<1>4. col.masked /\ other.masked => Len(col.mask) = Len(want)
  BY <1>1, <1>2, <1>3 DEF Behind
<1>5. col.kind = "boolean" => Len(col.data) = Len(want)
  <2> SUFFICES ASSUME col.kind = "boolean" PROVE Len(col.data) = Len(want)
    OBVIOUS
  <2>1. col.data \in Seq(Bits) /\ col.len = Len(want)
    BY <1>1, BoolOf DEF KeptAs
  <2>2. Len(col.data) \in Nat
    BY <2>1
  <2>3. Len(col.data) >= col.len /\ ~(Len(col.data) > col.len)
    BY DEF Whole, Covered, Behind
  <2> QED BY <1>1, <2>1, <2>2, <2>3
<1> QED BY <1>4, <1>5

(* If the owner makes none of the diverging calls, the conditions under    *)
(* which calls diverge do not hold.                                        *)
LEMMA Agrees ==
  ASSUME Followed = {}, NEW name, NEW when, Diverges(name, when)
  PROVE  ~when
BY DEF Diverges

(* A column made with any capacity, with or without a mask, keeps no rows. *)
LEMMA InitHeld == Init => Held
<1> SUFFICES ASSUME Init PROVE Held
  OBVIOUS
<1>1. PICK kind \in Kinds, masked \in BOOLEAN, reserve \in {0, Reserve} : col = WithCapacity(kind, masked, reserve)
  BY DEF Init
<1>2. reserve \in Nat /\ kind \in AllKinds
  BY ColumnsAssumption DEF Kinds
<1> DEFINE m == IF masked THEN Fixed!All(reserve, TRUE) ELSE <<>>
           w == <<>>
<1>3. w \in Seq(WantRow) /\ Len(w) = 0 /\ m \in Seq(Bits)
  <2>1. Fixed!All(reserve, Yes) \in Seq(Bits)
    BY <1>2, AllIs, YesNo
  <2>2. <<>> \in Seq(Bits) /\ <<>> \in Seq(WantRow)
    BY DEF Bits
  <2> QED BY <2>1, <2>2 DEF Yes
<1> HIDE DEF w
<1>4. Nulls(masked, m, w)
  <2>1. 1..Len(w) = {}
    BY <1>3
  <2> QED BY <1>3, <2>1 DEF Nulls
<1>5. ASSUME NEW a, a.kind = kind, a.unit = 0, a.masked = masked, a.mask = m, DOMAIN a = FieldsOf(kind)
      PROVE  Frame(a, w) /\ Kinded(a) /\ \A f \in FieldsOf(kind) : f \in DOMAIN a
  <2>1. {"kind", "unit", "data", "masked", "mask"} \subseteq DOMAIN a
    BY <1>5 DEF FieldsOf
  <2>2. Nulls(a.masked, a.mask, w)
    BY <1>4, <1>5
  <2>3. Frame(a, w)
    <3>1. Fields(a) /\ {"masked", "mask"} \subseteq DOMAIN a
      BY <2>1 DEF Fields
    <3>2. Marks(a, w)
      BY <2>2, <3>1 DEF Marks
    <3>3. a.unit \in Nat
      BY <1>5
    <3> QED BY <3>1, <3>2, <3>3 DEF Frame
  <2>4. Kinded(a)
    BY <1>2, <1>5 DEF Kinded
  <2> QED BY <1>5, <2>3, <2>4
<1>6. \A R, c : Len(c) \in Nat => Pairs(R, c, w)
  <2>1. 1..Len(w) = {}
    BY <1>3
  <2> QED BY <1>3, <2>1 DEF Pairs
<1> HIDE DEF m
<1> DEFINE common == [kind |-> kind, unit |-> 0, data |-> <<>>, masked |-> masked, mask |-> m]
           more(f, v) == [x \in DOMAIN common \cup {f} |-> IF x = f THEN v ELSE common[x]]
<1>7. CASE kind = "boolean"
  <2>1. col = [more("len", 0) EXCEPT !.data = Fixed!All(reserve, FALSE)]
    BY <1>1, <1>7 DEF WithCapacity, m
  <2>2. /\ col.kind = kind /\ col.unit = 0 /\ col.masked = masked /\ col.mask = m /\ col.len = 0
        /\ DOMAIN col = FieldsOf(kind) /\ col.data = Fixed!All(reserve, FALSE)
    BY <1>7, <2>1 DEF FieldsOf
  <2> HIDE DEF common, more
  <2>3. col.data \in Seq(Bits)
    BY <1>2, <2>2 DEF Fixed!All, Bits
  <2>4. Frame(col, w) /\ Kinded(col) /\ "len" \in DOMAIN col
    BY <1>5, <1>7, <2>2 DEF FieldsOf
  <2>5. Pairs(Is(col.unit), col.data, w)
    <3>1. Len(col.data) \in Nat
      BY <2>3
    <3> QED BY <1>6, <3>1
  <2>6. BoolKept(col, w)
    BY <1>3, <2>2, <2>3, <2>4, <2>5 DEF BoolKept
  <2> QED BY <1>7, <2>2, <2>4, <2>6 DEF Held, KeptAs, Init, w
<1>8. CASE kind = "text"
  <2>1. col = more("offsets", <<0>>)
    BY <1>1, <1>8 DEF WithCapacity, m
  <2>2. /\ col.kind = kind /\ col.unit = 0 /\ col.masked = masked /\ col.mask = m /\ col.offsets = <<0>>
        /\ DOMAIN col = FieldsOf(kind) /\ col.data = <<>>
    BY <1>8, <2>1 DEF FieldsOf
  <2> HIDE DEF common, more
  <2>3. Frame(col, w) /\ Kinded(col) /\ "offsets" \in DOMAIN col
    BY <1>5, <1>8, <2>2 DEF FieldsOf
  <2>4. Laid(<<>>, <<0>>, <<>>)
    BY LaidNone
  <2>5. Pairs(Is(col.unit), <<>>, w) /\ Len(<<>>) = Len(w)
    BY <1>3, <1>6
  <2>6. TextKept(col, w)
    BY <2>2, <2>3, <2>4, <2>5 DEF TextKept
  <2> QED BY <1>8, <2>2, <2>3, <2>6 DEF Held, KeptAs, Init, w
<1>9. CASE kind = "categorical"
  <2>1. col = more("dict", <<>>)
    BY <1>1, <1>9 DEF WithCapacity, m
  <2>2. /\ col.kind = kind /\ col.unit = 0 /\ col.masked = masked /\ col.mask = m /\ col.dict = <<>>
        /\ DOMAIN col = FieldsOf(kind) /\ col.data = <<>>
    BY <1>9, <2>1 DEF FieldsOf
  <2> HIDE DEF common, more
  <2>3. Frame(col, w) /\ Kinded(col) /\ "dict" \in DOMAIN col
    BY <1>5, <1>9, <2>2 DEF FieldsOf
  <2>4. Pairs(Coded(col.unit, col.dict), <<>>, w) /\ Len(<<>>) = Len(w) /\ <<>> \in Seq(Nat)
    BY <1>3, <1>6
  <2>5. CatKept(col, w)
    BY <2>2, <2>3, <2>4, NoDict DEF CatKept, Kept
  <2> QED BY <1>9, <2>2, <2>3, <2>5 DEF Held, KeptAs, Init, w
<1>10. CASE kind \notin {"boolean", "text", "categorical"}
  <2>1. col = common
    BY <1>1, <1>10 DEF WithCapacity, m
  <2>2. /\ col.kind = kind /\ col.unit = 0 /\ col.masked = masked /\ col.mask = m
        /\ DOMAIN col = FieldsOf(kind) /\ col.data = <<>>
    BY <1>10, <2>1 DEF FieldsOf
  <2> HIDE DEF common, more
  <2>3. Frame(col, w) /\ Kinded(col)
    BY <1>5, <2>2
  <2>4. Pairs(Is(col.unit), <<>>, w) /\ Len(<<>>) = Len(w) /\ <<>> \in Seq(Int)
    BY <1>3, <1>6
  <2>5. FixedKept(col, w)
    BY <2>2, <2>3, <2>4 DEF FixedKept, Kept
  <2> QED BY <1>10, <2>2, <2>3, <2>5 DEF Held, KeptAs, Init, w
<1> QED BY <1>7, <1>8, <1>9, <1>10

(* push keeps the invariant.                                               *)
LEMMA PushHeld ==
  ASSUME Held, Push
  PROVE  Held'
<1>1. PICK v \in Values : Became(Pick(col, Fixed!Push(col, v), Bool!Push(col, v), Text!Push(col, v), Cat!Push(col, v)),
                                 want \o Given(v))
  BY DEF Push
<1> DEFINE c == Pick(col, Fixed!Push(col, v), Bool!Push(col, v), Text!Push(col, v), Cat!Push(col, v))
<1>2. KeptAs(col, want) /\ v \in CellsOf(col.kind) /\ WholeAt(col, want)
  BY HeldOf, WholeIs DEF Push
<1>3. KeptLike(c, col, want \o <<Rowed(col.unit, v)>>)
  BY <1>2, PushKept
<1> HIDE DEF c
<1> QED BY <1>1, <1>3, GivenIs, BecameHeld DEF c

(* push_null keeps the invariant.                                          *)
LEMMA PushNullHeld ==
  ASSUME Held, PushNull
  PROVE  Held'
<1> DEFINE c == Pick(col, Fixed!PushNull(col), Bool!PushNull(col), Text!PushNull(col), Cat!PushNull(col))
<1>1. Became(c, Append(want, <<>>))
  BY DEF PushNull
<1>2. KeptAs(col, want) /\ WholeAt(col, want)
  BY HeldOf, WholeIs DEF PushNull
<1>3. KeptLike(c, col, Append(want, <<>>))
  BY <1>2, PushNullKept
<1> HIDE DEF c
<1> QED BY <1>1, <1>3, BecameHeld

(* push_nulls keeps the invariant.                                         *)
LEMMA PushNullsHeld ==
  ASSUME Held, PushNulls
  PROVE  Held'
<1>1. PICK k \in 0..2 : Became(Pick(col, Fixed!PushNulls(col, k), Bool!PushNulls(col, k), Text!PushNulls(col, k),
                                    Cat!PushNulls(col, k)), want \o Fixed!All(k, <<>>))
  BY DEF PushNulls
<1> DEFINE c == Pick(col, Fixed!PushNulls(col, k), Bool!PushNulls(col, k), Text!PushNulls(col, k), Cat!PushNulls(col, k))
<1>2. KeptAs(col, want) /\ WholeAt(col, want) /\ k \in Nat
  BY HeldOf, WholeIs DEF PushNulls
<1>3. KeptLike(c, col, want \o Fixed!All(k, <<>>))
  BY <1>2, PushNullsKept
<1>4. Became(c, want \o Fixed!All(k, <<>>))
  BY <1>1
<1> HIDE DEF c
<1> QED BY <1>3, <1>4, BecameHeld

(* set keeps the invariant.                                                *)
LEMMA SetHeld ==
  ASSUME Held, Set
  PROVE  Held'
<1>1. PICK i \in 1..Length(col), v \in Values :
        Became(Pick(col, Fixed!Set(col, i, v), Bool!Set(col, i, v), Text!Set(col, i, v), Cat!Set(col, i, v)),
               [want EXCEPT ![i] = Given(v)[1]])
  BY DEF Set
<1> DEFINE c == Pick(col, Fixed!Set(col, i, v), Bool!Set(col, i, v), Text!Set(col, i, v), Cat!Set(col, i, v))
           r == Rowed(col.unit, v)
<1>2. KeptAs(col, want) /\ WholeAt(col, want) /\ i \in 1..Len(want) /\ v \in CellsOf(col.kind)
  BY HeldOf, WholeIs DEF Set
<1>3. KeptLike(c, col, [want EXCEPT ![i] = r])
  BY <1>2, SetKept
<1>4. Became(c, [want EXCEPT ![i] = r])
  <2>1. Given(v)[1] = r
    BY GivenIs
  <2> HIDE DEF r
  <2> QED BY <1>1, <2>1
<1> HIDE DEF c, r
<1> DEFINE x == [want EXCEPT ![i] = r]
<1>5. Became(c, x) /\ KeptLike(c, col, x)
  BY <1>3, <1>4
<1> HIDE DEF x
<1> QED BY <1>5, BecameHeld

(* set_null keeps the invariant.                                           *)
LEMMA SetNullHeld ==
  ASSUME Held, SetNull
  PROVE  Held'
<1>1. PICK i \in 1..Length(col) : Became(Fixed!SetNull(col, Length(col), i), [want EXCEPT ![i] = <<>>])
  BY DEF SetNull
<1> DEFINE c == Fixed!SetNull(col, Len(want), i)
           x == [want EXCEPT ![i] = <<>>]
<1>2. KeptAs(col, want) /\ WholeAt(col, want) /\ i \in 1..Len(want) /\ Length(col) = Len(want)
  BY HeldOf, WholeIs DEF SetNull
<1>3. KeptLike(c, col, x)
  BY <1>2, SetNullKept
<1>4. Became(c, x)
  BY <1>1, <1>2
<1> HIDE DEF c, x
<1> QED BY <1>3, <1>4, BecameHeld

(* A range of the rows that are expected. *)
LEMMA RangeMade ==
  ASSUME NEW w \in Seq(WantRow), NEW from, NEW to, NEW r \in WantRow, NEW x,
         x = [i \in DOMAIN w |-> IF i > from /\ i <= to THEN r ELSE w[i]]
  PROVE  x \in Seq(WantRow) /\ AsRange(x, w, from, to, r)
<1> DEFINE n == Len(w)
<1>1. DOMAIN w = 1..n /\ n \in Nat /\ \A i \in 1..n : w[i] \in WantRow
  BY ItemsIn
<1> HIDE DEF n, WantRow
<1>2. \A i \in 1..n : x[i] = IF i > from /\ i <= to THEN r ELSE w[i]
  BY <1>1
<1>3. x = [i \in 1..n |-> x[i]] /\ \A i \in 1..n : x[i] \in WantRow
  BY <1>1, <1>2
<1>4. x \in Seq(WantRow) /\ Len(x) = n
  BY ONLY <1>1, <1>3
<1> QED BY <1>2, <1>4 DEF AsRange, n

(* A range set keeps the invariant.                                        *)
LEMMA SetRangeHeld ==
  ASSUME Held, SetRange
  PROVE  Held'
<1>1. PICK from \in 0..Length(col), to \in 0..Length(col), v \in Values :
        /\ from < to
        /\ Became(Pick(col, Fixed!SetRange(col, from, to, v), Bool!SetRange(col, from, to, v),
                       Text!SetRange(col, from, to, v), Cat!SetRange(col, from, to, v)),
                  [i \in DOMAIN want |-> IF i > from /\ i <= to THEN Given(v)[1] ELSE want[i]])
  BY DEF SetRange
<1> DEFINE c == Pick(col, Fixed!SetRange(col, from, to, v), Bool!SetRange(col, from, to, v),
                     Text!SetRange(col, from, to, v), Cat!SetRange(col, from, to, v))
           r == Rowed(col.unit, v)
           x == [i \in DOMAIN want |-> IF i > from /\ i <= to THEN r ELSE want[i]]
<1>2. /\ KeptAs(col, want) /\ WholeAt(col, want) /\ from \in Nat /\ to \in Nat /\ from <= to /\ to <= Len(want)
      /\ v \in CellsOf(col.kind) /\ want \in Seq(WantRow)
  BY <1>1, HeldOf, WholeIs DEF SetRange
<1>3. r \in WantRow
  BY RowOf
<1>4. Became(c, x)
  <2>1. Given(v)[1] = r
    BY GivenIs
  <2> HIDE DEF r
  <2> QED BY <1>1, <2>1
<1> HIDE DEF r
<1>5. x \in Seq(WantRow) /\ AsRange(x, want, from, to, r)
  BY <1>2, <1>3, RangeMade
<1> HIDE DEF x
<1>6. KeptLike(c, col, x)
  BY <1>2, <1>5, SetRangeKept DEF r
<1> HIDE DEF c
<1> QED BY <1>4, <1>6, BecameHeld

(* A range made null keeps the invariant.                                  *)
LEMMA SetRangeNullHeld ==
  ASSUME Held, SetRangeNull
  PROVE  Held'
<1>1. PICK from \in 0..Length(col), to \in 0..Length(col) :
        /\ from < to
        /\ Became(Fixed!Masked(col, Fixed!SetBits(Fixed!MaskOr(col, Length(col)), from, to, FALSE)),
                  [i \in DOMAIN want |-> IF i > from /\ i <= to THEN <<>> ELSE want[i]])
  BY DEF SetRangeNull
<1> DEFINE c == Fixed!Masked(col, Fixed!SetBits(Fixed!MaskOr(col, Len(want)), from, to, FALSE))
           r == <<>>
           x == [i \in DOMAIN want |-> IF i > from /\ i <= to THEN r ELSE want[i]]
<1>2. /\ KeptAs(col, want) /\ WholeAt(col, want) /\ from \in Nat /\ to \in Nat /\ from <= to /\ to <= Len(want)
      /\ want \in Seq(WantRow) /\ Length(col) = Len(want)
  BY <1>1, HeldOf, WholeIs DEF SetRangeNull
<1>3. r \in WantRow
  BY DEF WantRow
<1>4. Became(c, x)
  BY <1>1, <1>2
<1> HIDE DEF r
<1>5. x \in Seq(WantRow) /\ AsRange(x, want, from, to, r)
  BY <1>2, <1>3, RangeMade
<1> HIDE DEF x
<1>6. KeptLike(c, col, x)
  BY <1>2, <1>5, RangeNullKept DEF r
<1> HIDE DEF c
<1> QED BY <1>4, <1>6, BecameHeld

(* resize keeps the invariant, unless it is the call of a boolean array    *)
(* that diverges.                                                          *)
LEMMA ResizeHeld ==
  ASSUME Followed = {}, Held, Resize
  PROVE  Held'
<1>1. PICK n \in 0..MaxRows, v \in Values :
        /\ Diverges("resize bits", col.kind = "boolean" /\ n # Length(col))
        /\ Became(Pick(col, Fixed!Resize(col, n, v), Bool!Resize(col, n, v), Text!Resize(col, n, v),
                       Cat!Resize(col, n, v)),
                  Fixed!Fit(want, n, Given(v)[1]))
  BY DEF Resize
<1> DEFINE c == Pick(col, Fixed!Resize(col, n, v), Bool!Resize(col, n, v), Text!Resize(col, n, v), Cat!Resize(col, n, v))
           r == Rowed(col.unit, v)
           x == Fixed!Fit(want, n, r)
<1>2. KeptAs(col, want) /\ WholeAt(col, want) /\ v \in CellsOf(col.kind) /\ Length(col) = Len(want)
  BY HeldOf, WholeIs DEF Resize
<1>3. n \in Nat /\ (col.kind = "boolean" => n = Len(want))
  <2>1. n \in Nat
    BY ColumnsAssumption
  <2>2. ~(col.kind = "boolean" /\ n # Length(col))
    BY <1>1, Agrees
  <2> QED BY <1>2, <2>1, <2>2
<1>4. KeptLike(c, col, x)
  BY <1>2, <1>3, ResizeKept
<1>5. Became(c, x)
  <2>1. Given(v)[1] = r
    BY GivenIs
  <2> HIDE DEF r
  <2> QED BY <1>1, <2>1
<1> HIDE DEF c, x, r
<1> QED BY <1>4, <1>5, BecameHeld

(* Repairing the mask keeps the invariant.                                 *)
LEMMA RepairMaskHeld ==
  ASSUME Held, RepairMask
  PROVE  Held'
<1> DEFINE c == Fixed!Masked(col, Fixed!Fit(col.mask, Len(want), TRUE))
<1>1. KeptAs(col, want) /\ Length(col) = Len(want) /\ col.masked
  BY HeldOf DEF RepairMask
<1>2. Became(c, want)
  BY <1>1 DEF RepairMask
<1>3. KeptLike(c, col, want)
  BY <1>1, RepairKept
<1> HIDE DEF c
<1> QED BY <1>2, <1>3, BecameHeld

(* delete_range keeps the invariant, unless a boolean array has a reserve. *)
LEMMA DeleteRangeHeld ==
  ASSUME Followed = {}, Held, DeleteRange
  PROVE  Held'
<1>1. PICK from \in 0..Length(col), to \in 0..Length(col) :
        from <= to /\ Became(Deleted(col, from, to), Fixed!Without(want, from, to))
  BY DEF DeleteRange
<1>2. KeptAs(col, want) /\ WholeAt(col, want) /\ Length(col) = Len(want) /\ Len(want) \in Nat
  BY HeldOf, WholeIs DEF DeleteRange
<1>3. col.kind = "boolean" => Len(col.data) = Len(want)
  <2> SUFFICES ASSUME col.kind = "boolean" PROVE Len(col.data) = Len(want)
    OBVIOUS
  <2>1. col.data \in Seq(Bits) /\ col.len = Len(want)
    BY <1>2, BoolOf DEF KeptAs
  <2>2. Len(col.data) \in Nat
    BY <2>1
  <2>3. Len(col.data) >= col.len
    BY DEF DeleteRange, Whole, Covered
  <2>4. ~HasReserve(col)
    BY Agrees DEF DeleteRange
  <2> QED BY <1>2, <2>1, <2>2, <2>3, <2>4 DEF HasReserve
<1>4. from \in Nat /\ to \in Nat /\ from <= to /\ to <= Len(want)
  BY <1>1, <1>2
<1>5. KeptLike(Deleted(col, from, to), col, Fixed!Without(want, from, to))
  BY <1>2, <1>3, <1>4, DeleteKept
<1> QED BY <1>1, <1>5, BecameHeld

(* slice_clone keeps the invariant.                                        *)
LEMMA SliceCloneHeld ==
  ASSUME Held, SliceClone
  PROVE  Held'
<1>1. PICK offset \in 0..Length(col), n \in 0..Length(col) :
        offset + n <= Length(col) /\ Became(Sliced(col, offset, n), Fixed!Window(want, offset, n))
  BY DEF SliceClone
<1>2. /\ KeptAs(col, want) /\ WholeAt(col, want) /\ Length(col) = Len(want) /\ Len(want) \in Nat
      /\ (col.masked => Len(col.mask) >= Len(want))
  BY HeldOf, WholeIs DEF SliceClone
<1>3. offset \in Nat /\ n \in Nat /\ offset + n <= Len(want)
  BY <1>1, <1>2
<1>4. KeptLike(Sliced(col, offset, n), col, Fixed!Window(want, offset, n))
  BY <1>2, <1>3, SliceKept
<1> QED BY <1>1, <1>4, BecameHeld

(* What append_array and append_range ask of the two arrays, when none of  *)
(* the diverging calls is made.                                            *)
LEMMA AppendsAgree ==
  ASSUME Followed = {}, Held, Whole(col), ~Refused(col, other), AppendDiverges
  PROVE  /\ other.unit = col.unit
         /\ col.masked /\ other.masked => Len(col.mask) = Len(want)
         /\ col.kind = "boolean" => Len(col.data) = Len(want)
         /\ col.kind = "categorical" => Cat!IsPrefix(other.dict, col.dict)
<1>1. ~Behind(col, other) /\ ~Foreign(col, other) /\ ~OtherCodes(col, other)
  BY Agrees DEF AppendDiverges
<1> QED BY <1>1, UnitsMatch, NotBehind DEF OtherCodes

(* append_array keeps the invariant, unless it diverges.                   *)
LEMMA AppendArrayHeld ==
  ASSUME Followed = {}, Held, AppendArray
  PROVE  Held'
<1>1. /\ KeptAs(col, want) /\ WholeAt(col, want) /\ KeptAs(other, Rows(other)) /\ other.kind = col.kind
      /\ (other.masked => Len(other.mask) >= Len(Rows(other)))
  BY HeldOf, WholeIs DEF AppendArray
<1>2. /\ other.unit = col.unit
      /\ col.masked /\ other.masked => Len(col.mask) = Len(want)
      /\ col.kind = "boolean" => Len(col.data) = Len(want)
      /\ col.kind = "categorical" => Cat!IsPrefix(other.dict, col.dict)
  BY AppendsAgree DEF AppendArray
<1>3. KeptLike(Appended(col, other), col, want \o Rows(other))
  BY <1>1, <1>2, AppendKept
<1> QED BY <1>3, BecameHeld DEF AppendArray

(* append_range keeps the invariant, unless it diverges.                   *)
LEMMA AppendRangeHeld ==
  ASSUME Followed = {}, Held, AppendRange
  PROVE  Held'
<1>1. PICK offset \in 0..Length(other), n \in 0..Length(other) :
        /\ offset + n <= Length(other)
        /\ Became(AppendedRange(col, other, offset, n), want \o Fixed!Window(Rows(other), offset, n))
  BY DEF AppendRange
<1> DEFINE y == Rows(other)
<1>2. /\ KeptAs(col, want) /\ WholeAt(col, want) /\ KeptAs(other, y) /\ other.kind = col.kind
      /\ (other.masked => Len(other.mask) >= Len(y)) /\ Length(other) = Len(y) /\ Len(y) \in Nat
  BY HeldOf, WholeIs DEF AppendRange
<1>3. /\ other.unit = col.unit
      /\ col.masked /\ other.masked => Len(col.mask) = Len(want)
      /\ col.kind = "boolean" => Len(col.data) = Len(want)
      /\ col.kind = "categorical" => Cat!IsPrefix(other.dict, col.dict)
  BY AppendsAgree DEF AppendRange
<1>4. offset \in Nat /\ n \in Nat /\ offset + n <= Len(y)
  BY <1>1, <1>2
<1> HIDE DEF y
<1>5. KeptLike(AppendedRange(col, other, offset, n), col, want \o Fixed!Window(y, offset, n))
  BY <1>2, <1>3, <1>4, AppendRangeKept
<1> QED BY <1>1, <1>5, BecameHeld DEF y

(* insert_rows keeps the invariant, unless a datetime of another unit is   *)
(* inserted.                                                               *)
LEMMA InsertRowsHeld ==
  ASSUME Followed = {}, Held, InsertRows
  PROVE  Held'
<1>1. PICK at \in 0..Length(col), junk \in 0..1 :
        Became(InsertedRows(col, at, other, junk), Fixed!Spliced(want, at, Rows(other)))
  BY DEF InsertRows
<1> DEFINE y == Rows(other)
<1>2. /\ KeptAs(col, want) /\ WholeAt(col, want) /\ KeptAs(other, y) /\ other.kind = col.kind
      /\ (other.masked => Len(other.mask) >= Len(y)) /\ Length(col) = Len(want) /\ Len(want) \in Nat
  BY HeldOf, WholeIs DEF InsertRows
<1>3. other.unit = col.unit
  BY UnitsMatch, Agrees DEF InsertRows
<1>4. at \in Nat /\ at <= Len(want) /\ junk \in Nat
  BY <1>1, <1>2
<1> HIDE DEF y
<1>5. KeptLike(InsertedRows(col, at, other, junk), col, Fixed!Spliced(want, at, y))
  BY <1>2, <1>3, <1>4, InsertKept
<1> QED BY <1>1, <1>5, BecameHeld DEF y

(* concat keeps the invariant, unless it appends behind a reserve.         *)
LEMMA ConcatHeld ==
  ASSUME Followed = {}, Held, Concat
  PROVE  Held'
<1>1. /\ KeptAs(col, want) /\ WholeAt(col, want) /\ KeptAs(other, Rows(other)) /\ other.kind = col.kind
      /\ (other.masked => Len(other.mask) >= Len(Rows(other)))
  BY HeldOf, WholeIs DEF Concat
<1>2. ~Behind(col, other)
  BY Agrees DEF Concat
<1>3. /\ other.unit = col.unit
      /\ col.masked /\ other.masked => Len(col.mask) = Len(want)
      /\ col.kind = "boolean" => Len(col.data) = Len(want)
  BY <1>2, UnitsMatch, NotBehind DEF Concat
<1>4. KeptLike(Concatenated(col, other), col, want \o Rows(other))
  BY <1>1, <1>3, ConcatKept
<1> QED BY <1>4, BecameHeld DEF Concat

(* split keeps the invariant, whichever half the owner goes on with,       *)
(* unless it is the first half of strings.                                 *)
LEMMA SplitHeld ==
  ASSUME Followed = {}, Held, Split
  PROVE  Held'
<1>1. PICK at \in 1..(Length(col) - 1), side \in 1..2 :
        /\ Diverges("split text", col.kind = "text" /\ side = 1)
        /\ Became(Halves(col, at)[side],
                  IF side = 1 THEN SubSeq(want, 1, at) ELSE Fixed!Without(want, 0, at))
  BY DEF Split
<1>2. KeptAs(col, want) /\ WholeAt(col, want) /\ Length(col) = Len(want) /\ Len(want) \in Nat
  BY HeldOf, WholeIs DEF Split
<1>3. at \in Nat /\ at <= Len(want)
  <2> DEFINE n == Len(want)
  <2>1. at \in 1..(n - 1) /\ n \in Nat
    BY <1>1, <1>2
  <2> HIDE DEF n
  <2> QED BY <2>1 DEF n
<1>4. CASE side = 1
  <2>1. col.kind # "text"
    BY <1>1, <1>4, Agrees
  <2>2. KeptLike(Halves(col, at)[1], col, SubSeq(want, 1, at))
    BY <1>2, <1>3, <2>1, SplitKept
  <2>3. Became(Halves(col, at)[1], SubSeq(want, 1, at))
    BY <1>1, <1>4
  <2> QED BY <2>2, <2>3, BecameHeld
<1>5. CASE side = 2
  <2>1. KeptLike(Halves(col, at)[2], col, Fixed!Without(want, 0, at))
    BY <1>2, <1>3, SplitKept
  <2>2. Became(Halves(col, at)[2], Fixed!Without(want, 0, at))
    <3>1. side # 1
      BY <1>5
    <3> QED BY <1>1, <1>5, <3>1
  <2> QED BY <2>1, <2>2, BecameHeld
<1> QED BY <1>4, <1>5

(* extend_from_slice keeps the invariant.                                  *)
LEMMA ExtendHeld ==
  ASSUME Held, Extend
  PROVE  Held'
<1>1. PICK v \in Values, u \in Values :
        Became(Pick(col, Fixed!ExtendFromSlice(col, <<v, u>>), Bool!ExtendFromSlice(col, <<v, u>>),
                    Text!ExtendFromSlice(col, <<v, u>>), Cat!ExtendFromSlice(col, <<v, u>>)),
               want \o Given(v) \o Given(u))
  BY DEF Extend
<1> DEFINE c == Pick(col, Fixed!ExtendFromSlice(col, <<v, u>>), Bool!ExtendFromSlice(col, <<v, u>>),
                     Text!ExtendFromSlice(col, <<v, u>>), Cat!ExtendFromSlice(col, <<v, u>>))
           r == Rowed(col.unit, v)
           q == Rowed(col.unit, u)
<1>2. KeptAs(col, want) /\ WholeAt(col, want) /\ v \in CellsOf(col.kind) /\ u \in CellsOf(col.kind) /\ want \in Seq(WantRow)
  BY HeldOf, WholeIs DEF Extend
<1>3. r \in WantRow /\ q \in WantRow
  BY RowOf
<1>4. KeptLike(c, col, want \o <<r, q>>)
  BY <1>2, ExtendKept
<1>5. Given(v) = <<r>> /\ Given(u) = <<q>>
  BY GivenIs
<1> HIDE DEF r, q
<1>6. (want \o Given(v)) \o Given(u) = want \o <<r, q>>
  <2>1. (want \o <<r>>) \o <<q>> = want \o <<r, q>>
    BY ONLY <1>2, <1>3, TwoMore
  <2> QED BY <1>5, <2>1
<1>7. Became(c, want \o <<r, q>>)
  BY <1>1, <1>6
<1> HIDE DEF c
<1> QED BY <1>4, <1>7, BecameHeld

(* push_bits keeps the invariant.                                          *)
LEMMA PushBitsHeld ==
  ASSUME Held, PushBits
  PROVE  Held'
<1>1. PICK v \in Values, u \in Values :
        Became(Bool!PushBits(col, <<v, u>>), want \o Given(v) \o Given(u))
  BY DEF PushBits
<1> DEFINE c == Bool!PushBits(col, <<v, u>>)
           r == Rowed(col.unit, v)
           q == Rowed(col.unit, u)
<1>2. KeptAs(col, want) /\ WholeAt(col, want) /\ v \in CellsOf(col.kind) /\ u \in CellsOf(col.kind) /\ want \in Seq(WantRow)
      /\ col.kind = "boolean"
  BY HeldOf, WholeIs DEF PushBits
<1>3. r \in WantRow /\ q \in WantRow
  BY RowOf
<1>4. KeptLike(c, col, want \o <<r, q>>)
  <2>1. v \in Bits /\ u \in Bits /\ BoolKept(col, want)
    BY <1>2, CellsAre DEF KeptAs
  <2>2. Like(c, col) /\ BoolKept(c, want \o <<r, q>>)
    BY <1>2, <2>1, BoolPushBits
  <2>3. c.kind = "boolean"
    BY <1>2, <2>2 DEF Like
  <2> HIDE DEF c, r, q
  <2> QED BY <2>2, <2>3 DEF KeptLike, KeptAs
<1>5. Given(v) = <<r>> /\ Given(u) = <<q>>
  BY GivenIs
<1> HIDE DEF r, q
<1>6. (want \o Given(v)) \o Given(u) = want \o <<r, q>>
  <2>1. (want \o <<r>>) \o <<q>> = want \o <<r, q>>
    BY ONLY <1>2, <1>3, TwoMore
  <2> QED BY <1>5, <2>1
<1>7. Became(c, want \o <<r, q>>)
  BY <1>1, <1>6
<1> HIDE DEF c
<1> QED BY <1>4, <1>7, BecameHeld

(* Filling keeps the invariant.                                            *)
LEMMA FillHeld ==
  ASSUME Held, Fill
  PROVE  Held'
<1>1. PICK v \in Values, n \in 0..2 :
        Became(Pick(col, Fixed!Filled(col, v, n), Bool!Filled(col, v, n), Text!Filled(col, v, n), Cat!Filled(col, v, n)),
               Fixed!All(n, Given(v)[1]))
  BY DEF Fill
<1> DEFINE c == Pick(col, Fixed!Filled(col, v, n), Bool!Filled(col, v, n), Text!Filled(col, v, n), Cat!Filled(col, v, n))
           r == Rowed(col.unit, v)
           x == Fixed!All(n, r)
<1>2. KeptAs(col, want) /\ v \in CellsOf(col.kind) /\ n \in Nat
  BY HeldOf
<1>3. KeptLike(c, col, x)
  BY <1>2, FilledKept
<1>4. Became(c, x)
  <2>1. Given(v)[1] = r
    BY GivenIs
  <2> HIDE DEF r
  <2> QED BY <1>1, <2>1
<1> HIDE DEF c, x, r
<1> QED BY <1>3, <1>4, BecameHeld

(* A function on 1..n with values in a set is a sequence.                  *)
LEMMA SeqMade ==
  ASSUME NEW S, NEW n \in Nat, NEW x, x = [i \in 1..n |-> x[i]], \A i \in 1..n : x[i] \in S
  PROVE  x \in Seq(S) /\ Len(x) = n
OBVIOUS

(* The rows that are expected once two rows of another array are scattered *)
(* over them.                                                              *)
PickedRows(w, y, dst, src) ==
  [d \in DOMAIN w |-> IF dst[2] = d THEN y[src[2]] ELSE IF dst[1] = d THEN y[src[1]] ELSE w[d]]

(* They are rows, with the other's two put at the places.                  *)
LEMMA PickedMade ==
  ASSUME NEW w \in Seq(WantRow), NEW y \in Seq(WantRow),
         NEW dst \in [1..2 -> 1..Len(w)], NEW src \in [1..2 -> 1..Len(y)]
  PROVE  PickedRows(w, y, dst, src) \in Seq(WantRow) /\ AsPicked(PickedRows(w, y, dst, src), w, y, dst, src)
<1> DEFINE n == Len(w)
           x == PickedRows(w, y, dst, src)
<1>1. DOMAIN w = 1..n /\ n \in Nat /\ \A i \in 1..n : w[i] \in WantRow
  BY ItemsIn
<1>2. y[src[1]] \in WantRow /\ y[src[2]] \in WantRow
  <2>1. src[1] \in 1..Len(y) /\ src[2] \in 1..Len(y)
    OBVIOUS
  <2> QED BY <2>1, ItemsIn
<1> HIDE DEF n, WantRow
<1>3. \A d \in 1..n : x[d] = IF dst[2] = d THEN y[src[2]] ELSE IF dst[1] = d THEN y[src[1]] ELSE w[d]
  BY <1>1 DEF PickedRows
<1>4. x = [i \in 1..n |-> x[i]]
  BY <1>1, <1>3 DEF PickedRows
<1>5. \A i \in 1..n : x[i] \in WantRow
  BY <1>1, <1>2, <1>3
<1> HIDE DEF x
<1>6. x \in Seq(WantRow) /\ Len(x) = n
  BY <1>1, <1>4, <1>5, SeqMade
<1>7. AsPicked(x, w, y, dst, src)
  BY <1>3, <1>6 DEF AsPicked, n
<1> QED BY <1>6, <1>7 DEF x

(* scatter keeps the invariant.                                            *)
LEMMA ScatterHeld ==
  ASSUME Held, Scatter
  PROVE  Held'
<1>1. PICK dst \in [1..2 -> 1..Length(col)], src \in [1..2 -> 1..Length(other)] :
        Became(Pick(col, Fixed!ScatterPrim(col, dst, other, src), Fixed!ScatterPrim(col, dst, other, src),
                    Text!ScatterStr(col, dst, other, src), Cat!ScatterCat(col, dst, other, src)),
               Scattered(dst, src))
  BY DEF Scatter
<1> DEFINE c == Pick(col, Fixed!ScatterPrim(col, dst, other, src), Fixed!ScatterPrim(col, dst, other, src),
                     Text!ScatterStr(col, dst, other, src), Cat!ScatterCat(col, dst, other, src))
           y == Rows(other)
           x == Scattered(dst, src)
<1>2. /\ KeptAs(col, want) /\ WholeAt(col, want) /\ KeptAs(other, y) /\ other.kind = col.kind
      /\ (other.masked => Len(other.mask) >= Len(y)) /\ (col.masked => Len(col.mask) >= Len(want))
      /\ Length(col) = Len(want) /\ Length(other) = Len(y) /\ want \in Seq(WantRow) /\ y \in Seq(WantRow)
      /\ other.unit = col.unit
  BY HeldOf, WholeIs DEF Scatter
<1>3. dst \in [1..2 -> 1..Len(want)] /\ src \in [1..2 -> 1..Len(y)]
  BY <1>1, <1>2
<1>4. x = PickedRows(want, y, dst, src)
  BY DEF Scattered, PickedRows
<1> HIDE DEF y, x
<1>5. x \in Seq(WantRow) /\ AsPicked(x, want, y, dst, src)
  BY <1>2, <1>3, <1>4, PickedMade
<1>6. KeptLike(c, col, x)
  BY <1>2, <1>3, <1>5, ScatterKept
<1>7. Became(c, x)
  BY <1>1 DEF x
<1> HIDE DEF c
<1> QED BY <1>6, <1>7, BecameHeld

(* Negating a boolean array keeps the invariant.                           *)
LEMMA NotHeld ==
  ASSUME Held, Not
  PROVE  Held'
<1> DEFINE x == [i \in DOMAIN want |-> IF want[i] = <<>> THEN <<>> ELSE <<<<col.unit, ~want[i][1][2]>>>>]
<1>1. Became(Bool!Not(col), x) /\ col.kind = "boolean"
  BY DEF Not
<1>2. KeptAs(col, want) /\ WholeAt(col, want) /\ want \in Seq(WantRow) /\ col.unit \in Nat
  BY HeldOf, WholeIs DEF Not
<1>3. BoolKept(col, want)
  BY <1>1, <1>2 DEF KeptAs
<1> DEFINE n == Len(want)
<1>4. DOMAIN want = 1..n /\ n \in Nat
  BY <1>2
<1>5. \A i \in 1..n : x[i] = IF want[i] = <<>> THEN <<>> ELSE Rowed(col.unit, Flip(want[i][1][2]))
  BY <1>4 DEF Rowed, Flip
<1> HIDE DEF x, n
<1>6. ASSUME NEW i \in 1..n PROVE x[i] \in WantRow
  <2>1. CASE want[i] = <<>>
    <3>1. x[i] = <<>>
      BY <1>5, <2>1
    <3> QED BY <3>1 DEF WantRow
  <2>2. CASE want[i] # <<>>
    <3>1. <<col.data[i], want[i]>> \in Is(col.unit) /\ col.data \in Seq(Bits) /\ Len(col.data) >= n /\ Len(col.data) \in Nat
      BY <1>3, BoolOf DEF Pairs, n
    <3>2. col.data[i] \in Bits
      <4>1. i \in 1..Len(col.data)
        BY <1>4, <3>1
      <4> QED BY <3>1, <4>1, ItemsIn
    <3>3. want[i] = << <<col.unit, col.data[i]>> >>
      BY <2>2, <3>1 DEF Is
    <3>6. want[i][1][2] = col.data[i]
      BY <3>3
    <3>4. x[i] = Rowed(col.unit, Flip(col.data[i]))
      BY <1>5, <2>2, <3>6
    <3>5. Flip(col.data[i]) \in Cell
      BY <3>2, FlipIs, BitCell
    <3> QED BY <1>2, <3>4, <3>5, RowedIs
  <2> QED BY <2>1, <2>2
<1>7. x \in Seq(WantRow) /\ Len(x) = n
  <2>1. x = [i \in 1..n |-> x[i]]
    BY <1>4 DEF x
  <2> HIDE DEF WantRow
  <2> QED BY ONLY <1>4, <1>6, <2>1
<1>8. Like(Bool!Not(col), col) /\ BoolKept(Bool!Not(col), x)
  <2> HIDE DEF WantRow
  <2> QED BY <1>2, <1>3, <1>5, <1>7, BoolNot DEF n
<1>9. KeptLike(Bool!Not(col), col, x)
  BY <1>1, <1>8 DEF KeptLike, KeptAs, Like
<1> QED BY <1>1, <1>9, BecameHeld

(* A call after which the column, of another kind, keeps the rows it had   *)
(* keeps the invariant.                                                    *)
LEMMA TurnedHeld ==
  ASSUME Held, NEW c, Became(c, want), c.kind # col.kind, c.kind \in Kinds, Kinded(c), KeptAs(c, want)
  PROVE  Held'
<1>1. col' = c /\ want' = want /\ other' \in OthersOf[c.kind]
  BY DEF Became
<1> QED BY <1>1 DEF Held

(* Turning strings into categories keeps the invariant.                    *)
LEMMA ToCategoricalHeld ==
  ASSUME Held, ToCategorical
  PROVE  Held'
<1> DEFINE n == Len(want)
           rows == TextCells(col, n)
           e == Cat!InternedRows(<<>>, rows)
           d == CodesFor(e, rows, n)
           c == [kind |-> "categorical", unit |-> col.unit, masked |-> col.masked, mask |-> col.mask, dict |-> e, data |-> d]
<1>1. /\ KeptAs(col, want) /\ Length(col) = n /\ (col.masked => Len(col.mask) >= n)
      /\ col.kind = "text" /\ "categorical" \in Kinds
  BY HeldOf, WholeIs DEF ToCategorical
<1>2. TextKept(col, want)
  BY <1>1 DEF KeptAs
<1>3. Became(c, want)
  <2>1. DOMAIN TextCells(col, n) = 1..n
    BY DEF TextCells
  <2> QED BY <1>1, <2>1 DEF ToCategorical, TextCell, TextCells, CodesFor
<1>4. CatKept(c, want)
  <2>1. rows = TextCells(col, Len(want)) /\ e = Cat!InternedRows(<<>>, rows)
    OBVIOUS
  <2>2. d = CodesFor(e, rows, Len(want))
    OBVIOUS
  <2>3. c = [kind |-> "categorical", unit |-> col.unit, masked |-> col.masked, mask |-> col.mask, dict |-> e, data |-> d]
    OBVIOUS
  <2>4. col.masked => Len(col.mask) >= Len(want)
    BY <1>1
  <2> HIDE DEF rows, e, d, c, n
  <2> QED BY ONLY <1>2, <2>1, <2>2, <2>3, <2>4, TextToCodes
<1> HIDE DEF e, d
<1>5. c.kind = "categorical" /\ c.unit = col.unit /\ DOMAIN c = {"kind", "unit", "masked", "mask", "dict", "data"}
  OBVIOUS
<1> HIDE DEF c
<1>6. KeptAs(c, want)
  BY <1>4, <1>5 DEF KeptAs
<1>7. Kinded(c)
  BY <1>1, <1>5 DEF Held, Kinded, AllKinds, FieldsOf
<1> QED BY <1>1, <1>3, <1>5, <1>6, <1>7, TurnedHeld

(* Turning categories into strings keeps the invariant.                    *)
LEMMA ToStringsHeld ==
  ASSUME Held, ToStrings
  PROVE  Held'
<1> DEFINE n == Len(want)
           texts == [i \in 1..n |-> IF Cat!IsNull(col, i) THEN <<>> ELSE Cat!Value(col, i)[2]]
           c == [kind |-> "text", unit |-> col.unit, masked |-> col.masked, mask |-> col.mask,
                 data |-> Text!FlattenSeq(texts), offsets |-> <<0>> \o Text!EndsFrom(0, texts)]
<1>1. /\ KeptAs(col, want) /\ Length(col) = n /\ (col.masked => Len(col.mask) >= n)
      /\ col.kind = "categorical" /\ "text" \in Kinds
  BY HeldOf, WholeIs DEF ToStrings
<1>2. CatKept(col, want)
  BY <1>1 DEF KeptAs
<1>3. Became(c, want)
  BY <1>1 DEF ToStrings
<1>4. TextKept(c, want)
  <2>1. texts = [i \in 1..Len(want) |-> IF Cat!IsNull(col, i) THEN <<>> ELSE Cat!Value(col, i)[2]]
    OBVIOUS
  <2>3. c = [kind |-> "text", unit |-> col.unit, masked |-> col.masked, mask |-> col.mask,
             data |-> Text!FlattenSeq(texts), offsets |-> <<0>> \o Text!EndsFrom(0, texts)]
    OBVIOUS
  <2>4. col.masked => Len(col.mask) >= Len(want)
    BY <1>1
  <2> HIDE DEF texts, c, n
  <2> QED BY ONLY <1>2, <2>1, <2>3, <2>4, CodesToText
<1> HIDE DEF texts
<1>5. c.kind = "text" /\ c.unit = col.unit /\ DOMAIN c = {"kind", "unit", "masked", "mask", "data", "offsets"}
  OBVIOUS
<1> HIDE DEF c
<1>6. KeptAs(c, want)
  BY <1>4, <1>5 DEF KeptAs
<1>7. Kinded(c)
  BY <1>1, <1>5 DEF Held, Kinded, AllKinds, FieldsOf
<1> QED BY <1>1, <1>3, <1>5, <1>6, <1>7, TurnedHeld

(* compact_dict keeps the invariant.                                       *)
LEMMA CompactDictHeld ==
  ASSUME Held, CompactDict
  PROVE  Held'
<1>1. /\ KeptAs(col, want) /\ (col.masked => Len(col.mask) >= Len(want))
      /\ col.kind = "categorical" /\ Became(Cat!CompactDict(col), want)
  BY HeldOf, WholeIs DEF CompactDict
<1>2. CatKept(col, want)
  BY <1>1 DEF KeptAs
<1>3. Like(Cat!CompactDict(col), col) /\ CatKept(Cat!CompactDict(col), want)
  BY <1>1, <1>2, CatCompact
<1>4. KeptLike(Cat!CompactDict(col), col, want)
  BY <1>1, <1>3 DEF KeptLike, KeptAs, Like
<1> QED BY <1>1, <1>4, BecameHeld

(* Turning to another array keeps the invariant.                           *)
LEMMA TakeOtherHeld ==
  ASSUME Held, TakeOther
  PROVE  Held'
<1>1. col' = col /\ want' = want /\ other' \in OthersOf[col.kind]
  BY DEF TakeOther
<1> QED BY <1>1 DEF Held

(* Every step keeps the invariant, if the owner makes none of the          *)
(* diverging calls.                                                        *)
LEMMA StepHeld ==
  ASSUME Followed = {}, Held, [Next]_vars
  PROVE  Held'
<1>1. CASE Push
  BY <1>1, PushHeld
<1>2. CASE PushNull
  BY <1>2, PushNullHeld
<1>3. CASE PushNulls
  BY <1>3, PushNullsHeld
<1>4. CASE Set
  BY <1>4, SetHeld
<1>5. CASE SetNull
  BY <1>5, SetNullHeld
<1>6. CASE SetRange
  BY <1>6, SetRangeHeld
<1>7. CASE SetRangeNull
  BY <1>7, SetRangeNullHeld
<1>8. CASE Resize
  BY <1>8, ResizeHeld
<1>9. CASE RepairMask
  BY <1>9, RepairMaskHeld
<1>10. CASE DeleteRange
  BY <1>10, DeleteRangeHeld
<1>11. CASE SliceClone
  BY <1>11, SliceCloneHeld
<1>12. CASE AppendArray
  BY <1>12, AppendArrayHeld
<1>13. CASE AppendRange
  BY <1>13, AppendRangeHeld
<1>14. CASE InsertRows
  BY <1>14, InsertRowsHeld
<1>15. CASE Concat
  BY <1>15, ConcatHeld
<1>16. CASE Split
  BY <1>16, SplitHeld
<1>17. CASE Extend
  BY <1>17, ExtendHeld
<1>18. CASE Fill
  BY <1>18, FillHeld
<1>19. CASE Scatter
  BY <1>19, ScatterHeld
<1>20. CASE PushBits
  BY <1>20, PushBitsHeld
<1>21. CASE Not
  BY <1>21, NotHeld
<1>22. CASE ToCategorical
  BY <1>22, ToCategoricalHeld
<1>23. CASE ToStrings
  BY <1>23, ToStringsHeld
<1>24. CASE CompactDict
  BY <1>24, CompactDictHeld
<1>26. CASE TakeOther
  BY <1>26, TakeOtherHeld
<1>25. CASE UNCHANGED vars
  BY <1>25 DEF vars, Held
<1> QED
  BY <1>1, <1>2, <1>3, <1>4, <1>5, <1>6, <1>7, <1>8, <1>9, <1>10, <1>11, <1>12, <1>13, <1>14, <1>15, <1>16,
     <1>17, <1>18, <1>19, <1>20, <1>21, <1>22, <1>23, <1>24, <1>25, <1>26 DEF Next

(* So it holds always.                                                     *)
LEMMA AlwaysHeld ==
  ASSUME Followed = {}
  PROVE  Spec => []Held
<1>1. Init => Held
  BY InitHeld
<1>2. Held /\ [Next]_vars => Held'
  BY StepHeld
<1> QED BY <1>1, <1>2, PTL DEF Spec

(* A column of any kind, under any sequence of the editing calls but the   *)
(* ones that diverge from their documentation, with any values, other      *)
(* arrays, reserve and bound, has the rows that the calls are documented   *)
(* to make: no value and no null is lost, moved or made up.                *)
THEOREM RowsStayExact ==
  ASSUME Followed = {}
  PROVE  Spec => []RowsAreExact
<1>1. Held => RowsAreExact
  BY RowsAre DEF Held, RowsAreExact
<1> QED BY <1>1, AlwaysHeld, PTL

(* And what its readers take for granted holds all the while: strings lie  *)
(* one after the other up to the last byte, codes have entries, no         *)
(* category is twice.                                                      *)
THEOREM ColumnsStayWellFormed ==
  ASSUME Followed = {}
  PROVE  Spec => []WellFormed
<1>1. Held => WellFormed
  BY SoundIs DEF Held, WellFormed
<1> QED BY <1>1, AlwaysHeld, PTL

(* And so do its types: only decimals and datetimes have a unit, a mask is *)
(* bits, offsets and codes are natural numbers.                            *)
THEOREM ColumnsStayTyped ==
  ASSUME Followed = {}
  PROVE  Spec => []Typed(col)
<1>1. Held => Typed(col)
  BY TypedIs DEF Held
<1> QED BY <1>1, AlwaysHeld, PTL
=============================================================================
