------------------------- MODULE SharedBufferProofs -------------------------
(***************************************************************************)
(* Proofs about SharedBuffer for any finite set of values and any set of   *)
(* allocations: the count in a header never drifts from the values that    *)
(* hold it, and therefore no value outlives the storage it points into.    *)
(***************************************************************************)
EXTENDS SharedBuffer, FiniteSetTheorems, TLAPS

USE HandleAssumption, AllocAssumption, SizeAssumption

(* Only a value with a heap header is ever inside the second half of a     *)
(* drop or of an extraction.                                               *)
BusyIsHeap ==
    \A h \in Handle : handle[h].stage \in {"freeing", "to_vec", "to_vec64"} => Heap(h)

(* Nothing was consumed from an allocation that was never wrapped.         *)
UnusedIsFresh ==
    \A a \in Alloc : header[a].mem = "unused" => forgotten[a] = 0

(* The inductive invariant: each of the three properties needs the others. *)
(* A drop may free because the count says it is alone, the count says so   *)
(* because it is exact, and it stays exact because no value dangles.       *)
Inv ==
    /\ TypeOK
    /\ BusyIsHeap
    /\ UnusedIsFresh
    /\ NoDanglingHandle
    /\ CountIsHolders
    /\ TakerIsAlone
    /\ ReleasedWithLastHandle

-----------------------------------------------------------------------------
(* The holders of an allocation form a finite set.                         *)
LEMMA HoldersFinite == \A a : IsFiniteSet(Holders(a))
  <1> TAKE a
  <1>1. Holders(a) \subseteq Handle
    BY DEF Holders
  <1> QED
    BY <1>1, FS_Subset

(* A count of one under the exact-count invariant singles out its holder.  *)
LEMMA UniqueIsSole ==
    ASSUME Inv, NEW h \in Handle, Live(h), Heap(h),
           header[handle[h].data].ref_cnt = 1
    PROVE  /\ forgotten[handle[h].data] = 0
           /\ \A g \in Handle \ {h} :
                 handle[g].stage # "none" => handle[g].data # handle[h].data
  <1> DEFINE a == handle[h].data
  <1>1. a \in Alloc /\ header[a].mem = "live" /\ h \in Holders(a)
    BY DEF Inv, TypeOK, Value, Heap, Live, NoDanglingHandle, Holders
  <1>2. /\ IsFiniteSet(Holders(a) \ {h})
        /\ Cardinality(Holders(a) \ {h}) = Cardinality(Holders(a)) - 1
    BY <1>1, HoldersFinite, FS_RemoveElement
  <1>3. Cardinality(Holders(a) \ {h}) \in Nat /\ Cardinality(Holders(a)) \in Nat
    BY <1>2, HoldersFinite, FS_CardinalityType
  <1>4. 1 = Cardinality(Holders(a)) + forgotten[a] /\ forgotten[a] \in Nat
    BY <1>1 DEF Inv, TypeOK, CountIsHolders
  <1>5. Cardinality(Holders(a) \ {h}) = 0 /\ forgotten[a] = 0
    BY <1>2, <1>3, <1>4
  <1>6. Holders(a) \ {h} = {}
    BY <1>2, <1>5, FS_EmptySet
  <1>7. ASSUME NEW g \in Handle \ {h}, handle[g].stage # "none", handle[g].data = a
        PROVE  FALSE
    <2>1. handle[g].stage # "freeing"
      BY <1>7 DEF Inv, TakerIsAlone, Live
    <2>2. g \in Holders(a)
      BY <1>7, <2>1 DEF Inv, TypeOK, Value, Stages, Holders
    <2> QED
      BY <2>2, <1>6, <1>7
  <1> QED
    BY <1>5, <1>7

-----------------------------------------------------------------------------
(* One lemma per kind of step.                                             *)

(* Wrapping an unused allocation gives it exactly one holder.              *)
LEMMA WrapStep ==
    ASSUME Inv, NEW h \in Handle, NEW a \in Alloc, NEW kind \in Kinds, Wrap(h, a, kind)
    PROVE  Inv'
  <1> USE DEF Wrap
  <1>1. \A g \in Handle : handle[g].stage # "none" => handle[g].data # a
    BY DEF Inv, NoDanglingHandle, Heap
  <1>2. \A g \in Handle \ {h} : handle'[g] = handle[g]
    BY DEF Inv, TypeOK
  <1>3. /\ handle'[h].stage = "live" /\ handle'[h].data = a
        /\ handle'[h].ptr = 0 /\ handle'[h].len = Size
    BY DEF Inv, TypeOK
  <1>4. /\ header'[a].mem = "live" /\ header'[a].ref_cnt = 1 /\ header'[a].kind = kind
        /\ \A b \in Alloc \ {a} : header'[b] = header[b]
    BY DEF Inv, TypeOK
  <1>5. Holders(a)' = {h}
    BY <1>1, <1>2, <1>3 DEF Holders
  <1>6. \A b \in Alloc \ {a} : Holders(b)' = Holders(b)
    BY <1>2, <1>3 DEF Holders
  <1>7. forgotten[a] = 0
    BY DEF Inv, UnusedIsFresh
  <1>a. TypeOK'
    BY DEF Inv, TypeOK, Header, Value, Stages, Mem, Kinds
  <1>b. BusyIsHeap'
    BY <1>2, <1>3 DEF Inv, BusyIsHeap, Heap
  <1>c. UnusedIsFresh'
    BY <1>4, <1>7 DEF Inv, UnusedIsFresh
  <1>d. NoDanglingHandle'
    BY <1>1, <1>2, <1>3, <1>4, <1>a DEF Inv, TypeOK, Value, NoDanglingHandle, Heap
  <1>e. CountIsHolders'
    <2>1. Cardinality({h}) = 1
      BY FS_Singleton
    <2>2. CountIsHolders!(a)'
      BY <2>1, <1>4, <1>5, <1>7
    <2> QED
      BY <2>2, <1>4, <1>6 DEF Inv, CountIsHolders
  <1>f. TakerIsAlone'
    BY <1>1, <1>2, <1>3 DEF Inv, TakerIsAlone
  <1>g. ReleasedWithLastHandle'
    BY <1>1, <1>2, <1>3, <1>4 DEF Inv, ReleasedWithLastHandle, NoDanglingHandle
  <1> QED
    BY <1>a, <1>b, <1>c, <1>d, <1>e, <1>f, <1>g DEF Inv

(* Cloning or slicing a live value adds one holder and one reference.      *)
LEMMA ShareStep ==
    ASSUME Inv, NEW h \in Handle, NEW g \in Handle,
           NEW a \in Alloc, Live(h), handle[h].data = a, handle[g].stage = "none",
           header' = [header EXCEPT ![a].ref_cnt = @ + 1],
           NEW v \in Value, v.stage = "live", v.data = a,
           handle' = [handle EXCEPT ![g] = v],
           UNCHANGED <<forgotten, extracted>>
    PROVE  Inv'
  <1>0. g # h /\ header[a].mem = "live" /\ h \in Holders(a) /\ g \notin Holders(a)
    BY DEF Inv, TypeOK, Value, Heap, Live, NoDanglingHandle, Holders
  <1>1. handle'[g] = v /\ \A k \in Handle \ {g} : handle'[k] = handle[k]
    BY DEF Inv, TypeOK
  <1>2. /\ header'[a].ref_cnt = header[a].ref_cnt + 1 /\ header'[a].mem = "live"
        /\ \A b \in Alloc : header'[b].mem = header[b].mem
        /\ \A b \in Alloc \ {a} : header'[b] = header[b]
    BY <1>0 DEF Inv, TypeOK, Header
  <1>3. Holders(a)' = Holders(a) \cup {g}
    BY <1>1 DEF Holders
  <1>4. \A b \in Alloc \ {a} : Holders(b)' = Holders(b)
    BY <1>1 DEF Holders
  <1>5. Cardinality(Holders(a) \cup {g}) = Cardinality(Holders(a)) + 1
    BY <1>0, HoldersFinite, FS_AddElement
  <1>6. \A k \in Handle : handle[k].stage \in {"freeing", "to_vec", "to_vec64"}
                                => handle[k].data # a
    BY <1>0 DEF Inv, TakerIsAlone, Live
  <1>a. TypeOK'
    BY <1>0 DEF Inv, TypeOK, Header, Value
  <1>b. BusyIsHeap'
    BY <1>1 DEF Inv, BusyIsHeap, Heap
  <1>c. UnusedIsFresh'
    BY <1>2 DEF Inv, UnusedIsFresh
  <1>d. NoDanglingHandle'
    BY <1>0, <1>1, <1>2, <1>a DEF Inv, TypeOK, Value, NoDanglingHandle, Heap
  <1>e. CountIsHolders'
    <2>1. header[a].ref_cnt = Cardinality(Holders(a)) + forgotten[a]
      BY <1>0 DEF Inv, CountIsHolders
    <2>2. Cardinality(Holders(a)) \in Nat /\ forgotten[a] \in Nat
      BY <1>0, HoldersFinite, FS_CardinalityType DEF Inv, TypeOK
    <2>3. header'[a].ref_cnt = Cardinality(Holders(a)') + forgotten'[a]
      BY <2>1, <2>2, <1>2, <1>3, <1>5
    <2> QED
      BY <2>3, <1>2, <1>4 DEF Inv, CountIsHolders
  <1>f. TakerIsAlone'
    BY <1>1, <1>6 DEF Inv, TakerIsAlone
  <1>g. ReleasedWithLastHandle'
    BY <1>0, <1>1, <1>2 DEF Inv, ReleasedWithLastHandle, Live
  <1> QED
    BY <1>a, <1>b, <1>c, <1>d, <1>e, <1>f, <1>g DEF Inv

(* Steps that only create or discard a value without a heap header.        *)
LEMMA StaticStep ==
    ASSUME Inv, NEW g \in Handle, NEW v \in Value,
           handle[g].stage = "none" \/ (Live(g) /\ ~Heap(g)),
           v.stage \in {"none", "live"}, v.data = NoAlloc,
           handle' = [handle EXCEPT ![g] = v],
           UNCHANGED <<header, forgotten, extracted>>
    PROVE  Inv'
  <1>1. handle'[g] = v /\ \A k \in Handle \ {g} : handle'[k] = handle[k]
    BY DEF Inv, TypeOK
  <1>2. \A a \in Alloc : Holders(a)' = Holders(a)
    BY <1>1 DEF Holders, Live, Heap
  <1>a. TypeOK'
    BY DEF Inv, TypeOK
  <1>b. BusyIsHeap'
    BY <1>1 DEF Inv, BusyIsHeap, Heap
  <1>d. UnusedIsFresh' /\ NoDanglingHandle'
    BY <1>1 DEF Inv, UnusedIsFresh, NoDanglingHandle, Heap
  <1>e. CountIsHolders'
    BY <1>2 DEF Inv, CountIsHolders
  <1>f. TakerIsAlone'
    BY <1>1 DEF Inv, TakerIsAlone, BusyIsHeap, Heap
  <1>g. ReleasedWithLastHandle'
    BY <1>1 DEF Inv, ReleasedWithLastHandle, Live, Heap
  <1> QED
    BY <1>a, <1>b, <1>d, <1>e, <1>f, <1>g DEF Inv

(* A value that gives up its hold: by drop the count falls with it, by a   *)
(* copying extraction the count stays and the reference is forgotten.      *)
LEMMA ReleaseStep ==
    ASSUME Inv, NEW h \in Handle, NEW a \in Alloc, Live(h), handle[h].data = a,
           \/ /\ header' = [header EXCEPT ![a].ref_cnt = @ - 1]
              /\ handle' = [handle EXCEPT ![h] = Absent]
              /\ header[a].ref_cnt # 1
              /\ UNCHANGED forgotten
           \/ /\ handle' = [handle EXCEPT ![h] = Absent]
              /\ forgotten' = [forgotten EXCEPT ![a] = @ + 1]
              /\ UNCHANGED header,
           extracted' \subseteq [want : Bytes, got : Bytes]
    PROVE  Inv'
  <1>0. header[a].mem = "live" /\ h \in Holders(a)
    BY DEF Inv, NoDanglingHandle, Heap, Live, Holders
  <1>1. handle'[h] = Absent /\ \A k \in Handle \ {h} : handle'[k] = handle[k]
    BY DEF Inv, TypeOK
  <1>2. Holders(a)' = Holders(a) \ {h} /\ \A b \in Alloc \ {a} : Holders(b)' = Holders(b)
    BY <1>1, <1>0 DEF Holders, Absent
  <1>3. /\ Cardinality(Holders(a) \ {h}) = Cardinality(Holders(a)) - 1
        /\ Cardinality(Holders(a)) \in Nat /\ Cardinality(Holders(a) \ {h}) \in Nat
        /\ IsFiniteSet(Holders(a) \ {h})
    BY <1>0, HoldersFinite, FS_RemoveElement, FS_CardinalityType
  <1>4. /\ header[a].ref_cnt = Cardinality(Holders(a)) + forgotten[a]
        /\ header[a].ref_cnt \in Nat /\ forgotten[a] \in Nat
    BY <1>0 DEF Inv, CountIsHolders, TypeOK, Header
  <1>5. /\ \A b \in Alloc : header'[b].mem = header[b].mem
        /\ \A b \in Alloc \ {a} : header'[b] = header[b] /\ forgotten'[b] = forgotten[b]
        /\ header'[a].ref_cnt = Cardinality(Holders(a) \ {h}) + forgotten'[a]
        /\ header'[a].ref_cnt \in Nat /\ forgotten'[a] \in Nat
    BY <1>3, <1>4 DEF Inv, TypeOK, Header
  <1>a. TypeOK'
    <2>1. header' \in [Alloc -> Header] /\ forgotten' \in [Alloc -> Nat]
      BY <1>4, <1>5 DEF Inv, TypeOK, Header
    <2>2. handle' \in [Handle -> Value]
      BY DEF Inv, TypeOK, Value, Absent, Stages
    <2> QED
      BY <2>1, <2>2 DEF TypeOK
  <1>b. BusyIsHeap'
    BY <1>1 DEF Inv, BusyIsHeap, Heap, Absent
  <1>c. UnusedIsFresh'
    BY <1>0, <1>5 DEF Inv, UnusedIsFresh
  <1>d. NoDanglingHandle'
    BY <1>1, <1>5, <1>a DEF Inv, TypeOK, Value, NoDanglingHandle, Heap, Absent
  <1>e. CountIsHolders'
    <2>1. header'[a].ref_cnt = Cardinality(Holders(a)') + forgotten'[a]
      BY <1>2, <1>5
    <2>2. ASSUME NEW b \in Alloc \ {a}, header'[b].mem = "live"
          PROVE  header'[b].ref_cnt = Cardinality(Holders(b)') + forgotten'[b]
      <3>1. header'[b] = header[b] /\ forgotten'[b] = forgotten[b] /\ Holders(b)' = Holders(b)
        BY <1>2, <1>5
      <3> QED
        BY <2>2, <3>1 DEF Inv, CountIsHolders
    <2> QED
      BY <2>1, <2>2 DEF CountIsHolders
  <1>f. TakerIsAlone'
    BY <1>1 DEF Inv, TakerIsAlone, Absent
  <1>g. ReleasedWithLastHandle'
    <2>1. ASSUME header'[a].mem = "live", forgotten'[a] = 0
          PROVE  \E k \in Handle : handle'[k].stage # "none" /\ handle'[k].data = a
      <3>1. forgotten[a] = 0 /\ header[a].ref_cnt # 1
        BY <2>1, <1>4 DEF Inv, TypeOK
      <3>2. Cardinality(Holders(a) \ {h}) # 0
        BY <3>1, <1>3, <1>4
      <3>3. PICK k \in Holders(a) : k # h
        BY <3>2, <1>3, FS_EmptySet
      <3> QED
        BY <3>3, <1>1 DEF Holders
    <2> QED
      BY <2>1, <1>0, <1>1, <1>5 DEF Inv, ReleasedWithLastHandle
  <1> QED
    BY <1>a, <1>b, <1>c, <1>d, <1>e, <1>f, <1>g DEF Inv

(* A value that sees itself unique and goes on to free or take the storage *)
(* is, from then on, the only value on it.                                 *)
LEMMA ClaimStep ==
    ASSUME Inv, NEW h \in Handle, NEW a \in Alloc, Live(h), handle[h].data = a,
           header[a].ref_cnt = 1,
           \/ /\ header' = [header EXCEPT ![a].ref_cnt = @ - 1]
              /\ handle' = [handle EXCEPT ![h].stage = "freeing"]
           \/ /\ header' = header
              /\ \E target \in {"to_vec", "to_vec64"} :
                    handle' = [handle EXCEPT ![h].stage = target],
           UNCHANGED <<forgotten, extracted>>
    PROVE  Inv'
  <1>0. /\ header[a].mem = "live" /\ h \in Holders(a) /\ forgotten[a] = 0
        /\ \A g \in Handle \ {h} : handle[g].stage # "none" => handle[g].data # a
    BY UniqueIsSole DEF Inv, NoDanglingHandle, Heap, Live, Holders
  <1>1. /\ handle'[h].data = a /\ handle'[h].stage \in {"freeing", "to_vec", "to_vec64"}
        /\ \A k \in Handle \ {h} : handle'[k] = handle[k]
    BY DEF Inv, TypeOK, Value
  <1>2. /\ \A b \in Alloc : header'[b].mem = header[b].mem
        /\ \A b \in Alloc \ {a} : header'[b] = header[b]
    BY DEF Inv, TypeOK, Header
  <1>3. \A b \in Alloc \ {a} : Holders(b)' = Holders(b)
    BY <1>1 DEF Holders
  <1>4. header'[a].ref_cnt = Cardinality(Holders(a)')
    <2>1. CASE handle'[h].stage = "freeing"
      <3>1. Holders(a)' = {} /\ header'[a].ref_cnt = 0
        BY <2>1, <1>0, <1>1 DEF Holders, Inv, TypeOK, Header, Value
      <3> QED
        BY <3>1, FS_EmptySet
    <2>2. CASE handle'[h].stage # "freeing"
      <3>1. Holders(a)' = {h} /\ header'[a].ref_cnt = 1
        BY <2>2, <1>0, <1>1 DEF Holders, Inv, TypeOK, Header, Value
      <3> QED
        BY <3>1, FS_Singleton
    <2> QED
      BY <2>1, <2>2
  <1>a. TypeOK'
    <2>1. header' \in [Alloc -> Header]
      <3>1. header[a].ref_cnt - 1 \in Nat
        OBVIOUS
      <3>2. [header[a] EXCEPT !.ref_cnt = @ - 1] \in Header
        BY <3>1 DEF Inv, TypeOK, Header
      <3> QED
        BY <3>2 DEF Inv, TypeOK
    <2>2. handle' \in [Handle -> Value]
      <3>1. \A s \in Stages : [handle[h] EXCEPT !.stage = s] \in Value
        BY DEF Inv, TypeOK, Value
      <3> QED
        BY <3>1 DEF Inv, TypeOK, Stages
    <2> QED
      BY <2>1, <2>2 DEF Inv, TypeOK
  <1>b. BusyIsHeap' /\ UnusedIsFresh'
    BY <1>1, <1>2 DEF Inv, BusyIsHeap, UnusedIsFresh, Heap
  <1>d. NoDanglingHandle'
    BY <1>0, <1>1, <1>2, <1>a DEF Inv, TypeOK, Value, NoDanglingHandle, Heap
  <1>e. CountIsHolders'
    <2>1. header'[a].ref_cnt = Cardinality(Holders(a)') + forgotten'[a]
      BY <1>0, <1>4, <1>a DEF TypeOK, Header
    <2> QED
      BY <2>1, <1>2, <1>3 DEF Inv, CountIsHolders
  <1>f. TakerIsAlone'
    BY <1>0, <1>1 DEF Inv, TakerIsAlone, Live
  <1>g. ReleasedWithLastHandle'
    BY <1>1, <1>2 DEF Inv, ReleasedWithLastHandle
  <1> QED
    BY <1>a, <1>b, <1>d, <1>e, <1>f, <1>g DEF Inv

(* The storage leaves with the one value that was on it.                   *)
LEMMA FinishStep ==
    ASSUME Inv, NEW h \in Handle, NEW a \in Alloc, handle[h].data = a,
           handle[h].stage \in {"freeing", "to_vec", "to_vec64"},
           NEW hd \in Header, hd.mem \in {"freed", "moved", "lost"},
           header' = [header EXCEPT ![a] = hd],
           handle' = [handle EXCEPT ![h] = Absent],
           UNCHANGED forgotten, extracted' \subseteq [want : Bytes, got : Bytes]
    PROVE  Inv'
  <1>0. \A g \in Handle \ {h} : handle[g].stage # "none" => handle[g].data # a
    BY DEF Inv, TakerIsAlone
  <1>1. handle'[h] = Absent /\ \A k \in Handle \ {h} : handle'[k] = handle[k]
    BY DEF Inv, TypeOK
  <1>2. header'[a] = hd /\ \A b \in Alloc \ {a} : header'[b] = header[b]
    BY DEF Inv, TypeOK
  <1>3. \A b \in Alloc \ {a} : Holders(b)' = Holders(b)
    BY <1>1 DEF Holders, Absent
  <1>a. TypeOK'
    BY DEF Inv, TypeOK, Value, Absent, Stages
  <1>b. BusyIsHeap' /\ UnusedIsFresh'
    BY <1>1, <1>2 DEF Inv, BusyIsHeap, UnusedIsFresh, Heap, Absent
  <1>d. NoDanglingHandle'
    BY <1>0, <1>1, <1>2, <1>a DEF Inv, TypeOK, Value, NoDanglingHandle, Heap, Absent
  <1>e. CountIsHolders'
    BY <1>2, <1>3 DEF Inv, CountIsHolders
  <1>f. TakerIsAlone'
    BY <1>1 DEF Inv, TakerIsAlone, Absent
  <1>g. ReleasedWithLastHandle'
    BY <1>0, <1>1, <1>2 DEF Inv, ReleasedWithLastHandle, Absent
  <1> QED
    BY <1>a, <1>b, <1>d, <1>e, <1>f, <1>g DEF Inv

-----------------------------------------------------------------------------
(* Nothing exists at first.                                                *)
LEMMA InitInv == Init => Inv
  <1> SUFFICES ASSUME Init PROVE Inv
    OBVIOUS
  <1>1. TypeOK
    BY DEF Init, TypeOK, Header, Value, Kinds, Mem, Stages, Absent
  <1>2. \A h \in Handle : handle[h].stage = "none"
    BY DEF Init, Absent
  <1>3. \A a \in Alloc : header[a].mem = "unused" /\ forgotten[a] = 0
    BY DEF Init
  <1> QED
    BY <1>1, <1>2, <1>3 DEF Inv, BusyIsHeap, UnusedIsFresh, NoDanglingHandle,
       CountIsHolders, TakerIsAlone, ReleasedWithLastHandle

(* A value with a heap header points at a member of Alloc.                 *)
LEMMA HeapAlloc ==
    ASSUME TypeOK, NEW h \in Handle, Heap(h)
    PROVE  handle[h].data \in Alloc
  BY DEF TypeOK, Value, Heap

(* The two steps of Clone and Slice: a new value, with or without a header.*)
LEMMA CloneInv ==
    ASSUME Inv, NEW h \in Handle, NEW g \in Handle, Clone(h, g)
    PROVE  Inv'
  <1>1. handle[h] \in Value
    BY DEF Inv, TypeOK
  <1>2. CASE Heap(h)
    BY <1>1, <1>2, HeapAlloc, ShareStep DEF Inv, Clone, AddRef, Live
  <1>3. CASE ~Heap(h)
    BY <1>1, <1>3, StaticStep DEF Clone, AddRef, Live, Heap
  <1> QED
    BY <1>2, <1>3

(* A slice takes a reference, or is the static empty buffer.             *)
LEMMA SliceInv ==
    ASSUME Inv, NEW h \in Handle, NEW g \in Handle,
           NEW start \in 0..Size, NEW end \in 0..Size, Slice(h, g, start, end)
    PROVE  Inv'
  <1> DEFINE empty == [Absent EXCEPT !.stage = "live"]
             part  == [handle[h] EXCEPT !.ptr = @ + start, !.len = end - start]
  <1>1. /\ empty \in Value /\ empty.stage = "live" /\ empty.data = NoAlloc
    BY DEF Absent, Value, Stages
  <1>2. /\ part \in Value /\ part.stage = "live" /\ part.data = handle[h].data
    <2>1. end - start \in Nat /\ handle[h].ptr + start \in Nat
      BY DEF Slice, Inv, TypeOK, Value
    <2>2. handle[h] \in Value /\ handle[h].stage = "live"
      BY DEF Slice, Live, Inv, TypeOK
    <2> QED
      BY <2>1, <2>2 DEF Value
  <1>3. CASE start = end
    <2>1. handle' = [handle EXCEPT ![g] = empty] /\ UNCHANGED <<header, forgotten, extracted>>
      BY <1>3 DEF Slice
    <2> QED
      BY <1>1, <2>1, StaticStep DEF Slice
  <1>4. CASE start # end /\ Heap(h)
    <2>1. /\ handle' = [handle EXCEPT ![g] = part]
          /\ header' = [header EXCEPT ![handle[h].data].ref_cnt = @ + 1]
          /\ UNCHANGED <<forgotten, extracted>>
      BY <1>4 DEF Slice, AddRef
    <2>2. handle[h].data \in Alloc
      BY <1>4, HeapAlloc DEF Inv
    <2> HIDE DEF part
    <2> QED
      BY <1>2, <2>1, <2>2, ShareStep DEF Slice
  <1>5. CASE start # end /\ ~Heap(h)
    <2>1. /\ handle' = [handle EXCEPT ![g] = part]
          /\ UNCHANGED <<header, forgotten, extracted>>
      BY <1>5 DEF Slice, AddRef
    <2>2. part.data = NoAlloc
      BY <1>2, <1>5 DEF Heap
    <2> HIDE DEF part
    <2> QED
      BY <1>2, <2>1, <2>2, StaticStep DEF Slice
  <1> QED
    BY <1>3, <1>4, <1>5

(* Both outcomes of the decrement in drop.                                 *)
LEMMA DropInv ==
    ASSUME Inv, NEW h \in Handle, DropDecrement(h)
    PROVE  Inv'
  <1>1. handle[h].data \in Alloc /\ Live(h)
    BY HeapAlloc DEF DropDecrement, Inv
  <1>2. CASE header[handle[h].data].ref_cnt = 1
    <2>1. /\ header' = [header EXCEPT ![handle[h].data].ref_cnt = @ - 1]
          /\ handle' = [handle EXCEPT ![h].stage = "freeing"]
          /\ UNCHANGED <<forgotten, extracted>>
      BY <1>2 DEF DropDecrement, WasLast
    <2> QED
      BY <1>1, <1>2, <2>1, ClaimStep
  <1>3. CASE header[handle[h].data].ref_cnt # 1
    <2>1. /\ header' = [header EXCEPT ![handle[h].data].ref_cnt = @ - 1]
          /\ handle' = [handle EXCEPT ![h] = Absent]
          /\ UNCHANGED <<forgotten, extracted>>
      BY <1>3 DEF DropDecrement, WasLast
    <2>2. extracted' \subseteq [want : Bytes, got : Bytes]
      BY <2>1 DEF Inv, TypeOK
    <2> QED
      BY <1>1, <1>3, <2>1, <2>2, ReleaseStep
  <1> QED
    BY <1>2, <1>3

(* The start of an extraction: claim, copy and forget, or copy a static.   *)
LEMMA IntoStartInv ==
    ASSUME Inv, NEW h \in Handle, NEW target \in {"to_vec", "to_vec64"},
           IntoStart(h, target)
    PROVE  Inv'
  <1>0. Live(h) /\ handle[h] \in Value
    BY DEF IntoStart, Inv, TypeOK
  <1>1. CASE Heap(h) /\ MayMove(header[handle[h].data].kind, target) /\ IsUnique(h)
    <2>1. handle[h].data \in Alloc /\ header[handle[h].data].ref_cnt = 1
      BY <1>1, HeapAlloc DEF Inv, IsUnique
    <2>2. /\ handle' = [handle EXCEPT ![h].stage = target]
          /\ UNCHANGED <<header, forgotten, extracted>>
      BY <1>1 DEF IntoStart
    <2> QED
      BY <1>0, <2>1, <2>2, ClaimStep
  <1>2. CASE Heap(h) /\ ~(MayMove(header[handle[h].data].kind, target) /\ IsUnique(h))
    <2>1. handle[h].data \in Alloc
      BY <1>2, HeapAlloc DEF Inv
    <2>2. /\ handle' = [handle EXCEPT ![h] = Absent]
          /\ forgotten' = [forgotten EXCEPT ![handle[h].data] = @ + 1]
          /\ extracted' = {[want |-> AsSlice(h), got |-> AsSlice(h)]}
          /\ UNCHANGED header
      BY <1>2 DEF IntoStart
    <2>3. extracted' \subseteq [want : Bytes, got : Bytes]
      BY <1>0, <2>1, <2>2 DEF AsSlice, Bytes, Value
    <2> QED
      BY <1>0, <2>1, <2>2, <2>3, ReleaseStep
  <1>3. CASE ~Heap(h)
    <2>1. /\ handle' = [handle EXCEPT ![h] = Absent]
          /\ UNCHANGED <<header, forgotten, extracted>>
      BY <1>3 DEF IntoStart
    <2>2. Absent \in Value /\ Absent.stage = "none" /\ Absent.data = NoAlloc
      BY DEF Absent, Value, Stages
    <2> QED
      BY <1>0, <1>3, <2>1, <2>2, StaticStep
  <1> QED
    BY <1>1, <1>2, <1>3

(* The second halves of a drop and of an extraction.                       *)
LEMMA FinishInv ==
    ASSUME Inv, NEW h \in Handle, DropFree(h) \/ IntoTake(h)
    PROVE  Inv'
  <1> DEFINE a == handle[h].data
             freed == [header[a] EXCEPT !.mem = "freed"]
             taken == [header[a] EXCEPT !.ref_cnt = 0,
                          !.mem = IF header[a].kind = "vec64" /\ handle[h].stage = "to_vec"
                                  THEN "lost" ELSE "moved"]
  <1>0. a \in Alloc /\ handle[h] \in Value /\ header[a] \in Header
    <2>1. Heap(h)
      BY DEF DropFree, IntoTake, Inv, BusyIsHeap
    <2> QED
      BY <2>1, HeapAlloc DEF Inv, TypeOK
  <1>1. CASE DropFree(h)
    <2>1. freed \in Header /\ freed.mem = "freed"
      BY <1>0 DEF Header, Mem
    <2>2. /\ handle[h].stage = "freeing"
          /\ header' = [header EXCEPT ![a] = freed]
          /\ handle' = [handle EXCEPT ![h] = Absent]
          /\ UNCHANGED <<forgotten, extracted>>
      BY <1>1 DEF DropFree
    <2>3. extracted' \subseteq [want : Bytes, got : Bytes]
      BY <2>2 DEF Inv, TypeOK
    <2> HIDE DEF freed
    <2> QED
      BY <1>0, <2>1, <2>2, <2>3, FinishStep
  <1>2. CASE IntoTake(h)
    <2>1. taken \in Header /\ taken.mem \in {"lost", "moved"}
      BY <1>0 DEF Header, Mem
    <2>2. /\ handle[h].stage \in {"to_vec", "to_vec64"}
          /\ header' = [header EXCEPT ![a] = taken]
          /\ handle' = [handle EXCEPT ![h] = Absent]
          /\ extracted' = {[want |-> AsSlice(h), got |-> [of |-> a, ptr |-> 0, len |-> Size]]}
          /\ UNCHANGED forgotten
      BY <1>2 DEF IntoTake
    <2>3. extracted' \subseteq [want : Bytes, got : Bytes]
      BY <1>0, <2>2 DEF AsSlice, Bytes, Value
    <2> HIDE DEF taken
    <2> QED
      BY <1>0, <2>1, <2>2, <2>3, FinishStep
  <1> QED
    BY <1>1, <1>2

(* Every step, of any value's owner, keeps the invariant.                  *)
LEMMA NextInv == Inv /\ [Next]_vars => Inv'
  <1> SUFFICES ASSUME Inv, [Next]_vars PROVE Inv'
    OBVIOUS
  <1>1. ASSUME NEW h \in Handle, NEW a \in Alloc,
               \/ FromVec(h, a) \/ FromVec64(h, a)
               \/ FromOwner(h, a) \/ FromMemfdOwner(h, a)
        PROVE  Inv'
    BY <1>1, WrapStep DEF FromVec, FromVec64, FromOwner, FromMemfdOwner, Kinds
  <1>2. ASSUME NEW h \in Handle, FromStatic(h) \/ DropStatic(h)
        PROVE  Inv'
    <2> DEFINE lit == [stage |-> "live", data |-> NoAlloc, ptr |-> 0, len |-> Size]
    <2>1. lit \in Value /\ Absent \in Value
      BY DEF Absent, Value, Stages
    <2>2. lit.stage = "live" /\ lit.data = NoAlloc /\ Absent.stage = "none" /\ Absent.data = NoAlloc
      BY DEF Absent
    <2>3. CASE FromStatic(h)
      BY <2>1, <2>2, <2>3, StaticStep DEF FromStatic
    <2>4. CASE DropStatic(h)
      BY <2>1, <2>2, <2>4, StaticStep DEF DropStatic
    <2> QED
      BY <1>2, <2>3, <2>4
  <1>3. ASSUME NEW h \in Handle, IntoVec(h) \/ IntoVec64(h)
        PROVE  Inv'
    BY <1>3, IntoStartInv DEF IntoVec, IntoVec64
  <1>4. CASE UNCHANGED vars
    BY <1>4 DEF vars, Inv, TypeOK, BusyIsHeap, UnusedIsFresh, NoDanglingHandle,
       CountIsHolders, TakerIsAlone, ReleasedWithLastHandle, Holders, Heap
  <1> QED
    BY <1>1, <1>2, <1>3, <1>4, CloneInv, SliceInv, DropInv, FinishInv DEF Next

-----------------------------------------------------------------------------
(* The invariant holds for ever.                                         *)
LEMMA Invariance == Spec => []Inv
  BY InitInv, NextInv, PTL DEF Spec

(* Every handle and every header stays a well-formed value: in particular  *)
(* no decrement ever takes the count of a header below zero.               *)
THEOREM TypeCorrect == Spec => []TypeOK
  <1>1. Inv => TypeOK
    BY DEF Inv
  <1> QED
    BY <1>1, Invariance, PTL

(* The raw pointer read of as_slice is sound: whatever clones, slices,     *)
(* drops and extractions run concurrently, a handle that exists points     *)
(* into storage that has not been released or moved away.                  *)
THEOREM HandlesNeverDangle == Spec => []NoDanglingHandle
  <1>1. Inv => NoDanglingHandle
    BY DEF Inv
  <1> QED
    BY <1>1, Invariance, PTL

(* The header's count equals the handles that hold a reference plus the    *)
(* references that copying extractions consumed without decrementing.      *)
THEOREM CountIsExact == Spec => []CountIsHolders
  <1>1. Inv => CountIsHolders
    BY DEF Inv
  <1> QED
    BY <1>1, Invariance, PTL

(* Between the load that finds a handle unique and the swap that takes its *)
(* storage, and between the last decrement and the free, nobody else can   *)
(* have come to hold the same storage.                                     *)
THEOREM ClaimsAreExclusive == Spec => []TakerIsAlone
  <1>1. Inv => TakerIsAlone
    BY DEF Inv
  <1> QED
    BY <1>1, Invariance, PTL

(* If every reference was returned by drop, the last handle to go takes    *)
(* the storage with it: drops alone never leak an allocation.              *)
THEOREM DropsNeverLeak == Spec => []ReleasedWithLastHandle
  <1>1. Inv => ReleasedWithLastHandle
    BY DEF Inv
  <1> QED
    BY <1>1, Invariance, PTL
=============================================================================
