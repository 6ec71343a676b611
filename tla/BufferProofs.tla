---------------------------- MODULE BufferProofs ----------------------------
(***************************************************************************)
(* For any buffers, allocations, elements and alignment: a window never    *)
(* reaches past its owner, and shared memory is never written.  The bound  *)
(* MaxLen plays no part.                                                   *)
(***************************************************************************)
EXTENDS Buffer, TLAPS

Window0 == [kind : {"shared"}, owner : [mem : Mem, base : Nat, size : Nat], off : Nat, len : Nat]
AnyStorage ==
  [kind : {"absent", "view"}] \cup [kind : {"owned"}, data : Seq(Val)] \cup Window0

(* The types that matter here, without the bound. *)
Typed == buf \in [Handle -> AnyStorage] /\ mem \in [Mem -> Seq(Val)]
Inv == Typed /\ WindowsInsideOwner

(* What it takes for one storage to be a window inside its owner. *)
Inside(s, m) ==
  s.kind = "shared" => /\ s \in Window0
                       /\ s.off + s.len <= s.owner.size
                       /\ s.owner.base + s.owner.size <= Len(m[s.owner.mem])

(* A sequence of bounded length is a sequence.                           *)
LEMMA ShortIsSeq == \A s \in Short(Val) : s \in Seq(Val)
BY SMT DEF Short

(* A slice that fits has the length that was asked for.                  *)
LEMMA SubSeqTyped ==
  ASSUME NEW s \in Seq(Val), NEW i \in Nat, NEW n \in Nat, i + n <= Len(s)
  PROVE  Elements(s, i, n) \in Seq(Val) /\ Len(Elements(s, i, n)) = n
BY SMT DEF Elements

(* The parts of a shared window have their types.                        *)
LEMMA WindowIsTyped ==
  ASSUME Inv, NEW h \in Handle, Is(h, "shared")
  PROVE  buf[h] \in Window0
BY SMT DEF Inv, Typed, AnyStorage, Window0, Is

(* The invariant puts every window inside its owner.                     *)
LEMMA InvIsInside == ASSUME Inv PROVE \A h \in Handle : Inside(buf[h], mem)
BY WindowIsTyped DEF Inv, WindowsInsideOwner, Inside, Is

(* Owned memory is a storage that needs no owner.                        *)
LEMMA OwnedIsTyped == \A s \in Seq(Val) : Owned(s) \in AnyStorage /\ Owned(s).kind = "owned"
BY DEF Owned, AnyStorage

(* Every buffer reads as a sequence, a window as one of its length.      *)
LEMMA ContentsTyped ==
  ASSUME Inv, NEW h \in Handle, Held(h)
  PROVE  /\ Contents(h) \in Seq(Val)
         /\ Is(h, "shared") => Len(Contents(h)) = buf[h].len
<1>1. CASE Is(h, "owned")
  BY <1>1, SMT DEF Inv, Typed, AnyStorage, Window0, Contents, Is
<1>2. CASE Is(h, "shared")
  <2>1. buf[h] \in Window0 /\ mem[buf[h].owner.mem] \in Seq(Val)
    BY <1>2, WindowIsTyped, SMT DEF Inv, Typed, Window0
  <2>2. buf[h].owner.base + buf[h].off + buf[h].len <= Len(mem[buf[h].owner.mem])
    BY <1>2, <2>1, SMT DEF Inv, WindowsInsideOwner, Window0
  <2>3. buf[h].owner.base + buf[h].off \in Nat /\ buf[h].len \in Nat
    BY <2>1, SMT DEF Window0
  <2>4. Contents(h) = Elements(mem[buf[h].owner.mem], buf[h].owner.base + buf[h].off, buf[h].len)
    BY <1>2 DEF Contents, Is
  <2> QED BY <2>1, <2>2, <2>3, <2>4, SubSeqTyped
<1>3. CASE Is(h, "view")
  BY <1>3, SMT DEF Inv, Typed, Mem, Contents, Is
<1> QED BY <1>1, <1>2, <1>3, SMT DEF Inv, Typed, AnyStorage, Window0, Held, Is

(* A step that stores s in t and leaves every allocation another window    *)
(* reaches as long as it was keeps the invariant.                          *)
LEMMA OneBuffer ==
  ASSUME Inv, NEW t \in Handle, NEW s \in AnyStorage,
         buf' = [buf EXCEPT ![t] = s],
         mem' \in [Mem -> Seq(Val)],
         Inside(s, mem'),
         \A h \in Handle \ {t} : Is(h, "shared") => Len(mem[buf[h].owner.mem]) <= Len(mem'[buf[h].owner.mem])
  PROVE  Inv'
<1>1. buf \in [Handle -> AnyStorage]
  BY DEF Inv, Typed
<1>2. buf' \in [Handle -> AnyStorage] /\ buf'[t] = s /\ \A h \in Handle \ {t} : buf'[h] = buf[h]
  BY <1>1
<1>3. ASSUME NEW h \in Handle \ {t}, buf[h].kind = "shared" PROVE Inside(buf[h], mem')
  <2>1. buf[h] \in Window0 /\ Inside(buf[h], mem)
    BY <1>3, InvIsInside, WindowIsTyped DEF Is
  <2>2. Len(mem[buf[h].owner.mem]) <= Len(mem'[buf[h].owner.mem])
    BY <1>3 DEF Is
  <2>3. mem[buf[h].owner.mem] \in Seq(Val) /\ mem'[buf[h].owner.mem] \in Seq(Val)
    BY <2>1 DEF Inv, Typed, Window0
  <2> QED BY <2>1, <2>2, <2>3, <1>3, SMT DEF Inside, Window0
<1>4. ASSUME NEW h \in Handle, buf'[h].kind = "shared" PROVE Inside(buf'[h], mem')
  BY <1>2, <1>3, <1>4 DEF Inside
<1>5. WindowsInsideOwner'
  BY <1>4 DEF WindowsInsideOwner, Is, Inside
<1> QED BY <1>2, <1>5 DEF Inv, Typed

(* One buffer changes and no memory does.                                *)
COROLLARY OneBufferSameMemory ==
  ASSUME Inv, NEW t \in Handle, NEW s \in AnyStorage,
         buf' = [buf EXCEPT ![t] = s], UNCHANGED mem, Inside(s, mem)
  PROVE  Inv'
<1>1. mem' \in [Mem -> Seq(Val)] /\ Inside(s, mem')
  BY DEF Inv, Typed, Inside
<1>2. \A h \in Handle \ {t} : Is(h, "shared") => Len(mem[buf[h].owner.mem]) <= Len(mem'[buf[h].owner.mem])
  <2> SUFFICES ASSUME NEW h \in Handle \ {t}, Is(h, "shared")
               PROVE  Len(mem[buf[h].owner.mem]) <= Len(mem'[buf[h].owner.mem])
    OBVIOUS
  <2>1. Len(mem[buf[h].owner.mem]) \in Nat
    BY WindowIsTyped, SMT DEF Inv, Typed, Window0
  <2> QED BY <2>1, SMT
<1> QED BY <1>1, <1>2, OneBuffer

(* A write makes the buffer owned and touches no memory.                 *)
LEMMA RewriteKeeps ==
  ASSUME Inv, NEW t \in Handle, NEW s \in Seq(Val), Rewrite(t, s)
  PROVE  Inv'
<1>1. Owned(s) \in AnyStorage /\ Inside(Owned(s), mem)
  BY OwnedIsTyped DEF Inside
<1> QED BY <1>1, OneBufferSameMemory DEF Rewrite, Become

(* A window of n elements at offset off of an owner that fits its          *)
(* allocation.                                                             *)
LEMMA WindowInside ==
  ASSUME NEW m \in [Mem -> Seq(Val)], NEW a \in Mem, NEW base \in Nat, NEW size \in Nat,
         NEW off \in Nat, NEW n \in Nat, off + n <= size, base + size <= Len(m[a])
  PROVE  LET w == Shared(Slice(a, base, size), off, n) IN w \in AnyStorage /\ Inside(w, m)
<1>1. Slice(a, base, size) \in [mem : Mem, base : Nat, size : Nat]
  BY DEF Slice
<1>2. Shared(Slice(a, base, size), off, n) \in Window0
  BY <1>1 DEF Shared, Window0
<1> QED BY <1>2 DEF AnyStorage, Inside, Shared, Slice

(* from_shared keeps a window that fits, whether it shares or copies.      *)
LEMMA FromOwnerKeeps ==
  ASSUME Inv, NEW t \in Handle, NEW s \in Seq(Val), NEW a \in Mem, NEW base \in Nat, NEW size \in Nat,
         mem' \in [Mem -> Seq(Val)], base + size <= Len(mem'[a]),
         \A h \in Handle \ {t} : Is(h, "shared") => Len(mem[buf[h].owner.mem]) <= Len(mem'[buf[h].owner.mem]),
         FromOwner(t, Slice(a, base, size), s)
  PROVE  Inv'
<1>1. CASE buf' = [buf EXCEPT ![t] = Owned(s)]
  <2>1. Owned(s) \in AnyStorage /\ Inside(Owned(s), mem')
    BY OwnedIsTyped DEF Inside
  <2> QED BY <1>1, <2>1, OneBuffer
<1>2. CASE buf' = [buf EXCEPT ![t] = Shared(Slice(a, base, size), 0, size)]
  <2>1. Shared(Slice(a, base, size), 0, size) \in AnyStorage /\ Inside(Shared(Slice(a, base, size), 0, size), mem')
    BY WindowInside, 0 + size <= size
  <2> QED BY <1>2, <2>1, OneBuffer
<1> QED BY <1>1, <1>2 DEF FromOwner, Become, Slice

(* The lengths of the allocations other buffers see do not matter to a     *)
(* step that leaves memory alone.                                          *)
LEMMA LengthsAreNumbers == ASSUME Inv PROVE \A h \in Handle : Is(h, "shared") => Len(mem[buf[h].owner.mem]) \in Nat
BY WindowIsTyped, SMT DEF Inv, Typed, Window0

(* Nothing exists at first.                                              *)
LEMMA InitInv == Init => Inv
<1> SUFFICES ASSUME Init PROVE Inv
  OBVIOUS
<1>1. Typed
  BY DEF Init, Typed, None, AnyStorage
<1>2. WindowsInsideOwner
  BY DEF Init, WindowsInsideOwner, Is, None
<1> QED BY <1>1, <1>2 DEF Inv

(* The steps that make a window. *)
LEMMA FromSharedKeeps == ASSUME Inv, NEW t \in Handle, FromShared(t) PROVE Inv'
<1>1. PICK a \in Alloc, s \in Short(Val) : /\ Free(a)
                                          /\ mem' = [mem EXCEPT ![a] = s]
                                          /\ FromOwner(t, Slice(a, 0, Len(s)), s)
  BY DEF FromShared
<1>2. s \in Seq(Val) /\ a \in Mem /\ Len(s) \in Nat
  BY ShortIsSeq DEF Mem
<1>3. mem' \in [Mem -> Seq(Val)] /\ mem'[a] = s
  BY <1>1, <1>2 DEF Inv, Typed
<1>4. \A h \in Handle \ {t} : Is(h, "shared") => Len(mem[buf[h].owner.mem]) <= Len(mem'[buf[h].owner.mem])
  <2> SUFFICES ASSUME NEW h \in Handle, Is(h, "shared")
               PROVE  Len(mem[buf[h].owner.mem]) <= Len(mem'[buf[h].owner.mem])
    OBVIOUS
  <2>1. buf[h].owner.mem \in Mem /\ buf[h].owner.mem # a
    BY <1>1, WindowIsTyped DEF Free, Window0
  <2>2. mem'[buf[h].owner.mem] = mem[buf[h].owner.mem]
    BY <1>1, <2>1 DEF Inv, Typed
  <2> QED BY <2>2, LengthsAreNumbers
<1>5. 0 \in Nat /\ 0 + Len(s) <= Len(mem'[a])
  BY <1>2, <1>3
<1> QED BY <1>1, <1>2, <1>3, <1>4, <1>5, FromOwnerKeeps

(* A buffer over a slice of an owner (from_shared) fits it.              *)
LEMMA FromSliceKeeps == ASSUME Inv, NEW h \in Handle, NEW t \in Handle, FromSlice(h, t) PROVE Inv'
<1> DEFINE a == buf[h].owner.mem
           base == buf[h].owner.base
           size == buf[h].owner.size
<1>1. PICK i \in 0..size : \E n \in 0..size - i :
        FromOwner(t, Slice(a, base + i, n), Elements(mem[a], base + i, n))
  BY DEF FromSlice
<1>2. PICK n \in 0..size - i : FromOwner(t, Slice(a, base + i, n), Elements(mem[a], base + i, n))
  BY <1>1
<1>3. Is(h, "shared") /\ UNCHANGED mem /\ buf[h] \in Window0 /\ Inside(buf[h], mem)
  BY WindowIsTyped, InvIsInside DEF FromSlice
<1>4. /\ a \in Mem /\ base \in Nat /\ size \in Nat /\ mem[a] \in Seq(Val) /\ Len(mem[a]) \in Nat
      /\ base + size <= Len(mem[a])
  <2>1. a \in Mem /\ base \in Nat /\ size \in Nat
    BY <1>3, SMT DEF Window0
  <2>2. mem[a] \in Seq(Val)
    BY <2>1 DEF Inv, Typed
  <2>3. base + size <= Len(mem[a])
    BY <1>3 DEF Inside, Is
  <2> QED BY <2>1, <2>2, <2>3
<1>5. base + i \in Nat /\ n \in Nat /\ base + i + n <= Len(mem[a])
  <2> HIDE DEF a, base, size
  <2>1. i \in Nat /\ n \in Nat /\ i + n <= size
    BY <1>4
  <2> QED BY <1>4, <2>1
<1>6. Elements(mem[a], base + i, n) \in Seq(Val)
  BY <1>4, <1>5, SubSeqTyped
<1>7. mem' \in [Mem -> Seq(Val)] /\ base + i + n <= Len(mem'[a])
  BY <1>3, <1>5 DEF Inv, Typed
<1>8. \A x \in Handle \ {t} : Is(x, "shared") => Len(mem[buf[x].owner.mem]) <= Len(mem'[buf[x].owner.mem])
  BY <1>3, LengthsAreNumbers
<1> HIDE DEF a, base, size
<1> QED BY <1>2, <1>4, <1>5, <1>6, <1>7, <1>8, FromOwnerKeeps

(* from_shared_column checks the window it is asked for.                 *)
LEMMA FromSharedColumnKeeps == ASSUME Inv, NEW h \in Handle, NEW t \in Handle, FromSharedColumn(h, t) PROVE Inv'
<1>1. Is(h, "shared") /\ UNCHANGED mem /\ buf[h] \in Window0 /\ Inside(buf[h], mem)
  BY WindowIsTyped, InvIsInside DEF FromSharedColumn
<1>2. PICK off \in 0..MaxLen, n \in 0..MaxLen :
        off + n <= buf[h].owner.size /\ Become(t, Shared(buf[h].owner, off, n))
  BY DEF FromSharedColumn
<1>3. Shared(buf[h].owner, off, n) \in Window0
  BY <1>1, <1>2, AlignAssumption DEF Shared, Window0
<1>4. Inside(Shared(buf[h].owner, off, n), mem)
  BY <1>1, <1>2, <1>3 DEF Inside, Shared, Is
<1> QED BY <1>1, <1>2, <1>3, <1>4, OneBufferSameMemory DEF Become, AnyStorage

(* A window of the log lies in what was published.                       *)
LEMMA LogWindowKeeps == ASSUME Inv, NEW t \in Handle, LogWindow(t) PROVE Inv'
<1>1. Cell \in Mem /\ mem[Cell] \in Seq(Val) /\ Len(mem[Cell]) \in Nat /\ UNCHANGED mem
  BY DEF Inv, Typed, Mem, LogWindow
<1>2. PICK i \in 0..Len(mem[Cell]) : \E n \in 0..Len(mem[Cell]) - i :
        Become(t, Shared(Slice(Cell, 0, Len(mem[Cell])), i, n))
  BY DEF LogWindow
<1>3. PICK n \in 0..Len(mem[Cell]) - i : Become(t, Shared(Slice(Cell, 0, Len(mem[Cell])), i, n))
  BY <1>2
<1>4. /\ i \in Nat /\ n \in Nat /\ i + n <= Len(mem[Cell])
      /\ 0 \in Nat /\ 0 + Len(mem[Cell]) <= Len(mem[Cell])
  BY <1>1
<1>5. mem \in [Mem -> Seq(Val)]
  BY DEF Inv, Typed
<1>6. /\ Shared(Slice(Cell, 0, Len(mem[Cell])), i, n) \in AnyStorage
      /\ Inside(Shared(Slice(Cell, 0, Len(mem[Cell])), i, n), mem)
  BY <1>1, <1>4, <1>5, WindowInside
<1> QED BY <1>1, <1>3, <1>6, OneBufferSameMemory DEF Become

(* Freezing fills an allocation nobody reaches.                          *)
LEMMA IntoSharedPartsKeeps == ASSUME Inv, NEW t \in Handle, IntoSharedParts(t) PROVE Inv'
<1>1. CASE Is(t, "shared")
  BY <1>1 DEF IntoSharedParts, vars, Inv, Typed, WindowsInsideOwner, Is
<1>2. CASE ~Is(t, "shared")
  <2>1. PICK a \in Alloc : /\ Free(a)
                           /\ mem' = [mem EXCEPT ![a] = Contents(t)]
                           /\ Become(t, Shared(Slice(a, 0, Len(Contents(t))), 0, Len(Contents(t))))
    BY <1>2 DEF IntoSharedParts
  <2>2. Contents(t) \in Seq(Val) /\ Len(Contents(t)) \in Nat /\ a \in Mem
    BY ContentsTyped DEF Mem, IntoSharedParts
  <2>3. mem' \in [Mem -> Seq(Val)] /\ mem'[a] = Contents(t)
    BY <2>1, <2>2 DEF Inv, Typed
  <2>4. \A h \in Handle \ {t} : Is(h, "shared") => Len(mem[buf[h].owner.mem]) <= Len(mem'[buf[h].owner.mem])
    <3> SUFFICES ASSUME NEW h \in Handle, Is(h, "shared")
                 PROVE  Len(mem[buf[h].owner.mem]) <= Len(mem'[buf[h].owner.mem])
      OBVIOUS
    <3>1. buf[h].owner.mem \in Mem /\ buf[h].owner.mem # a
      BY <2>1, WindowIsTyped DEF Free, Window0
    <3>2. mem'[buf[h].owner.mem] = mem[buf[h].owner.mem]
      BY <2>1, <3>1 DEF Inv, Typed
    <3> QED BY <3>2, LengthsAreNumbers
  <2>5. /\ 0 \in Nat /\ 0 + Len(Contents(t)) <= Len(Contents(t))
        /\ 0 + Len(Contents(t)) <= Len(mem'[a])
    BY <2>2, <2>3
  <2>6. /\ Shared(Slice(a, 0, Len(Contents(t))), 0, Len(Contents(t))) \in AnyStorage
        /\ Inside(Shared(Slice(a, 0, Len(Contents(t))), 0, Len(Contents(t))), mem')
    BY <2>2, <2>3, <2>5, WindowInside
  <2> QED BY <2>1, <2>3, <2>4, <2>6, OneBuffer DEF Become
<1> QED BY <1>1, <1>2

(* A joined window lies in the longer of the two owners.                 *)
LEMMA AdjacentWindowKeeps ==
  ASSUME Inv, NEW h \in Handle, NEW k \in Handle, NEW t \in Handle, AdjacentWindow(h, k, t) PROVE Inv'
<1> DEFINE joined == Shared(LongerOwner(buf[h].owner, buf[k].owner), buf[h].off, buf[h].len + buf[k].len)
<1>1. /\ buf[h] \in Window0 /\ Inside(buf[h], mem) /\ buf[h].kind = "shared"
      /\ buf[k] \in Window0 /\ Inside(buf[k], mem) /\ buf[k].kind = "shared"
      /\ Consecutive(buf[h], buf[k]) /\ UNCHANGED mem /\ Become(t, joined)
  BY WindowIsTyped, InvIsInside DEF AdjacentWindow, Is
<1>2. joined \in Window0
  BY <1>1, SMT DEF joined, Shared, Window0, LongerOwner
<1>3. joined.off + joined.len <= joined.owner.size
  <2>1. /\ buf[h].off \in Nat /\ buf[h].len \in Nat /\ buf[h].owner.size \in Nat
        /\ buf[k].off \in Nat /\ buf[k].len \in Nat /\ buf[k].owner.size \in Nat
    BY <1>1 DEF Window0
  <2>2. buf[h].off + buf[h].len = buf[k].off /\ buf[k].off + buf[k].len <= buf[k].owner.size
    BY <1>1 DEF Consecutive, Inside
  <2>3. buf[h].off + (buf[h].len + buf[k].len) <= buf[k].owner.size
    BY ONLY <2>1, <2>2
  <2> DEFINE longer == LongerOwner(buf[h].owner, buf[k].owner)
  <2>4. longer.size \in Nat /\ longer.size >= buf[k].owner.size
    BY <2>1 DEF LongerOwner
  <2>5. joined.off = buf[h].off /\ joined.len = buf[h].len + buf[k].len /\ joined.owner = longer
    BY DEF Shared
  <2> HIDE DEF longer, joined
  <2> QED BY ONLY <2>1, <2>3, <2>4, <2>5
<1>4. joined.owner.base + joined.owner.size <= Len(mem[joined.owner.mem])
  BY <1>1 DEF joined, Shared, LongerOwner, Inside
<1> QED BY <1>1, <1>2, <1>3, <1>4, OneBufferSameMemory DEF Become, AnyStorage, Inside

(* The steps that write: the new elements are a sequence, and they go to   *)
(* a vector of the buffer's own.                                           *)
LEMMA WritesKeep ==
  ASSUME Inv, NEW h \in Handle, AsMutSlice(h) \/ Push(h) \/ DeleteRange(h)
  PROVE  Inv'
<1>1. Held(h) /\ Contents(h) \in Seq(Val)
  BY ContentsTyped DEF AsMutSlice, Push, DeleteRange
<1>2. CASE AsMutSlice(h)
  <2>1. PICK i \in DOMAIN Contents(h), v \in Val : Rewrite(h, [Contents(h) EXCEPT ![i] = v])
    BY <1>2 DEF AsMutSlice
  <2>2. [Contents(h) EXCEPT ![i] = v] \in Seq(Val)
    BY <1>1
  <2> QED BY <2>1, <2>2, RewriteKeeps
<1>3. CASE Push(h)
  <2>1. PICK v \in Val : Rewrite(h, Append(Contents(h), v))
    BY <1>3 DEF Push
  <2>2. Append(Contents(h), v) \in Seq(Val)
    BY <1>1
  <2> QED BY <2>1, <2>2, RewriteKeeps
<1>4. CASE DeleteRange(h)
  <2>1. PICK j \in 0..Len(Contents(h)) : \E i \in 0..j :
          Rewrite(h, SubSeq(Contents(h), 1, i) \o SubSeq(Contents(h), j + 1, Len(Contents(h))))
    BY <1>4 DEF DeleteRange
  <2>2. PICK i \in 0..j : Rewrite(h, SubSeq(Contents(h), 1, i) \o SubSeq(Contents(h), j + 1, Len(Contents(h))))
    BY <2>1
  <2>3. /\ SubSeq(Contents(h), 1, i) \in Seq(Val)
        /\ SubSeq(Contents(h), j + 1, Len(Contents(h))) \in Seq(Val)
    BY <1>1
  <2>4. SubSeq(Contents(h), 1, i) \o SubSeq(Contents(h), j + 1, Len(Contents(h))) \in Seq(Val)
    BY <2>3
  <2> QED BY <2>2, <2>4, RewriteKeeps
<1> QED BY <1>2, <1>3, <1>4

(* A narrowed window stays inside.                                       *)
LEMMA TruncateKeeps == ASSUME Inv, NEW h \in Handle, Truncate(h) PROVE Inv'
<1>1. Contents(h) \in Seq(Val) /\ Len(Contents(h)) \in Nat
  BY ContentsTyped DEF Truncate
<1>2. PICK n \in 0..Len(Contents(h)) :
         IF n = Len(Contents(h)) THEN UNCHANGED vars
         ELSE IF Is(h, "shared") THEN Become(h, Shared(buf[h].owner, buf[h].off, n)) /\ UNCHANGED mem
         ELSE Rewrite(h, SubSeq(Contents(h), 1, n))
  BY DEF Truncate
<1>3. CASE n = Len(Contents(h))
  BY <1>2, <1>3 DEF vars, Inv, Typed, WindowsInsideOwner, Is
<1>4. CASE n # Len(Contents(h)) /\ Is(h, "shared")
  <2>1. buf[h] \in Window0 /\ Inside(buf[h], mem) /\ n \in Nat /\ n <= buf[h].len
    BY <1>1, <1>4, InvIsInside, WindowIsTyped, ContentsTyped DEF Is, Held
  <2>2. Shared(buf[h].owner, buf[h].off, n) \in Window0
    BY <2>1 DEF Shared, Window0
  <2>3. Inside(Shared(buf[h].owner, buf[h].off, n), mem)
    BY <1>4, <2>1, <2>2, SMT DEF Shared, Inside, Is, Window0
  <2> QED BY <1>2, <1>4, <2>2, <2>3, OneBufferSameMemory DEF Become, AnyStorage
<1>5. CASE n # Len(Contents(h)) /\ ~Is(h, "shared")
  <2>1. SubSeq(Contents(h), 1, n) \in Seq(Val)
    BY <1>1
  <2> QED BY <1>2, <1>5, <2>1, RewriteKeeps
<1> QED BY <1>3, <1>4, <1>5

(* Splitting deals with owned memory only.                               *)
LEMMA SplitOffKeeps == ASSUME Inv, NEW h \in Handle, NEW t \in Handle, SplitOff(h, t) PROVE Inv'
<1>1. PICK i \in 0..Len(buf[h].data) :
        buf' = [buf EXCEPT ![h] = Owned(SubSeq(buf[h].data, 1, i)),
                           ![t] = Owned(SubSeq(buf[h].data, i + 1, Len(buf[h].data)))]
  BY DEF SplitOff
<1>2. buf[h].data \in Seq(Val)
  BY SMT DEF Inv, Typed, AnyStorage, Window0, SplitOff, Is
<1>3. /\ SubSeq(buf[h].data, 1, i) \in Seq(Val)
      /\ SubSeq(buf[h].data, i + 1, Len(buf[h].data)) \in Seq(Val)
  BY <1>2
<1>4. Owned(SubSeq(buf[h].data, 1, i)) \in AnyStorage /\ Owned(SubSeq(buf[h].data, i + 1, Len(buf[h].data))) \in AnyStorage
  BY <1>3, OwnedIsTyped
<1>5. Typed'
  BY <1>1, <1>4 DEF SplitOff, Inv, Typed
<1>6. \A x \in Handle : Is(x, "shared")' => Is(x, "shared") /\ buf'[x] = buf[x]
  BY <1>1, <1>3, OwnedIsTyped DEF Is, Inv, Typed
<1>7. WindowsInsideOwner'
  BY <1>6 DEF SplitOff, Inv, WindowsInsideOwner, Is
<1> QED BY <1>5, <1>7 DEF Inv

(* The log grows, and its windows stay inside.                           *)
LEMMA PublishKeeps == ASSUME Inv, Publish PROVE Inv'
<1>1. PICK v \in Val : mem' = [mem EXCEPT ![Cell] = Append(mem[Cell], v)] /\ UNCHANGED buf
  BY DEF Publish
<1>2. Cell \in Mem /\ mem[Cell] \in Seq(Val)
  BY DEF Inv, Typed, Mem
<1>3. Append(mem[Cell], v) \in Seq(Val) /\ Len(Append(mem[Cell], v)) = Len(mem[Cell]) + 1
  BY <1>2
<1>4. mem' \in [Mem -> Seq(Val)]
  BY <1>1, <1>3 DEF Inv, Typed
<1>5. ASSUME NEW h \in Handle, Is(h, "shared") PROVE Inside(buf[h], mem')
  <2>1. buf[h] \in Window0 /\ Inside(buf[h], mem) /\ mem[buf[h].owner.mem] \in Seq(Val)
    BY <1>5, WindowIsTyped, InvIsInside DEF Inv, Typed, Window0
  <2>2. Len(mem'[buf[h].owner.mem]) >= Len(mem[buf[h].owner.mem])
    <3>1. CASE buf[h].owner.mem = Cell
      BY <1>1, <1>2, <1>3, <3>1 DEF Inv, Typed
    <3>2. CASE buf[h].owner.mem # Cell
      <4>1. mem'[buf[h].owner.mem] = mem[buf[h].owner.mem]
        BY <1>1, <2>1, <3>2 DEF Inv, Typed, Window0
      <4>2. Len(mem[buf[h].owner.mem]) \in Nat
        BY <2>1
      <4> QED BY <4>1, <4>2
    <3> QED BY <3>1, <3>2
  <2>3. Len(mem'[buf[h].owner.mem]) \in Nat /\ Len(mem[buf[h].owner.mem]) \in Nat
    BY <1>4, <2>1 DEF Window0
  <2> QED BY <2>1, <2>2, <2>3, SMT DEF Inside, Window0
<1>6. WindowsInsideOwner'
  BY <1>1, <1>5 DEF WindowsInsideOwner, Inside, Is
<1> QED BY <1>1, <1>4, <1>6 DEF Inv, Typed

(* A clone is inside because its source is.                              *)
LEMMA CopiesKeep ==
  ASSUME Inv, NEW h \in Handle, NEW t \in Handle, Clone(h, t) \/ ToOwnedCopy(h, t)
  PROVE  Inv'
<1>1. CASE Clone(h, t)
  <2>1. buf[h] \in AnyStorage /\ Inside(buf[h], mem)
    BY InvIsInside DEF Inv, Typed
  <2> QED BY <1>1, <2>1, OneBufferSameMemory DEF Clone, Become
<1>2. CASE ToOwnedCopy(h, t)
  BY <1>2, ContentsTyped, RewriteKeeps DEF ToOwnedCopy
<1> QED BY <1>1, <1>2

(* Steps that make a buffer owned, a view, or absent.                    *)
LEMMA OthersKeep ==
  ASSUME Inv, NEW t \in Handle, FromVec(t) \/ FromLBuffer(t) \/ Drop(t)
  PROVE  Inv'
<1>1. CASE FromVec(t)
  BY <1>1, ShortIsSeq, RewriteKeeps DEF FromVec
<1>2. CASE FromLBuffer(t)
  <2>1. Viewing \in AnyStorage /\ Inside(Viewing, mem)
    BY DEF Viewing, AnyStorage, Inside
  <2> QED BY <1>2, <2>1, OneBufferSameMemory DEF FromLBuffer, Become
<1>3. CASE Drop(t)
  <2>1. None \in AnyStorage /\ Inside(None, mem)
    BY DEF None, AnyStorage, Inside
  <2> QED BY <1>3, <2>1, OneBufferSameMemory DEF Drop, Become
<1> QED BY <1>1, <1>2, <1>3

(* Every step keeps the invariant.                                       *)
LEMMA NextInv == Inv /\ [Next]_vars => Inv'
<1> SUFFICES ASSUME Inv, [Next]_vars PROVE Inv'
  OBVIOUS
<1>1. CASE Publish
  BY <1>1, PublishKeeps
<1>2. ASSUME NEW h \in Handle,
             \/ FromVec(h) \/ FromShared(h) \/ LogWindow(h) \/ FromLBuffer(h) \/ IntoSharedParts(h)
             \/ AsMutSlice(h) \/ Push(h) \/ DeleteRange(h) \/ Truncate(h) \/ Drop(h)
      PROVE  Inv'
  BY <1>2, OthersKeep, FromSharedKeeps, LogWindowKeeps, IntoSharedPartsKeeps, WritesKeep, TruncateKeeps
<1>3. ASSUME NEW h \in Handle, NEW t \in Handle,
             \/ FromSlice(h, t) \/ FromSharedColumn(h, t) \/ Clone(h, t) \/ ToOwnedCopy(h, t) \/ SplitOff(h, t)
             \/ \E k \in Handle : AdjacentWindow(h, k, t)
      PROVE  Inv'
  BY <1>3, FromSliceKeeps, FromSharedColumnKeeps, CopiesKeep, SplitOffKeeps, AdjacentWindowKeeps
<1>4. CASE UNCHANGED vars
  BY <1>4 DEF vars, Inv, Typed, WindowsInsideOwner, Is
<1> QED BY <1>1, <1>2, <1>3, <1>4 DEF Next

(* Every window, however it was cut, joined, cloned or narrowed, stays     *)
(* inside the slice its owner keeps alive, and the slice inside the        *)
(* allocation: the unchecked read of as_slice is in bounds.                *)
THEOREM WindowsStayInside == Spec => []WindowsInsideOwner
<1>1. Inv => WindowsInsideOwner
  BY DEF Inv
<1> QED BY <1>1, InitInv, NextInv, PTL DEF Spec

-----------------------------------------------------------------------------
(* What one step may do to an allocation. *)
Kept(a) ==
  mem'[a] # mem[a] => \/ Free(a)
                      \/ a = Cell /\ Len(mem'[a]) > Len(mem[a]) /\ SubSeq(mem'[a], 1, Len(mem[a])) = mem[a]

(* No step changes memory that a window reaches.                         *)
LEMMA StepKeepsShared == Inv /\ [Next]_vars => \A a \in Mem : Kept(a)
<1> SUFFICES ASSUME Inv, [Next]_vars, NEW a \in Mem PROVE Kept(a)
  OBVIOUS
<1>1. CASE Publish
  <2>1. PICK v \in Val : mem' = [mem EXCEPT ![Cell] = Append(mem[Cell], v)]
    BY <1>1 DEF Publish
  <2>2. Cell \in Mem /\ mem[Cell] \in Seq(Val)
    BY DEF Inv, Typed, Mem
  <2>3. mem'[Cell] = Append(mem[Cell], v) /\ (a # Cell => mem'[a] = mem[a])
    BY <2>1, <2>2 DEF Inv, Typed
  <2>4. /\ Len(Append(mem[Cell], v)) > Len(mem[Cell])
        /\ SubSeq(Append(mem[Cell], v), 1, Len(mem[Cell])) = mem[Cell]
    BY <2>2
  <2> QED BY <2>3, <2>4 DEF Kept
<1>2. ASSUME NEW h \in Handle, FromShared(h) PROVE Kept(a)
  <2>1. PICK b \in Alloc, s \in Short(Val) : Free(b) /\ mem' = [mem EXCEPT ![b] = s]
    BY <1>2 DEF FromShared
  <2>2. a # b => mem'[a] = mem[a]
    BY <2>1 DEF Inv, Typed
  <2> QED BY <2>1, <2>2 DEF Kept
<1>3. ASSUME NEW h \in Handle, IntoSharedParts(h) PROVE Kept(a)
  <2>1. CASE Is(h, "shared")
    BY <1>3, <2>1 DEF IntoSharedParts, vars, Kept
  <2>2. CASE ~Is(h, "shared")
    <3>1. PICK b \in Alloc : Free(b) /\ mem' = [mem EXCEPT ![b] = Contents(h)]
      BY <1>3, <2>2 DEF IntoSharedParts
    <3>2. a # b => mem'[a] = mem[a]
      BY <3>1 DEF Inv, Typed
    <3> QED BY <3>1, <3>2 DEF Kept
  <2> QED BY <2>1, <2>2
<1>4. ASSUME NEW h \in Handle,
             \/ FromVec(h) \/ LogWindow(h) \/ FromLBuffer(h) \/ AsMutSlice(h) \/ Push(h)
             \/ DeleteRange(h) \/ Truncate(h) \/ Drop(h)
      PROVE  UNCHANGED mem
  BY <1>4 DEF FromVec, LogWindow, FromLBuffer, AsMutSlice, Push, DeleteRange, Truncate, Drop, Rewrite, vars
<1>5. ASSUME NEW h \in Handle, NEW t \in Handle,
             \/ FromSlice(h, t) \/ FromSharedColumn(h, t) \/ Clone(h, t) \/ ToOwnedCopy(h, t) \/ SplitOff(h, t)
             \/ \E k \in Handle : AdjacentWindow(h, k, t)
      PROVE  UNCHANGED mem
  BY <1>5 DEF FromSlice, FromSharedColumn, Clone, ToOwnedCopy, SplitOff, AdjacentWindow, Rewrite
<1>6. UNCHANGED mem => Kept(a)
  BY DEF Kept
<1> QED BY <1>1, <1>2, <1>3, <1>4, <1>5, <1>6 DEF Next, vars

(* A write goes to a copy: no call of any buffer changes an element that   *)
(* another buffer reaches, and what the log has published stays.           *)
THEOREM SharedMemoryIsConstant == Spec => SharedNeverWritten
<1>1. Inv /\ [Next]_vars => [\A a \in Mem : mem'[a] # mem[a] =>
         \/ Free(a)
         \/ a = Cell /\ Len(mem'[a]) > Len(mem[a]) /\ SubSeq(mem'[a], 1, Len(mem[a])) = mem[a]]_vars
  BY StepKeepsShared DEF Kept
<1> QED BY <1>1, InitInv, NextInv, PTL DEF Spec, SharedNeverWritten

-----------------------------------------------------------------------------
(* Buffers implement sequences that share nothing: what a step changes is  *)
(* the meaning of the one buffer it is a call of.                          *)

(* A buffer means a sequence, except for no buffer and a view.             *)
LEMMA MeaningsTyped ==
  ASSUME Inv, NEW h \in Handle
  PROVE  /\ Meanings[h] = Meaning(h)
         /\ Values!Holds(h) <=> Held(h)
         /\ Held(h) => Contents(h) \in Seq(Val) /\ Values!Seen(h) = Contents(h)
         /\ Held(h) /\ ~Is(h, "view") => Meaning(h) = Contents(h) /\ Meaning(h) \notin {Absent, Live}
<1>1. Meanings[h] = Meaning(h)
  BY DEF Meanings
<1>2. Held(h) => Contents(h) \in Seq(Val)
  BY ContentsTyped
<1>3. Held(h) /\ ~Is(h, "view") => Meaning(h) = Contents(h) /\ Meaning(h) \notin {Absent, Live}
  BY <1>2, AbstractAssumption DEF Meaning, Held
<1>4. Is(h, "view") => Meaning(h) = Live /\ Contents(h) = mem[Cell]
  BY DEF Meaning, Contents, Is
<1>5. ~Held(h) => Meaning(h) = Absent
  BY DEF Meaning, Held
<1>6. Values!Holds(h) <=> Held(h)
  BY <1>1, <1>3, <1>4, <1>5, AbstractAssumption DEF Values!Holds
<1>7. Held(h) => Values!Seen(h) = Contents(h)
  BY <1>1, <1>3, <1>4 DEF Values!Seen
<1> QED BY <1>1, <1>2, <1>3, <1>6, <1>7

(* What lies inside a prefix is read there.                                *)
LEMMA ElementsOfPrefix ==
  ASSUME NEW s \in Seq(Val), NEW q \in Seq(Val), Len(s) <= Len(q), SubSeq(q, 1, Len(s)) = s,
         NEW i \in Nat, NEW n \in Nat, i + n <= Len(s)
  PROVE  Elements(q, i, n) = Elements(s, i, n)
<1>1. \A k \in 1..Len(s) : q[k] = s[k]
  <2>1. \A k \in 1..Len(s) : SubSeq(q, 1, Len(s))[k] = q[k]
    BY SMT
  <2> QED BY <2>1
<1>2. Elements(q, i, n) = [k \in 1..n |-> q[i + k]]
  BY SMT DEF Elements
<1>3. Elements(s, i, n) = [k \in 1..n |-> s[i + k]]
  BY SMT DEF Elements
<1>4. \A k \in 1..n : i + k \in 1..Len(s)
  BY SMT
<1> QED BY <1>1, <1>2, <1>3, <1>4

(* No step changes what another buffer means.                              *)
LEMMA OthersMeanTheSame ==
  ASSUME Inv, Inv', [Next]_vars, NEW h \in Handle, buf'[h] = buf[h]
  PROVE  Meaning(h)' = Meaning(h)
<1>1. CASE Is(h, "shared")
  <2> DEFINE w == buf[h]
             a == w.owner.mem
             from == w.owner.base + w.off
  <2>1. w \in Window0 /\ Inside(w, mem) /\ w.kind = "shared"
    BY <1>1, WindowIsTyped, InvIsInside DEF Is
  <2>2. a \in Mem /\ from \in Nat /\ w.len \in Nat
    BY <2>1, SMT DEF Window0
  <2>3. mem[a] \in Seq(Val) /\ mem'[a] \in Seq(Val)
    BY <2>2 DEF Inv, Typed
  <2>4. from + w.len <= Len(mem[a])
    BY <2>1, <2>3, SMT DEF Window0, Inside
  <2>5. ~Free(a)
    BY <1>1 DEF Free
  <2>6. Kept(a)
    BY <2>2, StepKeepsShared
  <2>7. CASE mem'[a] = mem[a]
    BY <1>1, <2>7 DEF Meaning, Contents, Is
  <2>8. CASE Len(mem'[a]) > Len(mem[a]) /\ SubSeq(mem'[a], 1, Len(mem[a])) = mem[a]
    <3>1. Len(mem[a]) <= Len(mem'[a])
      BY <2>3, <2>8
    <3> HIDE DEF a, from, w
    <3>2. Elements(mem'[a], from, w.len) = Elements(mem[a], from, w.len)
      BY <2>2, <2>3, <2>4, <2>8, <3>1, ElementsOfPrefix
    <3>3. Meaning(h) = Elements(mem[a], from, w.len) /\ Meaning(h)' = Elements(mem'[a], from, w.len)
      BY <1>1 DEF Meaning, Contents, Is, a, from, w
    <3> QED BY <3>2, <3>3
  <2> QED BY <2>5, <2>6, <2>7, <2>8 DEF Kept
<1>2. CASE ~Is(h, "shared")
  BY <1>2 DEF Meaning, Contents, Is
<1> QED BY <1>1, <1>2

(* A step that stores in t alone, the log untouched, gives t a value.      *)
LEMMA OneMeaning ==
  ASSUME Inv, Inv', [Next]_vars, NEW t \in Handle, NEW s,
         buf' = [buf EXCEPT ![t] = s], mem'[Cell] = mem[Cell]
  PROVE  /\ buf'[t] = s
         /\ Meanings'[t] = Meaning(t)'
         /\ Values!OnlyChanges(t)
         /\ Values!Put(t, Meaning(t)')
<1>1. buf'[t] = s /\ \A h \in Handle \ {t} : buf'[h] = buf[h]
  BY DEF Inv, Typed
<1>2. \A h \in Handle \ {t} : Meaning(h)' = Meaning(h)
  BY <1>1, OthersMeanTheSame
<1>3. Meanings' = [h \in Handle |-> Meaning(h)']
  BY DEF Meanings
<1>4. \A h \in Handle : Meanings'[h] = Meaning(h)' /\ Meanings[h] = Meaning(h)
  BY <1>3 DEF Meanings
<1>5. Values!OnlyChanges(t)
  BY <1>2, <1>4 DEF Values!OnlyChanges
<1>6. Meanings' = [Meanings EXCEPT ![t] = Meaning(t)']
  BY <1>2, <1>3, <1>4 DEF Meanings
<1> QED BY <1>1, <1>4, <1>5, <1>6 DEF Values!Put

(* The same of the buffers after a step.                                   *)
LEMMA AllTyped == Inv => \A h \in Handle : Held(h) => Contents(h) \in Seq(Val)
BY ContentsTyped
LEMMA AllTypedNext == Inv' => (\A h \in Handle : Held(h) => Contents(h) \in Seq(Val))'
BY AllTyped, PTL

(* A new buffer over any elements is a new sequence.                       *)
LEMMA CreatedMeans ==
  ASSUME Inv, Inv', [Next]_vars, NEW t \in Handle, NEW s, ~Held(t),
         buf' = [buf EXCEPT ![t] = s], s.kind \in {"owned", "shared"}, mem'[Cell] = mem[Cell]
  PROVE  Values!Create(t) /\ Values!OnlyChanges(t)
<1>1. /\ buf'[t] = s /\ Meanings'[t] = Meaning(t)'
      /\ Values!OnlyChanges(t) /\ Values!Put(t, Meaning(t)')
  BY OneMeaning
<1>2. Held(t)' /\ ~Is(t, "view")' /\ ~Is(t, "absent")'
  BY <1>1 DEF Held, Is
<1>3. Contents(t)' \in Seq(Val)
  BY <1>2, AllTypedNext
<1>4. Meaning(t)' = Contents(t)'
  BY <1>2 DEF Meaning
<1>5. ~Values!Holds(t)
  BY MeaningsTyped
<1> QED BY <1>1, <1>3, <1>4, <1>5, AbstractAssumption DEF Values!Create

(* A write gives its buffer the written sequence.                          *)
LEMMA RewriteMeans ==
  ASSUME Inv, Inv', [Next]_vars, NEW t \in Handle, NEW s \in Seq(Val), Rewrite(t, s)
  PROVE  Values!OnlyChanges(t) /\ Values!Put(t, s) /\ mem'[Cell] = mem[Cell]
<1>1. buf' = [buf EXCEPT ![t] = Owned(s)] /\ mem' = mem
  BY DEF Rewrite, Become
<1>2. buf'[t] = Owned(s) /\ Values!OnlyChanges(t) /\ Values!Put(t, Meaning(t)')
  BY <1>1, OneMeaning
<1>3. Meaning(t)' = s
  BY <1>2 DEF Meaning, Contents, Is, Owned
<1> QED BY <1>1, <1>2, <1>3

(* A window of n elements at from means those elements.                    *)
LEMMA WindowMeans ==
  ASSUME Inv, Inv', [Next]_vars, NEW t \in Handle, NEW owner, NEW off, NEW n,
         buf' = [buf EXCEPT ![t] = Shared(owner, off, n)], mem' = mem
  PROVE  /\ Values!OnlyChanges(t)
         /\ Values!Put(t, Elements(mem[owner.mem], owner.base + off, n))
<1>1. /\ buf'[t] = Shared(owner, off, n)
      /\ Values!OnlyChanges(t) /\ Values!Put(t, Meaning(t)')
  BY OneMeaning
<1>2. Meaning(t)' = Elements(mem[owner.mem], owner.base + off, n)
  BY <1>1 DEF Meaning, Contents, Is, Shared
<1> QED BY <1>1, <1>2

(* from_vec64, from_shared and from_shared_column make a new sequence.     *)
LEMMA CreatesMean ==
  ASSUME Inv, Inv', [Next]_vars, NEW t \in Handle,
         FromVec(t) \/ FromShared(t) \/ \E h \in Handle : FromSlice(h, t) \/ FromSharedColumn(h, t)
  PROVE  Values!Create(t) /\ Values!OnlyChanges(t) /\ mem'[Cell] = mem[Cell]
<1>1. ~Held(t)
  BY DEF FromVec, FromShared, FromSlice, FromSharedColumn
<1>2. mem'[Cell] = mem[Cell]
  BY CellAssumption DEF FromVec, Rewrite, FromShared, FromSlice, FromSharedColumn, Inv, Typed, Mem
<1>3. \A s : Owned(s).kind = "owned"
  BY DEF Owned
<1>4. \A owner, off, n : Shared(owner, off, n).kind = "shared"
  BY DEF Shared
<1>5. \A owner, s : FromOwner(t, owner, s) =>
        \/ buf' = [buf EXCEPT ![t] = Owned(s)]
        \/ buf' = [buf EXCEPT ![t] = Shared(owner, 0, owner.size)]
  BY DEF FromOwner, Become
<1>6. \E s : buf' = [buf EXCEPT ![t] = s] /\ s.kind \in {"owned", "shared"}
  <2>1. CASE FromVec(t)
    BY <1>3, <2>1 DEF FromVec, Rewrite, Become
  <2>2. CASE FromShared(t)
    BY <1>3, <1>4, <1>5, <2>2 DEF FromShared
  <2>3. ASSUME NEW h \in Handle, FromSlice(h, t)
        PROVE  \E s : buf' = [buf EXCEPT ![t] = s] /\ s.kind \in {"owned", "shared"}
    BY <1>3, <1>4, <1>5, <2>3 DEF FromSlice
  <2>4. ASSUME NEW h \in Handle, FromSharedColumn(h, t)
        PROVE  \E s : buf' = [buf EXCEPT ![t] = s] /\ s.kind \in {"owned", "shared"}
    <3>1. PICK off \in 0..MaxLen, n \in 0..MaxLen : Become(t, Shared(buf[h].owner, off, n))
      BY <2>4 DEF FromSharedColumn
    <3> QED BY <1>4, <3>1 DEF Become
  <2> QED BY <2>1, <2>2, <2>3, <2>4
<1> QED BY <1>1, <1>2, <1>6, CreatedMeans

(* A window of the log means the published elements it names.              *)
LEMMA LogWindowMeans ==
  ASSUME Inv, Inv', [Next]_vars, NEW t \in Handle, LogWindow(t)
  PROVE  Values!Window(mem[Cell], t) /\ Values!OnlyChanges(t) /\ mem'[Cell] = mem[Cell]
<1> DEFINE all == Slice(Cell, 0, Len(mem[Cell]))
<1>1. PICK i \in 0..Len(mem[Cell]) : \E n \in 0..Len(mem[Cell]) - i : Become(t, Shared(all, i, n))
  BY DEF LogWindow
<1>2. PICK n \in 0..Len(mem[Cell]) - i : buf' = [buf EXCEPT ![t] = Shared(all, i, n)]
  BY <1>1 DEF Become
<1>3. mem' = mem /\ ~Values!Holds(t)
  BY MeaningsTyped DEF LogWindow
<1>4. all.mem = Cell /\ all.base + i = i
  BY SMT DEF Slice
<1> HIDE DEF all
<1>5. Values!OnlyChanges(t) /\ Values!Put(t, Elements(mem[all.mem], all.base + i, n))
  BY <1>2, <1>3, WindowMeans
<1>6. Values!Put(t, SubSeq(mem[Cell], i + 1, i + n))
  BY <1>4, <1>5 DEF Elements
<1> QED BY <1>3, <1>5, <1>6 DEF Values!Window

(* One sequence after the other, position by position.                     *)
LEMMA ConcatenationIs ==
  ASSUME NEW x \in Seq(Val), NEW y \in Seq(Val)
  PROVE  x \o y = [k \in 1..Len(x) + Len(y) |-> IF k <= Len(x) THEN x[k] ELSE y[k - Len(x)]]
<1>1. /\ x \o y \in Seq(Val)
      /\ Len(x \o y) = Len(x) + Len(y)
      /\ \A k \in 1..Len(x) + Len(y) : (x \o y)[k] = IF k <= Len(x) THEN x[k] ELSE y[k - Len(x)]
  BY SMT
<1>2. \A z \in Seq(Val) : z = [k \in 1..Len(z) |-> z[k]]
  OBVIOUS
<1> DEFINE z == x \o y
<1>3. /\ z \in Seq(Val) /\ Len(z) = Len(x) + Len(y)
      /\ \A k \in 1..Len(x) + Len(y) : z[k] = IF k <= Len(x) THEN x[k] ELSE y[k - Len(x)]
  BY <1>1
<1> HIDE DEF z
<1>4. z = [k \in 1..Len(x) + Len(y) |-> z[k]]
  BY <1>2, <1>3
<1>5. z = [k \in 1..Len(x) + Len(y) |-> IF k <= Len(x) THEN x[k] ELSE y[k - Len(x)]]
  BY <1>3, <1>4
<1> QED BY <1>5 DEF z

(* The elements of two consecutive windows are those of the joined one.    *)
LEMMA ElementsJoin ==
  ASSUME NEW s \in Seq(Val), NEW i \in Nat, NEW n \in Nat, NEW m \in Nat, i + n + m <= Len(s)
  PROVE  Elements(s, i, n + m) = Elements(s, i, n) \o Elements(s, i + n, m)
<1> DEFINE x == Elements(s, i, n)
           y == Elements(s, i + n, m)
<1>1. x \in Seq(Val) /\ Len(x) = n /\ \A k \in 1..n : x[k] = s[i + k]
  BY SubSeqTyped, SMT DEF Elements
<1>2. y \in Seq(Val) /\ Len(y) = m /\ \A k \in 1..m : y[k] = s[i + n + k]
  BY SubSeqTyped, SMT DEF Elements
<1>3. Elements(s, i, n + m) = [k \in 1..n + m |-> s[i + k]]
  BY SMT DEF Elements
<1> HIDE DEF x, y
<1>4. x \o y = [k \in 1..n + m |-> IF k <= n THEN x[k] ELSE y[k - n]]
  <2>1. x \in Seq(Val) /\ y \in Seq(Val) /\ Len(x) = n /\ Len(y) = m
    BY <1>1, <1>2
  <2>2. x \o y = [k \in 1..Len(x) + Len(y) |-> IF k <= Len(x) THEN x[k] ELSE y[k - Len(x)]]
    BY <2>1, ConcatenationIs
  <2> QED BY <2>1, <2>2
<1>5. \A k \in 1..n + m : s[i + k] = IF k <= n THEN x[k] ELSE y[k - n]
  <2> SUFFICES ASSUME NEW k \in 1..n + m PROVE s[i + k] = IF k <= n THEN x[k] ELSE y[k - n]
    OBVIOUS
  <2>1. CASE k <= n
    BY <1>1, <2>1, SMT
  <2>2. CASE ~(k <= n)
    <3>1. k - n \in 1..m /\ i + n + (k - n) = i + k
      BY <2>2, SMT
    <3> QED BY <1>2, <2>2, <3>1
  <2> QED BY <2>1, <2>2
<1> QED BY <1>3, <1>4, <1>5 DEF x, y

(* adjacent_window means the two sequences one after the other, whichever  *)
(* owner it keeps.                                                         *)
LEMMA AdjacentWindowMeans ==
  ASSUME Inv, Inv', [Next]_vars, NEW h \in Handle, NEW k \in Handle, NEW t \in Handle,
         AdjacentWindow(h, k, t)
  PROVE  Values!Join(h, k, t) /\ Values!OnlyChanges(t) /\ mem'[Cell] = mem[Cell]
<1> DEFINE x == buf[h]
           y == buf[k]
           owner == LongerOwner(x.owner, y.owner)
           s == mem[x.owner.mem]
           from == x.owner.base + x.off
<1>1. /\ x \in Window0 /\ Inside(x, mem) /\ x.kind = "shared"
      /\ y \in Window0 /\ Inside(y, mem) /\ y.kind = "shared"
  BY WindowIsTyped, InvIsInside DEF AdjacentWindow, Is
<1>2. /\ x.owner.mem = y.owner.mem /\ x.owner.base = y.owner.base /\ x.off + x.len = y.off
      /\ mem' = mem /\ ~Held(t)
      /\ buf' = [buf EXCEPT ![t] = Shared(owner, x.off, x.len + y.len)]
  BY DEF AdjacentWindow, Consecutive, Become
<1>3. owner.mem = x.owner.mem /\ owner.base = x.owner.base
  BY <1>2 DEF LongerOwner
<1>4. /\ s \in Seq(Val) /\ from \in Nat /\ x.len \in Nat /\ y.len \in Nat
      /\ y.owner.base + y.off = from + x.len
      /\ from + x.len + y.len <= Len(s)
  <2>1. /\ x.owner.mem \in Mem /\ x.owner.base \in Nat /\ x.owner.size \in Nat
        /\ x.off \in Nat /\ x.len \in Nat
    BY <1>1 DEF Window0
  <2>2. y.owner.size \in Nat /\ y.off \in Nat /\ y.len \in Nat
    BY <1>1 DEF Window0
  <2>3. y.off + y.len <= y.owner.size /\ y.owner.base + y.owner.size <= Len(mem[y.owner.mem])
    BY <1>1 DEF Inside
  <2>4. s \in Seq(Val)
    BY <2>1 DEF Inv, Typed
  <2>5. Len(s) \in Nat /\ Len(mem[y.owner.mem]) = Len(s)
    BY <1>2, <2>4
  <2>6. y.owner.base = x.owner.base /\ y.off = x.off + x.len
    BY <1>2
  <2> DEFINE xb == x.owner.base  xo == x.off  xl == x.len  yl == y.len  ys == y.owner.size  n == Len(s)
  <2>7. /\ xb \in Nat /\ xo \in Nat /\ xl \in Nat /\ yl \in Nat /\ ys \in Nat /\ n \in Nat
        /\ (xo + xl) + yl <= ys /\ xb + ys <= n
    BY <2>1, <2>2, <2>3, <2>5, <2>6
  <2> HIDE DEF xb, xo, xl, yl, ys, n
  <2>8. xb + xo \in Nat /\ xb + (xo + xl) = (xb + xo) + xl /\ (xb + xo) + xl + yl <= n
    BY ONLY <2>7
  <2> QED BY <2>2, <2>4, <2>6, <2>7, <2>8 DEF xb, xo, xl, yl, ys, n
<1>5. Contents(h) = Elements(s, from, x.len) /\ Contents(k) = Elements(s, from + x.len, y.len)
  BY <1>1, <1>2, <1>4 DEF Contents, Is
<1>6. Values!OnlyChanges(t) /\ Values!Put(t, Elements(mem[owner.mem], owner.base + x.off, x.len + y.len))
  <2> HIDE DEF x, y, owner, s, from
  <2> QED BY <1>2, WindowMeans
<1>7. Elements(s, from, x.len + y.len) = Contents(h) \o Contents(k)
  <2> DEFINE n == x.len
             m == y.len
  <2>1. s \in Seq(Val) /\ from \in Nat /\ n \in Nat /\ m \in Nat /\ from + n + m <= Len(s)
    BY <1>4
  <2> HIDE DEF s, from, n, m
  <2>2. Elements(s, from, n + m) = Elements(s, from, n) \o Elements(s, from + n, m)
    BY ONLY <2>1, ElementsJoin
  <2> QED BY <1>5, <2>2 DEF n, m
<1>8. Values!Put(t, Contents(h) \o Contents(k))
  BY <1>3, <1>6, <1>7
<1>9. /\ Held(h) /\ ~Is(h, "view") /\ Held(k) /\ ~Is(k, "view")
  BY <1>1 DEF Held, Is
<1>10. /\ Values!Holds(h) /\ Values!Holds(k) /\ ~Values!Holds(t)
       /\ Meanings[h] = Contents(h) /\ Meanings[k] = Contents(k)
       /\ Live \notin {Meanings[h], Meanings[k]}
  BY <1>2, <1>9, MeaningsTyped
<1> QED BY <1>2, <1>6, <1>8, <1>10 DEF Values!Join

(* clone and to_owned_copy give a buffer of the same meaning.              *)
LEMMA CopiesMean ==
  ASSUME Inv, Inv', [Next]_vars, NEW h \in Handle, NEW t \in Handle, Clone(h, t) \/ ToOwnedCopy(h, t)
  PROVE  Values!Copy(h, t) /\ Values!OnlyChanges(t) /\ mem'[Cell] = mem[Cell]
<1>1. Held(h) /\ ~Held(t) /\ mem' = mem
  BY DEF Clone, ToOwnedCopy, Rewrite
<1>2. /\ Values!Holds(h) /\ ~Values!Holds(t) /\ Meanings[h] = Meaning(h)
      /\ Contents(h) \in Seq(Val) /\ Values!Seen(h) = Contents(h)
  BY <1>1, MeaningsTyped
<1>3. CASE Clone(h, t)
  <2>1. buf' = [buf EXCEPT ![t] = buf[h]] /\ h # t
    BY <1>1, <1>3 DEF Clone, Become
  <2>2. buf'[t] = buf[h] /\ Values!OnlyChanges(t) /\ Values!Put(t, Meaning(t)')
    BY <1>1, <2>1, OneMeaning
  <2>3. Meaning(t)' = Meaning(h)
    BY <1>1, <2>2 DEF Meaning, Contents, Is
  <2> QED BY <1>1, <1>2, <2>2, <2>3 DEF Values!Copy
<1>4. CASE ToOwnedCopy(h, t)
  <2>1. Rewrite(t, Contents(h))
    BY <1>4 DEF ToOwnedCopy
  <2>2. Values!OnlyChanges(t) /\ Values!Put(t, Contents(h))
    BY <1>2, <2>1, RewriteMeans
  <2> QED BY <1>1, <1>2, <2>2 DEF Values!Copy
<1> QED BY <1>3, <1>4

(* A write, as_mut_slice, push and delete_range alike, does to the meaning *)
(* of its buffer what it says, and makes a view an own sequence.           *)
LEMMA WritesMean ==
  ASSUME Inv, Inv', [Next]_vars, NEW h \in Handle, AsMutSlice(h) \/ Push(h) \/ DeleteRange(h)
  PROVE  /\ Values!Store(h) \/ Values!Push(h) \/ Values!Delete(h)
         /\ Values!OnlyChanges(h) /\ mem'[Cell] = mem[Cell]
<1> DEFINE c == Contents(h)
<1>1. Held(h)
  BY DEF AsMutSlice, Push, DeleteRange
<1>2. Values!Holds(h) /\ c \in Seq(Val) /\ Values!Seen(h) = c
  BY <1>1, MeaningsTyped
<1>3. CASE AsMutSlice(h)
  <2>1. PICK i \in DOMAIN c, v \in Val : Rewrite(h, [c EXCEPT ![i] = v])
    BY <1>3 DEF AsMutSlice
  <2>2. [c EXCEPT ![i] = v] \in Seq(Val) /\ i \in 1..Len(c)
    BY <1>2
  <2> HIDE DEF c
  <2>3. Values!OnlyChanges(h) /\ Values!Put(h, [c EXCEPT ![i] = v]) /\ mem'[Cell] = mem[Cell]
    BY <2>1, <2>2, RewriteMeans
  <2>4. Values!Store(h)
    BY <1>2, <2>2, <2>3 DEF Values!Store
  <2> QED BY <2>3, <2>4
<1>4. CASE Push(h)
  <2>1. PICK v \in Val : Rewrite(h, Append(c, v))
    BY <1>4 DEF Push
  <2>2. Append(c, v) \in Seq(Val)
    BY <1>2
  <2> HIDE DEF c
  <2>3. Values!OnlyChanges(h) /\ Values!Put(h, Append(c, v)) /\ mem'[Cell] = mem[Cell]
    BY <2>1, <2>2, RewriteMeans
  <2>4. Values!Push(h)
    BY <1>2, <2>3 DEF Values!Push
  <2> QED BY <2>3, <2>4
<1>5. CASE DeleteRange(h)
  <2>1. PICK j \in 0..Len(c) : \E i \in 0..j : Rewrite(h, SubSeq(c, 1, i) \o SubSeq(c, j + 1, Len(c)))
    BY <1>5 DEF DeleteRange
  <2>2. PICK i \in 0..j : Rewrite(h, SubSeq(c, 1, i) \o SubSeq(c, j + 1, Len(c)))
    BY <2>1
  <2>3. SubSeq(c, 1, i) \in Seq(Val) /\ SubSeq(c, j + 1, Len(c)) \in Seq(Val)
    BY <1>2
  <2> HIDE DEF c
  <2>4. SubSeq(c, 1, i) \o SubSeq(c, j + 1, Len(c)) \in Seq(Val)
    BY <2>3
  <2>5. /\ Values!OnlyChanges(h) /\ mem'[Cell] = mem[Cell]
        /\ Values!Put(h, SubSeq(c, 1, i) \o SubSeq(c, j + 1, Len(c)))
    BY <2>2, <2>4, RewriteMeans
  <2>6. Values!Delete(h)
    BY <1>2, <2>5 DEF Values!Delete, Values!Without
  <2> QED BY <2>5, <2>6
<1> QED BY <1>3, <1>4, <1>5

(* into_shared_parts freezes what a buffer shows; a window keeps its own.  *)
LEMMA IntoSharedPartsMeans ==
  ASSUME Inv, Inv', [Next]_vars, NEW h \in Handle, IntoSharedParts(h), ~Is(h, "shared")
  PROVE  Values!Freeze(h) /\ Values!OnlyChanges(h) /\ mem'[Cell] = mem[Cell]
<1> DEFINE c == Contents(h)
<1>1. PICK a \in Alloc : /\ mem' = [mem EXCEPT ![a] = c]
                         /\ buf' = [buf EXCEPT ![h] = Shared(Slice(a, 0, Len(c)), 0, Len(c))]
  BY DEF IntoSharedParts, Become
<1>2. Values!Holds(h) /\ c \in Seq(Val) /\ Values!Seen(h) = c
  BY MeaningsTyped DEF IntoSharedParts
<1>3. mem'[a] = c /\ mem'[Cell] = mem[Cell]
  BY <1>1, CellAssumption DEF Inv, Typed, Mem
<1>4. /\ buf'[h] = Shared(Slice(a, 0, Len(c)), 0, Len(c))
      /\ Values!OnlyChanges(h) /\ Values!Put(h, Meaning(h)')
  <2> HIDE DEF c
  <2> QED BY <1>1, <1>3, OneMeaning
<1>5. Meaning(h)' = Elements(mem'[a], 0 + 0, Len(c))
  BY <1>4 DEF Meaning, Contents, Is, Shared, Slice
<1> HIDE DEF c
<1>6. Elements(c, 0 + 0, Len(c)) = c
  BY <1>2, SMT DEF Elements
<1>7. Values!Put(h, c)
  BY <1>3, <1>4, <1>5, <1>6
<1> QED BY <1>2, <1>3, <1>4, <1>7 DEF Values!Freeze

(* truncate keeps a prefix, whether it narrows a window or a copy.         *)
LEMMA TruncateMeans ==
  ASSUME Inv, Inv', [Next]_vars, NEW h \in Handle, Truncate(h)
  PROVE  UNCHANGED vars \/ (Values!Shorten(h) /\ Values!OnlyChanges(h) /\ mem'[Cell] = mem[Cell])
<1> DEFINE c == Contents(h)
           w == buf[h]
<1>1. PICK n \in 0..Len(c) :
        IF n = Len(c) THEN UNCHANGED vars
        ELSE IF Is(h, "shared") THEN Become(h, Shared(w.owner, w.off, n)) /\ UNCHANGED mem
        ELSE Rewrite(h, SubSeq(c, 1, n))
  BY DEF Truncate
<1>2. Values!Holds(h) /\ c \in Seq(Val) /\ Values!Seen(h) = c
  BY MeaningsTyped DEF Truncate
<1>3. SubSeq(c, 1, n) \in Seq(Val)
  BY <1>2
<1>4. CASE n # Len(c) /\ Is(h, "shared")
  <2>1. buf' = [buf EXCEPT ![h] = Shared(w.owner, w.off, n)] /\ mem' = mem
    BY <1>1, <1>4 DEF Become
  <2>2. w \in Window0 /\ Inside(w, mem) /\ w.kind = "shared"
    BY <1>4, WindowIsTyped, InvIsInside DEF Is
  <2> DEFINE s == mem[w.owner.mem]
             from == w.owner.base + w.off
             m == w.len
  <2>3. s \in Seq(Val) /\ from \in Nat /\ m \in Nat /\ from + m <= Len(s)
    BY <2>2, SMT DEF Inv, Typed, Window0, Inside
  <2>4. c = Elements(s, from, m) /\ Len(c) = m
    BY <1>4, <2>2, ContentsTyped DEF Contents, Is, Held
  <2>5. Values!OnlyChanges(h) /\ Values!Put(h, Elements(s, from, n))
    <3> HIDE DEF w, c
    <3> QED BY <2>1, WindowMeans
  <2> HIDE DEF s, from, m, c
  <2>6. n \in Nat /\ n <= m
    BY <2>3, <2>4
  <2>7. Elements(s, from, n) = SubSeq(Elements(s, from, m), 1, n)
    BY ONLY <2>3, <2>6, SMT DEF Elements
  <2>8. Values!Put(h, SubSeq(c, 1, n))
    BY <2>4, <2>5, <2>7
  <2> QED BY <1>2, <2>1, <2>5, <2>8 DEF Values!Shorten
<1>5. CASE n # Len(c) /\ ~Is(h, "shared")
  <2>1. Rewrite(h, SubSeq(c, 1, n))
    BY <1>1, <1>5
  <2> HIDE DEF c
  <2>2. Values!OnlyChanges(h) /\ Values!Put(h, SubSeq(c, 1, n)) /\ mem'[Cell] = mem[Cell]
    BY <1>3, <2>1, RewriteMeans
  <2> QED BY <1>2, <2>2 DEF Values!Shorten
<1> QED BY <1>1, <1>4, <1>5

(* split_off cuts an owned buffer into two, and no other buffer notices.   *)
LEMMA SplitOffMeans ==
  ASSUME Inv, Inv', [Next]_vars, NEW h \in Handle, NEW t \in Handle, SplitOff(h, t)
  PROVE  Values!Split(h, t)
<1> DEFINE c == buf[h].data
<1>1. PICK i \in 0..Len(c) :
        buf' = [buf EXCEPT ![h] = Owned(SubSeq(c, 1, i)), ![t] = Owned(SubSeq(c, i + 1, Len(c)))]
  BY DEF SplitOff
<1>2. mem' = mem /\ Is(h, "owned") /\ ~Held(t) /\ h # t
  BY DEF SplitOff, Is, Held
<1>3. /\ buf'[h] = Owned(SubSeq(c, 1, i)) /\ buf'[t] = Owned(SubSeq(c, i + 1, Len(c)))
      /\ \A u \in Handle \ {h, t} : buf'[u] = buf[u]
  BY <1>1, <1>2 DEF Inv, Typed
<1>4. Held(h) /\ ~Is(h, "view") /\ Contents(h) = c
  BY <1>2 DEF Held, Is, Contents
<1>5. Values!Holds(h) /\ ~Values!Holds(t) /\ Meanings[h] = c /\ Meanings[h] # Live
  BY <1>2, <1>4, MeaningsTyped
<1>6. \A u \in Handle \ {h, t} : Meaning(u)' = Meaning(u)
  BY <1>3, OthersMeanTheSame
<1>7. Meaning(h)' = SubSeq(c, 1, i) /\ Meaning(t)' = SubSeq(c, i + 1, Len(c))
  BY <1>3 DEF Meaning, Contents, Is, Owned
<1>8. Meanings' = [u \in Handle |-> Meaning(u)']
  BY DEF Meanings
<1> HIDE DEF c
<1>9. Meanings' = [Meanings EXCEPT ![h] = SubSeq(c, 1, i), ![t] = SubSeq(c, i + 1, Len(c))]
  BY <1>2, <1>6, <1>7, <1>8 DEF Meanings
<1> QED BY <1>2, <1>5, <1>9 DEF Values!Split

(* What a publication adds is seen by the views, and by them alone.        *)
LEMMA PublishMeans ==
  ASSUME Inv, Inv', [Next]_vars, Publish
  PROVE  Values!Publish
<1>1. PICK v \in Val : mem' = [mem EXCEPT ![Cell] = Append(mem[Cell], v)] /\ UNCHANGED buf
  BY DEF Publish
<1>2. mem'[Cell] = Append(mem[Cell], v)
  BY <1>1 DEF Inv, Typed, Mem
<1>3. \A h \in Handle : Meaning(h)' = Meaning(h)
  BY <1>1, OthersMeanTheSame
<1>4. Meanings' = Meanings
  BY <1>3 DEF Meanings
<1> QED BY <1>2, <1>4 DEF Values!Publish

(* A drop forgets one sequence; a view of the log begins to follow it.     *)
LEMMA DropMeans ==
  ASSUME Inv, Inv', [Next]_vars, NEW t \in Handle, Drop(t) \/ FromLBuffer(t)
  PROVE  /\ Values!Forget(t) \/ Values!View(t)
         /\ Values!OnlyChanges(t) /\ mem'[Cell] = mem[Cell]
<1>1. mem' = mem
  BY DEF Drop, FromLBuffer
<1>2. CASE Drop(t)
  <2>1. buf' = [buf EXCEPT ![t] = None] /\ Values!Holds(t)
    BY <1>2, MeaningsTyped DEF Drop, Become
  <2>2. buf'[t] = None /\ Values!OnlyChanges(t) /\ Values!Put(t, Meaning(t)')
    BY <1>1, <2>1, OneMeaning
  <2>3. Meaning(t)' = Absent
    BY <2>2 DEF Meaning, Is, None
  <2> QED BY <1>1, <2>1, <2>2, <2>3 DEF Values!Forget
<1>3. CASE FromLBuffer(t)
  <2>1. buf' = [buf EXCEPT ![t] = Viewing] /\ ~Values!Holds(t)
    BY <1>3, MeaningsTyped DEF FromLBuffer, Become
  <2>2. buf'[t] = Viewing /\ Values!OnlyChanges(t) /\ Values!Put(t, Meaning(t)')
    BY <1>1, <2>1, OneMeaning
  <2>3. Meaning(t)' = Live
    BY <2>2 DEF Meaning, Is, Viewing
  <2> QED BY <1>1, <2>1, <2>2, <2>3 DEF Values!View
<1> QED BY <1>2, <1>3

(* Every step is a step of one sequence, or none.                          *)
LEMMA StepMeans == Inv /\ Inv' /\ [Next]_vars => [Values!Next]_(Values!vars)
<1> SUFFICES ASSUME Inv, Inv', [Next]_vars PROVE [Values!Next]_(Values!vars)
  OBVIOUS
<1>1. UNCHANGED vars => UNCHANGED Values!vars
  BY DEF vars, Values!vars, Meanings, Meaning, Contents, Is
<1>2. ASSUME NEW t \in Handle, Values!OnlyChanges(t), mem'[Cell] = mem[Cell],
             \/ Values!Create(t) \/ Values!Forget(t) \/ Values!Store(t) \/ Values!Push(t)
             \/ Values!Shorten(t) \/ Values!Delete(t) \/ Values!Freeze(t) \/ Values!View(t)
             \/ Values!Window(mem[Cell], t)
             \/ \E h \in Handle : Values!Copy(h, t)
             \/ \E h, k \in Handle : Values!Join(h, k, t)
      PROVE  Values!Next
  BY <1>2 DEF Values!Next
<1>3. CASE Publish
  BY <1>3, PublishMeans DEF Values!Next
<1>4. ASSUME NEW h \in Handle,
             \/ FromVec(h) \/ FromShared(h) \/ LogWindow(h) \/ FromLBuffer(h) \/ IntoSharedParts(h)
             \/ AsMutSlice(h) \/ Push(h) \/ DeleteRange(h) \/ Truncate(h) \/ Drop(h)
      PROVE  UNCHANGED vars \/ Values!Next
  <2>1. CASE FromVec(h) \/ FromShared(h)
    BY <1>2, <2>1, CreatesMean
  <2>2. CASE LogWindow(h)
    BY <1>2, <2>2, LogWindowMeans
  <2>3. CASE FromLBuffer(h) \/ Drop(h)
    BY <1>2, <2>3, DropMeans
  <2>4. CASE IntoSharedParts(h) /\ ~Is(h, "shared")
    BY <1>2, <2>4, IntoSharedPartsMeans
  <2>5. CASE IntoSharedParts(h) /\ Is(h, "shared")
    BY <2>5 DEF IntoSharedParts
  <2>6. CASE AsMutSlice(h) \/ Push(h) \/ DeleteRange(h)
    BY <1>2, <2>6, WritesMean
  <2>7. CASE Truncate(h)
    BY <1>2, <2>7, TruncateMeans
  <2> QED BY <1>4, <2>1, <2>2, <2>3, <2>4, <2>5, <2>6, <2>7
<1>5. ASSUME NEW h \in Handle, NEW t \in Handle,
             \/ FromSlice(h, t) \/ FromSharedColumn(h, t) \/ Clone(h, t) \/ ToOwnedCopy(h, t) \/ SplitOff(h, t)
             \/ \E k \in Handle : AdjacentWindow(h, k, t)
      PROVE  Values!Next
  <2>1. CASE FromSlice(h, t) \/ FromSharedColumn(h, t)
    BY <1>2, <2>1, CreatesMean
  <2>2. CASE Clone(h, t) \/ ToOwnedCopy(h, t)
    BY <1>2, <2>2, CopiesMean
  <2>3. CASE SplitOff(h, t)
    BY <2>3, SplitOffMeans DEF Values!Next
  <2>4. ASSUME NEW k \in Handle, AdjacentWindow(h, k, t) PROVE Values!Next
    BY <1>2, <2>4, AdjacentWindowMeans
  <2> QED BY <1>5, <2>1, <2>2, <2>3, <2>4
<1> QED BY <1>1, <1>3, <1>4, <1>5 DEF Next

(* Whatever memory the buffers of a program share, they behave as          *)
(* sequences that share none: Buffer<T> is, as its documentation says      *)
(* (buffer.rs:112-116), a Vec64<T> to its callers.                         *)
THEOREM Refinement == Spec => ImplementsValues
<1>1. Init => Values!Init
  <2> SUFFICES ASSUME Init PROVE Values!Init
    OBVIOUS
  <2>1. \A h \in Handle : Meaning(h) = Absent
    BY DEF Init, Meaning, Is, None
  <2>2. Meanings = [h \in Handle |-> Absent]
    BY <2>1 DEF Meanings
  <2>3. mem[Cell] = <<>>
    BY DEF Init, Mem
  <2> QED BY <2>2, <2>3 DEF Values!Init
<1>2. Spec => Values!Init /\ [][Values!Next]_(Values!vars)
  BY <1>1, InitInv, NextInv, StepMeans, PTL DEF Spec
<1> QED BY <1>2 DEF ImplementsValues, Values!Spec
=============================================================================
