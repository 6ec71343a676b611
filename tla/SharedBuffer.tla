---------------------------- MODULE SharedBuffer ----------------------------
(***************************************************************************)
(* SharedBuffer: the reference-counted byte buffer that every zero-copy    *)
(* window of the library rests on (src/src/structs/shared_buffer).         *)
(*                                                                         *)
(* A SharedBuffer value ("handle") is a pointer range into one allocation  *)
(* plus a vtable chosen when the allocation was wrapped.  Handles are      *)
(* owned by threads and cloned, sliced, dropped and extracted              *)
(* concurrently; the only shared state is the count in the heap header.    *)
(* Each atomic access of the header is one step, so an extraction or a     *)
(* drop is two steps that other handles' steps may fall between.           *)
(***************************************************************************)
EXTENDS Integers, FiniteSets, TLC

CONSTANTS
    Handle,   \* names for the SharedBuffer values that may exist at once
    Alloc,    \* names for the heap allocations (headers) that may be created
    NoAlloc,  \* the null `data` pointer of a STATIC_VT handle
    Size      \* bytes in every allocation

ASSUME HandleAssumption == IsFiniteSet(Handle)
ASSUME AllocAssumption  == NoAlloc \notin Alloc
ASSUME SizeAssumption   == Size \in Nat \ {0}

VARIABLES
    header,    \* [Alloc -> heap header]
    handle,    \* [Handle -> SharedBuffer value and what its owner is doing]
    forgotten, \* history: references consumed by a copying extraction
    extracted  \* history: what the latest extraction was asked for and gave

vars == <<header, handle, forgotten, extracted>>

(* The vtable families: PROMO_*_VT, PROMO64_*_VT, OWNED_VT and MEMFD_VT.   *)
(* The even and odd variants of one family have the same entries.          *)
Kinds == {"vec", "vec64", "owned", "memfd"}

(* "unused" until wrapped; "live" while the header box exists; "freed"     *)
(* once header and bytes are dropped; "moved" once a unique owner took the *)
(* inner vector; "lost" when the header was dropped but not the bytes.     *)
Mem == {"unused", "live", "freed", "moved", "lost"}

(* "none": no such value.  "live": usable.  The rest is the value's owner  *)
(* inside drop (count taken to zero, free pending) or inside into_vec or   *)
(* into_vec64 (uniqueness observed, swap pending).                         *)
Stages == {"none", "live", "freeing", "to_vec", "to_vec64"}

Header == [kind : Kinds, ref_cnt : Nat, mem : Mem]
Value  == [stage : Stages, data : Alloc \cup {NoAlloc}, ptr : Nat, len : Nat]

(* Bytes are positions: content is the interval of an allocation it spans. *)
Bytes  == [of : Alloc, ptr : Nat, len : Nat]

Absent == [stage |-> "none", data |-> NoAlloc, ptr |-> 0, len |-> 0]

(* as_slice: the bytes a handle reads.                                     *)
AsSlice(h) == [of |-> handle[h].data, ptr |-> handle[h].ptr, len |-> handle[h].len]

Live(h)  == handle[h].stage = "live"
Heap(h)  == handle[h].data # NoAlloc

TypeOK ==
    /\ header \in [Alloc -> Header]
    /\ handle \in [Handle -> Value]
    /\ forgotten \in [Alloc -> Nat]
    /\ extracted \subseteq [want : Bytes, got : Bytes]

Init ==
    /\ header = [a \in Alloc |-> [kind |-> "vec", ref_cnt |-> 0, mem |-> "unused"]]
    /\ handle = [h \in Handle |-> Absent]
    /\ forgotten = [a \in Alloc |-> 0]
    /\ extracted = {}

-----------------------------------------------------------------------------
(* Construction                                                            *)

Wrap(h, a, kind) ==
    /\ handle[h].stage = "none"
    /\ header[a].mem = "unused"
    /\ header' = [header EXCEPT ![a] = [kind |-> kind, ref_cnt |-> 1, mem |-> "live"]]
    /\ handle' = [handle EXCEPT ![h] =
                     [stage |-> "live", data |-> a, ptr |-> 0, len |-> Size]]
    /\ UNCHANGED <<forgotten, extracted>>

FromVec(h, a)        == Wrap(h, a, "vec")
FromVec64(h, a)      == Wrap(h, a, "vec64")
FromOwner(h, a)      == Wrap(h, a, "owned")
FromMemfdOwner(h, a) == Wrap(h, a, "memfd")

FromStatic(h) ==
    /\ handle[h].stage = "none"
    /\ handle' = [handle EXCEPT ![h] =
                     [stage |-> "live", data |-> NoAlloc, ptr |-> 0, len |-> Size]]
    /\ UNCHANGED <<header, forgotten, extracted>>

-----------------------------------------------------------------------------
(* Cloning and slicing                                                     *)

\* Mutant: a clone that forgets the reference it hands out.
AddRefSkipped(h) == header' = header

(* The clone entry of the vtable: one relaxed fetch_add on the header, or  *)
(* nothing for STATIC_VT.                                                  *)
AddRef(h) ==
    header' = IF Heap(h) THEN [header EXCEPT ![handle[h].data].ref_cnt = @ + 1]
                         ELSE header

Clone(h, g) ==
    /\ Live(h) /\ handle[g].stage = "none"
    /\ AddRef(h)
    /\ handle' = [handle EXCEPT ![g] = handle[h]]
    /\ UNCHANGED <<forgotten, extracted>>

(* slice(start..end): an empty range gives the static empty buffer and     *)
(* takes no reference; any other range is a clone with a narrowed window.  *)
Slice(h, g, start, end) ==
    /\ Live(h) /\ handle[g].stage = "none"
    /\ start <= end /\ end <= handle[h].len
    /\ IF start = end
       THEN /\ handle' = [handle EXCEPT ![g] = [Absent EXCEPT !.stage = "live"]]
            /\ UNCHANGED header
       ELSE /\ AddRef(h)
            /\ handle' = [handle EXCEPT ![g] = [handle[h] EXCEPT
                             !.ptr = @ + start, !.len = end - start]]
    /\ UNCHANGED <<forgotten, extracted>>

-----------------------------------------------------------------------------
(* Dropping                                                                *)

\* Mutants: the last owner is recognised one reference too early, or never.
FreesAtTwo(n) == n <= 2
NeverLast(n) == FALSE

(* fetch_sub returned n: was this the last reference?                      *)
WasLast(n) == n = 1

(* drop, first atomic step: decrement; the owner that took the count from  *)
(* one to zero goes on to free the storage.                                *)
DropDecrement(h) ==
    LET a == handle[h].data IN
    /\ Live(h) /\ Heap(h)
    /\ header' = [header EXCEPT ![a].ref_cnt = @ - 1]
    /\ handle' = [handle EXCEPT ![h] = IF WasLast(header[a].ref_cnt)
                                       THEN [@ EXCEPT !.stage = "freeing"]
                                       ELSE Absent]
    /\ UNCHANGED <<forgotten, extracted>>

DropFree(h) ==
    /\ handle[h].stage = "freeing"
    /\ header' = [header EXCEPT ![handle[h].data].mem = "freed"]
    /\ handle' = [handle EXCEPT ![h] = Absent]
    /\ UNCHANGED <<forgotten, extracted>>

DropStatic(h) ==
    /\ Live(h) /\ ~Heap(h)
    /\ handle' = [handle EXCEPT ![h] = Absent]
    /\ UNCHANGED <<header, forgotten, extracted>>

-----------------------------------------------------------------------------
(* Extraction: into_vec and into_vec64 consume the handle inside a         *)
(* ManuallyDrop, so no path of theirs runs the vtable's drop entry.        *)

\* Mutant: the uniqueness test ignores the count.
AlwaysUnique(h) == TRUE

(* is_unique: the count is one.  A static buffer is always unique.         *)
IsUnique(h) == ~Heap(h) \/ header[handle[h].data].ref_cnt = 1

(* Which (backend, target) pairs look for uniqueness before copying.       *)
MayMove(kind, target) == \/ kind = "vec64"
                         \/ kind = "vec" /\ target = "to_vec"

(* First step: the pairs that may move load the count; the rest, and the   *)
(* pairs that saw a shared count, copy the handle's bytes and return. The  *)
(* reference a heap handle held stays in the count.                        *)
IntoStart(h, target) ==
    /\ Live(h)
    /\ IF Heap(h) /\ MayMove(header[handle[h].data].kind, target) /\ IsUnique(h)
       THEN /\ handle' = [handle EXCEPT ![h].stage = target]
            /\ UNCHANGED <<header, forgotten, extracted>>
       ELSE /\ handle' = [handle EXCEPT ![h] = Absent]
            /\ IF Heap(h)
               THEN /\ forgotten' = [forgotten EXCEPT ![handle[h].data] = @ + 1]
                    /\ extracted' = {[want |-> AsSlice(h), got |-> AsSlice(h)]}
               ELSE UNCHANGED <<forgotten, extracted>>
            /\ UNCHANGED header

(* Second step: swap the header pointer out and take the inner vector, all *)
(* of it. A Vec64 asked for as a Vec is copied out of a ManuallyDrop: the  *)
(* header box goes, the 64-byte aligned bytes are never released.          *)
IntoTake(h) ==
    LET a == handle[h].data IN
    /\ handle[h].stage \in {"to_vec", "to_vec64"}
    /\ header' = [header EXCEPT ![a].ref_cnt = 0,
                     ![a].mem = IF header[a].kind = "vec64" /\ handle[h].stage = "to_vec"
                                THEN "lost" ELSE "moved"]
    /\ handle' = [handle EXCEPT ![h] = Absent]
    /\ extracted' = {[want |-> AsSlice(h),
                       got  |-> [of |-> a, ptr |-> 0, len |-> Size]]}
    /\ UNCHANGED forgotten

IntoVec(h)   == IntoStart(h, "to_vec")
IntoVec64(h) == IntoStart(h, "to_vec64")

-----------------------------------------------------------------------------
Next ==
    \/ \E h \in Handle, a \in Alloc :
          \/ FromVec(h, a)
          \/ FromVec64(h, a)
          \/ FromOwner(h, a)
          \/ FromMemfdOwner(h, a)
    \/ \E h \in Handle : FromStatic(h)
    \/ \E h, g \in Handle : Clone(h, g)
    \/ \E h, g \in Handle, start, end \in 0..Size : Slice(h, g, start, end)
    \/ \E h \in Handle :
          \/ DropDecrement(h)
          \/ DropFree(h)
          \/ DropStatic(h)
          \/ IntoVec(h)
          \/ IntoVec64(h)
          \/ IntoTake(h)

Spec == Init /\ [][Next]_vars

-----------------------------------------------------------------------------
(* Properties                                                              *)

(* The values that still count: every live handle on a, and a handle whose *)
(* owner has seen itself unique but not yet taken the storage.             *)
Holders(a) == {h \in Handle : /\ handle[h].data = a
                              /\ handle[h].stage \in {"live", "to_vec", "to_vec64"}}

(* No value can reach storage that was released, moved away or lost: the   *)
(* soundness of as_slice's raw pointer read.                               *)
NoDanglingHandle ==
    \A h \in Handle : handle[h].stage # "none" /\ Heap(h)
                          => header[handle[h].data].mem = "live"

(* The count is exactly the values that hold a reference plus those a      *)
(* copying extraction consumed without giving theirs back.                 *)
CountIsHolders ==
    \A a \in Alloc : header[a].mem = "live"
        => header[a].ref_cnt = Cardinality(Holders(a)) + forgotten[a]

(* The uniqueness a to_vec path observed is still true when it swaps the   *)
(* header out, whatever the other threads did in between; and a thread     *)
(* that is about to free is alone.                                         *)
TakerIsAlone ==
    \A h \in Handle : handle[h].stage \in {"freeing", "to_vec", "to_vec64"}
        => \A g \in Handle \ {h} : handle[g].stage # "none" => handle[g].data # handle[h].data

(* Storage whose references were all given back by drop is released as     *)
(* soon as the last value is gone.                                         *)
ReleasedWithLastHandle ==
    \A a \in Alloc : /\ header[a].mem = "live"
                     /\ forgotten[a] = 0
                     => \E h \in Handle : handle[h].stage # "none" /\ handle[h].data = a

(* The documentation of is_unique: true if this is the unique owner.       *)
SoleOwnerIsUnique ==
    \A h \in Handle : Live(h) /\ Heap(h) /\ Holders(handle[h].data) = {h} => IsUnique(h)

(* into_vec converts this buffer: what it returns is what as_slice read.   *)
ExtractsOwnBytes == \A e \in extracted : e.got = e.want

-----------------------------------------------------------------------------
(* For model checking: values and allocations are interchangeable, and a   *)
(* behaviour loses at most MaxForgotten references of an allocation to     *)
(* copying extractions.  Three values over two allocations of two bytes    *)
(* are enough for a clone, a slice of a clone, and a drop and an           *)
(* extraction racing on one header.                                        *)
Symmetry == Permutations(Handle) \cup Permutations(Alloc)
MaxForgotten == 2
Bounded == \A a \in Alloc : forgotten[a] <= MaxForgotten
=============================================================================
