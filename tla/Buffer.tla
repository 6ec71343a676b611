------------------------------- MODULE Buffer -------------------------------
(***************************************************************************)
(* Copy-on-write buffers (src/structs/buffer.rs): owned vectors, windows   *)
(* over shared allocations, and live views of the log that a writer is     *)
(* still appending to.  A window names elements of an allocation by        *)
(* offset and length and reads them unchecked; every write first turns it  *)
(* into an owned copy.                                                     *)
(*                                                                         *)
(* Elements stand for bytes and for values alike.  A SharedBuffer is an    *)
(* allocation, the element its slice starts at and the size of the slice   *)
(* (module SharedBuffer is about when the allocation is released).  The    *)
(* allocation of the log is shared too: the elements it has published are  *)
(* never written again (module LBuffer).                                   *)
(***************************************************************************)
EXTENDS Integers, Sequences, FiniteSets, TLC

CONSTANTS Handle,      \* buffers of the program
          Alloc,       \* shared allocations
          Cell,        \* the allocation of the log
          Val,         \* elements
          Align,       \* elements in 64 bytes
          MaxLen,      \* bound: elements of a buffer and of the log
          Absent, Live \* the abstract values of no buffer and of a view

ASSUME CellAssumption == Cell \notin Alloc
ASSUME AlignAssumption == Align \in Nat \ {0} /\ MaxLen \in Nat
ASSUME AbstractAssumption == Absent # Live /\ Absent \notin Seq(Val) /\ Live \notin Seq(Val)

VARIABLES buf,   \* what each buffer stores
          mem    \* the elements of each allocation

vars == <<buf, mem>>

Mem == Alloc \cup {Cell}
Short(S) == UNION {[1..n -> S] : n \in 0..MaxLen}

Storage ==
  [kind : {"absent", "view"}] \cup [kind : {"owned"}, data : Short(Val)]
  \cup [kind : {"shared"}, owner : [mem : Mem, base : 0..MaxLen, size : 0..MaxLen],
        off : 0..MaxLen, len : 0..MaxLen]

None == [kind |-> "absent"]
Viewing == [kind |-> "view"]
Owned(s) == [kind |-> "owned", data |-> s]
Shared(owner, off, n) == [kind |-> "shared", owner |-> owner, off |-> off, len |-> n]
Slice(a, base, size) == [mem |-> a, base |-> base, size |-> size]

Is(h, kind) == buf[h].kind = kind
Held(h) == ~Is(h, "absent")

(* Buffer::as_slice: a shared window is read without a bound check. *)
Elements(s, from, n) == SubSeq(s, from + 1, from + n)
Contents(h) ==
  IF Is(h, "owned") THEN buf[h].data
  ELSE IF Is(h, "shared") THEN Elements(mem[buf[h].owner.mem], buf[h].owner.base + buf[h].off, buf[h].len)
  ELSE IF Is(h, "view") THEN mem[Cell] ELSE <<>>

Init == buf = [h \in Handle |-> None] /\ mem = [a \in Mem |-> <<>>]

Become(h, s) == buf' = [buf EXCEPT ![h] = s]
Free(a) == \A h \in Handle : Is(h, "shared") => buf[h].owner.mem # a

(* make_owned_mut followed by a write: the copy is written, never memory   *)
(* that another buffer can reach.                                          *)
RewriteInPlace(h, s) ==
  /\ Len(s) <= MaxLen
  /\ IF Is(h, "shared") /\ Len(s) = buf[h].len
     THEN /\ mem' = [mem EXCEPT ![buf[h].owner.mem] =
                       [i \in DOMAIN @ |-> LET k == i - buf[h].owner.base - buf[h].off
                                           IN IF k \in DOMAIN s THEN s[k] ELSE @[i]]]
          /\ UNCHANGED buf
     ELSE Become(h, Owned(s)) /\ UNCHANGED mem
Rewrite(h, s) == Len(s) <= MaxLen /\ Become(h, Owned(s)) /\ UNCHANGED mem

(* from_vec64, from_slice *)
FromVec(t) == ~Held(t) /\ \E s \in Short(Val) : Rewrite(t, s)

(* from_shared, of a fresh allocation or of a slice of what h's owner      *)
(* holds: nothing to share when it is empty, and a copy when it does not   *)
(* start on a 64-byte boundary.                                            *)
Misaligned(owner) == owner.base % Align # 0
FromOwner(t, owner, s) ==
  Become(t, IF owner.size = 0 \/ Misaligned(owner) THEN Owned(s) ELSE Shared(owner, 0, owner.size))
FromShared(t) ==
  /\ ~Held(t)
  /\ \E a \in Alloc, s \in Short(Val) :
       /\ Free(a)
       /\ mem' = [mem EXCEPT ![a] = s]
       /\ FromOwner(t, Slice(a, 0, Len(s)), s)
FromSlice(h, t) ==
  /\ Is(h, "shared") /\ ~Held(t)
  /\ LET owner == buf[h].owner
     IN \E i \in 0..owner.size : \E n \in 0..owner.size - i :
          FromOwner(t, Slice(owner.mem, owner.base + i, n), Elements(mem[owner.mem], owner.base + i, n))
  /\ UNCHANGED mem

(* from_shared_column: any window of the owner of h, checked against it. *)
FromSharedColumn(h, t) ==
  /\ Is(h, "shared") /\ ~Held(t)
  /\ \E off \in 0..MaxLen, n \in 0..MaxLen :
       off + n <= buf[h].owner.size /\ Become(t, Shared(buf[h].owner, off, n))
  /\ UNCHANGED mem

(* LBuffer::window: the owner covers what the log had published then. *)
LogWindow(t) ==
  /\ ~Held(t)
  /\ \E i \in 0..Len(mem[Cell]) : \E n \in 0..Len(mem[Cell]) - i :
       Become(t, Shared(Slice(Cell, 0, Len(mem[Cell])), i, n))
  /\ UNCHANGED mem

(* from_lbuffer *)
FromLBuffer(t) == ~Held(t) /\ Become(t, Viewing) /\ UNCHANGED mem

(* into_shared_parts: owned memory is frozen, a view is snapshotted, a     *)
(* window keeps its parts.                                                 *)
IntoSharedParts(h) ==
  /\ Held(h)
  /\ IF Is(h, "shared") THEN UNCHANGED vars
     ELSE \E a \in Alloc :
            /\ Free(a)
            /\ mem' = [mem EXCEPT ![a] = Contents(h)]
            /\ Become(h, Shared(Slice(a, 0, Len(Contents(h))), 0, Len(Contents(h))))

(* adjacent_window: one window for two consecutive ones; owners with one   *)
(* base are one allocation, and the longer owner covers both.              *)
FirstOwner(a, b) == a
LongerOwner(a, b) == IF b.size >= a.size THEN b ELSE a
Consecutive(x, y) == x.owner.mem = y.owner.mem /\ x.owner.base = y.owner.base /\ x.off + x.len = y.off
AdjacentWindow(h, k, t) ==
  /\ Is(h, "shared") /\ Is(k, "shared") /\ ~Held(t)
  /\ Consecutive(buf[h], buf[k])
  /\ Become(t, Shared(LongerOwner(buf[h].owner, buf[k].owner), buf[h].off, buf[h].len + buf[k].len))
  /\ UNCHANGED mem

(* clone; to_owned_copy and a consuming iterator copy the elements. *)
Clone(h, t) == Held(h) /\ ~Held(t) /\ Become(t, buf[h]) /\ UNCHANGED mem
ToOwnedCopy(h, t) == Held(h) /\ ~Held(t) /\ Rewrite(t, Contents(h))

(* as_mut_slice and iter_mut; push, resize and extend_from_slice;          *)
(* delete_range and splice.                                                *)
AsMutSlice(h) == Held(h) /\ \E i \in DOMAIN Contents(h), v \in Val : Rewrite(h, [Contents(h) EXCEPT ![i] = v])
Push(h) == Held(h) /\ \E v \in Val : Rewrite(h, Append(Contents(h), v))
DeleteRange(h) ==
  /\ Held(h)
  /\ \E j \in 0..Len(Contents(h)) : \E i \in 0..j :
       Rewrite(h, SubSeq(Contents(h), 1, i) \o SubSeq(Contents(h), j + 1, Len(Contents(h))))

(* truncate: a window is narrowed, a view first becomes owned. *)
Truncate(h) ==
  /\ Held(h)
  /\ \E n \in 0..Len(Contents(h)) :
       IF n = Len(Contents(h)) THEN UNCHANGED vars
       ELSE IF Is(h, "shared") THEN Become(h, Shared(buf[h].owner, buf[h].off, n)) /\ UNCHANGED mem
       ELSE Rewrite(h, SubSeq(Contents(h), 1, n))

(* split_off panics unless the buffer is owned. *)
SplitOff(h, t) ==
  /\ Is(h, "owned") /\ ~Held(t)
  /\ \E i \in 0..Len(buf[h].data) :
       buf' = [buf EXCEPT ![h] = Owned(SubSeq(buf[h].data, 1, i)),
                          ![t] = Owned(SubSeq(buf[h].data, i + 1, Len(buf[h].data)))]
  /\ UNCHANGED mem

Drop(h) == Held(h) /\ Become(h, None) /\ UNCHANGED mem

(* The writer of the log publishes one element (LBuffer::push). *)
Publish == Len(mem[Cell]) < MaxLen /\ \E v \in Val : mem' = [mem EXCEPT ![Cell] = Append(@, v)] /\ UNCHANGED buf

Next ==
  \/ Publish
  \/ \E h \in Handle :
       \/ FromVec(h) \/ FromShared(h) \/ LogWindow(h) \/ FromLBuffer(h) \/ IntoSharedParts(h)
       \/ AsMutSlice(h) \/ Push(h) \/ DeleteRange(h) \/ Truncate(h) \/ Drop(h)
       \/ \E t \in Handle : \/ FromSlice(h, t) \/ FromSharedColumn(h, t) \/ Clone(h, t)
                            \/ ToOwnedCopy(h, t) \/ SplitOff(h, t)
                            \/ \E k \in Handle : AdjacentWindow(h, k, t)

Spec == Init /\ [][Next]_vars

-----------------------------------------------------------------------------
TypeOK == buf \in [Handle -> Storage] /\ mem \in [Mem -> Short(Val)]

(* A window never reaches past the slice its owner keeps alive, nor the    *)
(* slice past the allocation: as_slice (buffer.rs:499-504) does not check. *)
(* The owners of two windows of the log have different sizes, and a joined *)
(* window must keep the one that covers both.                              *)
WindowsInsideOwner ==
  \A h \in Handle : Is(h, "shared") =>
    /\ buf[h].off + buf[h].len <= buf[h].owner.size
    /\ buf[h].owner.base + buf[h].owner.size <= Len(mem[buf[h].owner.mem])

(* No call changes an element that a buffer reaches through a shared       *)
(* allocation: writes go to copies, reuse waits for the last window, and   *)
(* the log only grows.                                                     *)
SharedNeverWritten ==
  [][\A a \in Mem : mem'[a] # mem[a] =>
       \/ Free(a)
       \/ a = Cell /\ Len(mem'[a]) > Len(mem[a]) /\ SubSeq(mem'[a], 1, Len(mem[a])) = mem[a]]_vars

(* The sequence a buffer shows: a view is whatever the log publishes.      *)
Meaning(h) == IF Is(h, "absent") THEN Absent ELSE IF Is(h, "view") THEN Live ELSE Contents(h)
Meanings == [h \in Handle |-> Meaning(h)]

(* Buffers that share memory behave as sequences that share nothing: a     *)
(* step of one is a step of its own value and of no other's.               *)
Values == INSTANCE BufferValues WITH value <- Meanings, log <- mem[Cell]
ImplementsValues == Values!Spec

-----------------------------------------------------------------------------
(* Which buffer and which element it is tells no behaviours apart.         *)
Symmetry == Permutations(Handle) \cup Permutations(Val)
=============================================================================
