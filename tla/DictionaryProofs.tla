-------------------------- MODULE DictionaryProofs --------------------------
(***************************************************************************)
(* Proofs about Dictionary, for every set of strings, shards, threads and  *)
(* chunks and every capacity.                                              *)
(***************************************************************************)
EXTENDS Dictionary, TLAPS

Writing == {"write", "publish", "insert"}

(* A thread that appends holds the mutex of its string's shard, and the    *)
(* string is not in the index.                                             *)
LockOK ==
    \A t \in Thread : call[t].pc \in Locked =>
        /\ lock[ShardOf[call[t].string]] = t
        /\ index[call[t].string] = NoCode

(* Where a writer's slot is relative to the two counters, and what it has. *)
SlotOK ==
    \A t \in Thread :
        /\ call[t].pc \in Writing => call[t].slot < reserved
        /\ call[t].pc \in {"write", "publish"} => call[t].slot >= published
        /\ call[t].pc = "insert" => call[t].slot < published
        /\ call[t].pc \in {"publish", "insert"} => values[call[t].slot] = call[t].string

(* No slot has two writers.                                                *)
SlotsDiffer ==
    \A t, u \in Thread : call[t].pc \in Writing /\ call[u].pc \in Writing /\ t # u
        => call[t].slot # call[u].slot

(* A reserved slot is about to be written, about to be indexed, or indexed.*)
SlotsAccounted ==
    \A c \in 0 .. reserved - 1 :
        \/ \E t \in Thread : call[t].pc = "write" /\ call[t].slot = c
        \/ /\ values[c] \in String
           /\ \/ index[values[c]] = c
              \/ \E t \in Thread : call[t].pc \in {"publish", "insert"} /\ call[t].slot = c

IndexOK ==
    \A s \in String : index[s] # NoCode => index[s] < published /\ values[index[s]] = s

(* The codes a merge has so far decode to the strings they stand for.      *)
RemapOK ==
    \A t \in Thread :
        /\ call[t].pc = "scan" => call[t].op = "remap"
        /\ call[t].pc # "idle" /\ call[t].op = "remap" =>
              /\ ~cat[t].shares
              /\ call[t].pc # "scan" => call[t].string = cat[t].own[call[t].from]
              /\ \A k \in CodeOfT : call[t].remap[k] # NoCode =>
                    /\ call[t].remap[k] < published
                    /\ values[call[t].remap[k]] = cat[t].own[k]

CatOK ==
    \A t \in Thread : \A i \in Row \ cat[t].null :
        IF cat[t].shares THEN cat[t].data[i] \in 0 .. published - 1
                         ELSE cat[t].own[cat[t].data[i]] \in String

Inv ==
    /\ TypeOK
    /\ published <= reserved
    /\ LockOK
    /\ SlotOK
    /\ SlotsDiffer
    /\ SlotsAccounted
    /\ IndexOK
    /\ RemapOK
    /\ CatOK

(* An idle thread is a thread of the right type.                         *)
LEMMA IdleIsCall ==
    /\ Idle \in CallState
    /\ Idle.pc = "idle" /\ Idle.op = "add"
  <1>1. (CHOOSE s \in String : TRUE) \in String
    BY NameAssumption
  <1>2. 0 \in Slot /\ 0 \in CodeOfT
    BY CapAssumption DEF Slot, CodeOfT
  <1> QED
    BY <1>1, <1>2 DEF Idle, CallState, Pc, NoCode

(* The empty dictionary satisfies the invariant.                         *)
LEMMA InitInv == Init => Inv
  <1> SUFFICES ASSUME Init PROVE Inv
    OBVIOUS
  <1> USE DEF Init
  <1>1. \A t \in Thread : cat[t] \in Chunk
    BY ChunkAssumption
  <1>2. TypeOK
    <2>1. cat \in [Thread -> CatState]
      BY <1>1 DEF Chunk, CatState
    <2>2. call \in [Thread -> CallState]
      BY IdleIsCall
    <2>3. /\ values \in [Slot -> String \cup {Empty}]
          /\ index \in [String -> Slot \cup {NoCode}]
          /\ lock \in [Shard -> Thread \cup {Free}]
      OBVIOUS
    <2>4. 0 \in 0 .. Cap
      BY CapAssumption
    <2> QED
      BY <2>1, <2>2, <2>3, <2>4 DEF TypeOK
  <1>3. \A t \in Thread : call[t].pc = "idle"
    BY IdleIsCall
  <1>4. LockOK /\ SlotOK /\ SlotsDiffer /\ RemapOK
    BY <1>3 DEF LockOK, SlotOK, SlotsDiffer, RemapOK, Locked, Writing
  <1>5. SlotsAccounted /\ IndexOK /\ published <= reserved
    BY DEF SlotsAccounted, IndexOK
  <1>6. CatOK
    BY <1>1 DEF CatOK, Chunk
  <1> QED
    BY <1>2, <1>4, <1>5, <1>6 DEF Inv

-----------------------------------------------------------------------------
(* One lemma for each action.                                              *)

(* A step that only moves one thread, outside of its critical section.     *)
LEMMA MoveInv ==
    ASSUME Inv, NEW t \in Thread, NEW seen \in CallState,
           call' = [call EXCEPT ![t] = seen],
           call[t].pc \notin Locked, seen.pc \in {"idle", "search", "scan"},
           UNCHANGED <<store, index, lock, cat>>,
           seen.pc = "scan" => seen.op = "remap",
           seen.pc # "idle" /\ seen.op = "remap" =>
              /\ ~cat[t].shares
              /\ seen.pc # "scan" => seen.string = cat[t].own[seen.from]
              /\ \A k \in CodeOfT : seen.remap[k] # NoCode =>
                    seen.remap[k] < published /\ values[seen.remap[k]] = cat[t].own[k]
    PROVE  Inv'
  <1> USE DEF store
  <1>1. /\ call'[t] = seen
        /\ \A u \in Thread : u # t => call'[u] = call[u]
    BY DEF Inv, TypeOK
  <1>2. TypeOK'
    BY DEF Inv, TypeOK
  <1>3. LockOK'
    BY <1>1 DEF Inv, LockOK, Locked
  <1>4. SlotOK'
    BY <1>1 DEF Inv, SlotOK, Writing
  <1>5. SlotsDiffer'
    BY <1>1 DEF Inv, SlotsDiffer, Writing
  <1>6. SlotsAccounted'
    BY <1>1 DEF Inv, SlotsAccounted, Locked
  <1>7. (IndexOK /\ CatOK /\ published <= reserved)'
    BY DEF Inv, IndexOK, CatOK
  <1>8. RemapOK'
    BY <1>1 DEF Inv, RemapOK
  <1> QED
    BY <1>2, <1>3, <1>4, <1>5, <1>6, <1>7, <1>8 DEF Inv

(* Calling add_cat or lookup changes no shared state.                    *)
LEMMA BeginInv ==
    ASSUME Inv, NEW t \in Thread, NEW s \in String, NEW op \in {"add", "lookup"}, Begin(t, op, s)
    PROVE  Inv'
  <1> DEFINE seen == [Idle EXCEPT !.pc = "search", !.op = op, !.string = s]
  <1>1. seen \in CallState /\ seen.pc = "search" /\ seen.op # "remap"
    BY IdleIsCall DEF CallState, Pc
  <1>2. call' = [call EXCEPT ![t] = seen] /\ call[t].pc \notin Locked
    BY DEF Begin, Locked
  <1>3. UNCHANGED <<store, index, lock, cat>>
    BY DEF Begin
  <1> HIDE DEF seen
  <1> QED
    BY <1>1, <1>2, <1>3, MoveInv

(* Calling add_remap_cat changes no shared state.                        *)
LEMMA AddRemapCatInv ==
    ASSUME Inv, NEW t \in Thread, AddRemapCat(t) PROVE Inv'
  <1> DEFINE seen == [Idle EXCEPT !.pc = "scan", !.op = "remap"]
  <1>1. seen \in CallState /\ seen.pc = "scan" /\ seen.op = "remap"
    BY IdleIsCall DEF CallState, Pc
  <1>2. \A k \in CodeOfT : seen.remap[k] = NoCode
    BY DEF Idle
  <1>3. call' = [call EXCEPT ![t] = seen] /\ call[t].pc \notin Locked /\ ~cat[t].shares
    BY DEF AddRemapCat, Locked
  <1>4. UNCHANGED <<store, index, lock, cat>>
    BY DEF AddRemapCat
  <1> HIDE DEF seen
  <1> QED
    BY <1>1, <1>2, <1>3, <1>4, MoveInv

(* The loop of add_remap_cat picks a string that is not null.            *)
LEMMA InternInv ==
    ASSUME Inv, NEW t \in Thread, Intern(t) PROVE Inv'
  <1>1. PICK k \in Pending(t) :
           call' = [call EXCEPT ![t] = [call[t] EXCEPT
                       !.pc = "search", !.from = k, !.string = cat[t].own[k]]]
    BY DEF Intern
  <1> DEFINE seen == [call[t] EXCEPT !.pc = "search", !.from = k, !.string = cat[t].own[k]]
  <1>2. call[t].pc = "scan" /\ call[t].op = "remap" /\ ~cat[t].shares
    BY DEF Intern, Inv, RemapOK
  <1>3. call[t] \in CallState
    BY DEF Inv, TypeOK
  <1>4. k \in CodeOfT /\ cat[t].own[k] \in String
    BY <1>2 DEF Pending, Inv, TypeOK, CatState, CatOK
  <1>5. /\ seen \in CallState /\ seen.pc = "search" /\ seen.op = "remap"
        /\ seen.string = cat[t].own[seen.from] /\ seen.remap = call[t].remap
    BY <1>2, <1>3, <1>4 DEF CallState, Pc
  <1>6. \A j \in CodeOfT : seen.remap[j] # NoCode =>
           seen.remap[j] < published /\ values[seen.remap[j]] = cat[t].own[j]
    BY <1>2, <1>5 DEF Inv, RemapOK
  <1>7. call[t].pc \notin Locked
    BY <1>2 DEF Locked
  <1>8. UNCHANGED <<store, index, lock, cat>>
    BY DEF Intern
  <1>9. call' = [call EXCEPT ![t] = seen]
    BY <1>1
  <1> HIDE DEF seen
  <1> QED
    BY <1>2, <1>5, <1>6, <1>7, <1>8, <1>9, MoveInv

(* What a thread does when add_cat has given it the code of its string.    *)
LEMMA ReturnSeen ==
    ASSUME Inv, NEW t \in Thread, NEW c \in Slot, Return(t, c), call[t].pc # "idle",
           call[t].pc # "scan", c < published', values'[c] = call[t].string,
           published' = published, UNCHANGED <<values, cat>>
    PROVE  \E seen \in CallState :
              /\ call' = [call EXCEPT ![t] = seen]
              /\ seen.pc \in {"idle", "scan"}
              /\ seen.pc = "scan" => seen.op = "remap"
              /\ seen.pc # "idle" /\ seen.op = "remap" =>
                    /\ ~cat[t].shares
                    /\ \A k \in CodeOfT : seen.remap[k] # NoCode =>
                          /\ seen.remap[k] < published'
                          /\ values[seen.remap[k]] = cat[t].own[k]
  <1>1. CASE call[t].op # "remap"
    BY <1>1, IdleIsCall DEF Return
  <1>2. CASE call[t].op = "remap"
    <2> DEFINE seen == [call[t] EXCEPT !.pc = "scan", !.remap[call[t].from] = c]
    <2>1. call[t] \in CallState
      BY DEF Inv, TypeOK
    <2>2. /\ ~cat[t].shares
          /\ call[t].string = cat[t].own[call[t].from]
          /\ \A k \in CodeOfT : call[t].remap[k] # NoCode =>
                /\ call[t].remap[k] < published
                /\ values[call[t].remap[k]] = cat[t].own[k]
      BY <1>2 DEF Inv, RemapOK
    <2>3. /\ seen.pc = "scan" /\ seen.op = "remap"
          /\ seen.remap = [call[t].remap EXCEPT ![call[t].from] = c]
      BY <1>2, <2>1 DEF CallState
    <2>4. seen \in CallState
      BY <2>1 DEF CallState, Pc
    <2>5. ASSUME NEW k \in CodeOfT, seen.remap[k] # NoCode
          PROVE  seen.remap[k] < published' /\ values[seen.remap[k]] = cat[t].own[k]
      <3>1. CASE k = call[t].from
        BY <2>1, <2>2, <2>3, <3>1 DEF CallState
      <3>2. CASE k # call[t].from
        <4>1. seen.remap[k] = call[t].remap[k] /\ call[t].remap[k] \in Slot
          BY <2>1, <2>3, <2>5, <3>2 DEF CallState
        <4> QED
          BY <2>2, <2>5, <4>1
      <3> QED
        BY <3>1, <3>2
    <2>6. call' = [call EXCEPT ![t] = seen]
      BY <1>2 DEF Return
    <2> HIDE DEF seen
    <2> QED
      BY <2>2, <2>3, <2>4, <2>5, <2>6
  <1> QED
    BY <1>1, <1>2

(* A code that the index gives is published.                             *)
LEMMA FoundInv ==
    ASSUME Inv, NEW t \in Thread, Found(t) PROVE Inv'
  <1> DEFINE c == index[call[t].string]
  <1>1. c \in Slot /\ c < published /\ values[c] = call[t].string
    BY DEF Found, Inv, TypeOK, CallState, IndexOK
  <1>2. call[t].pc = "search" /\ Return(t, c) /\ UNCHANGED <<store, index, lock, cat>>
    BY DEF Found
  <1>3. published' = published /\ values' = values
    BY <1>2 DEF store
  <1> HIDE DEF c
  <1>4. PICK seen \in CallState :
              /\ call' = [call EXCEPT ![t] = seen]
              /\ seen.pc \in {"idle", "scan"}
              /\ seen.pc = "scan" => seen.op = "remap"
              /\ seen.pc # "idle" /\ seen.op = "remap" =>
                    /\ ~cat[t].shares
                    /\ \A k \in CodeOfT : seen.remap[k] # NoCode =>
                          /\ seen.remap[k] < published'
                          /\ values[seen.remap[k]] = cat[t].own[k]
    BY <1>1, <1>2, <1>3, ReturnSeen
  <1>5. call[t].pc \notin Locked
    BY <1>2 DEF Locked
  <1> QED
    BY <1>2, <1>3, <1>4, <1>5, MoveInv

(* A lookup that misses answers nothing.                                 *)
LEMMA NotFoundInv ==
    ASSUME Inv, NEW t \in Thread, NotFound(t) PROVE Inv'
  <1>1. call' = [call EXCEPT ![t] = Idle] /\ UNCHANGED <<store, index, lock, cat>>
    BY DEF NotFound
  <1>2. call[t].pc \notin Locked
    BY DEF NotFound, Locked
  <1> QED
    BY <1>1, <1>2, IdleIsCall, MoveInv

(* The strings of two threads that append are of different shards.         *)
LEMMA LockedAlone ==
    ASSUME Inv, NEW t \in Thread, NEW u \in Thread, t # u,
           call[t].pc \in Locked, call[u].pc \in Locked
    PROVE  ShardOf[call[t].string] # ShardOf[call[u].string]
  BY DEF Inv, LockOK

(* A shard is locked by one thread, which saw no code.                   *)
LEMMA EnterInv ==
    ASSUME Inv, NEW t \in Thread, Enter(t) PROVE Inv'
  <1> DEFINE s == call[t].string
  <1>1. call[t] \in CallState /\ s \in String /\ ShardOf[s] \in Shard
    BY ShardAssumption DEF Inv, TypeOK, CallState
  <1>2. /\ call[t].pc = "search" /\ lock[ShardOf[s]] = Free /\ index[s] = NoCode
        /\ lock' = [lock EXCEPT ![ShardOf[s]] = t]
        /\ call' = [call EXCEPT ![t].pc = "reserve"]
        /\ UNCHANGED <<values, reserved, published, index, answer, cat>>
    BY DEF Enter, CanLock, store
  <1>3. /\ call'[t] = [call[t] EXCEPT !.pc = "reserve"]
        /\ \A u \in Thread : u # t => call'[u] = call[u]
    BY <1>2 DEF Inv, TypeOK
  <1>4. call'[t] \in CallState /\ call'[t].pc = "reserve" /\ call'[t].string = s
        /\ call'[t].op = call[t].op /\ call'[t].remap = call[t].remap
        /\ call'[t].from = call[t].from
    BY <1>1, <1>3 DEF CallState, Pc
  <1> HIDE DEF s
  <1>5. TypeOK'
    <2>1. call' \in [Thread -> CallState]
      BY <1>2, <1>3, <1>4 DEF Inv, TypeOK
    <2>2. lock' \in [Shard -> Thread \cup {Free}]
      BY <1>2 DEF Inv, TypeOK
    <2> QED
      BY <1>2, <2>1, <2>2 DEF Inv, TypeOK
  <1>6. LockOK'
    <2> SUFFICES ASSUME NEW u \in Thread, call'[u].pc \in Locked
                 PROVE  /\ lock'[ShardOf[call'[u].string]] = u
                        /\ index'[call'[u].string] = NoCode
      BY DEF LockOK
    <2>1. CASE u = t
      BY <1>1, <1>2, <1>4, <2>1 DEF Inv, TypeOK
    <2>2. CASE u # t
      <3>1. lock[ShardOf[call[u].string]] = u /\ index[call[u].string] = NoCode
        BY <1>3, <2>2 DEF Inv, LockOK
      <3>2. ShardOf[call[u].string] # ShardOf[s]
        BY <1>2, <3>1, NameAssumption
      <3>3. ShardOf[call[u].string] \in Shard
        BY ShardAssumption DEF Inv, TypeOK, CallState
      <3> QED
        BY <1>2, <1>3, <2>2, <3>1, <3>2, <3>3 DEF Inv, TypeOK
    <2> QED
      BY <2>1, <2>2
  <1>7. SlotOK' /\ SlotsDiffer'
    BY <1>2, <1>3, <1>4 DEF Inv, SlotOK, SlotsDiffer, Writing
  <1>8. SlotsAccounted'
    BY <1>2, <1>3 DEF Inv, SlotsAccounted
  <1>9. (IndexOK /\ CatOK /\ published <= reserved)'
    BY <1>2 DEF Inv, IndexOK, CatOK
  <1>10. RemapOK'
    BY <1>2, <1>3, <1>4 DEF Inv, RemapOK
  <1> QED
    BY <1>5, <1>6, <1>7, <1>8, <1>9, <1>10 DEF Inv

(* Slots are reserved below the capacity, each for one writer.           *)
LEMMA ReserveInv ==
    ASSUME Inv, NEW t \in Thread, Reserve(t) PROVE Inv'
  <1>1. call[t] \in CallState /\ reserved \in 0 .. Cap /\ published \in 0 .. Cap
    BY DEF Inv, TypeOK
  <1>a. call' = [call EXCEPT ![t] = [call[t] EXCEPT !.pc = "write", !.slot = reserved]]
    BY DEF Reserve, Inv, TypeOK
  <1>2. /\ call[t].pc = "reserve" /\ reserved < Cap /\ reserved' = reserved + 1
        /\ UNCHANGED <<values, published, index, lock, answer, cat>>
    BY DEF Reserve, HasRoom
  <1>b. call'[t] = [call[t] EXCEPT !.pc = "write", !.slot = reserved]
    BY <1>a DEF Inv, TypeOK
  <1>3. \A u \in Thread : u # t => call'[u] = call[u]
    BY <1>a DEF Inv, TypeOK
  <1>4. reserved \in Slot
    BY <1>1, <1>2, CapAssumption DEF Slot
  <1>5. /\ call'[t] \in CallState /\ call'[t].pc = "write" /\ call'[t].slot = reserved
        /\ call'[t].string = call[t].string
        /\ call'[t].op = call[t].op /\ call'[t].remap = call[t].remap
        /\ call'[t].from = call[t].from
    BY <1>1, <1>b, <1>4 DEF CallState, Pc
  <1>6. TypeOK'
    <2>1. call' \in [Thread -> CallState]
      BY <1>a, <1>b, <1>5 DEF Inv, TypeOK
    <2>2. reserved' \in 0 .. Cap
      BY <1>1, <1>2, CapAssumption
    <2> QED
      BY <1>2, <2>1, <2>2 DEF Inv, TypeOK
  <1>7. LockOK'
    BY <1>2, <1>3, <1>5 DEF Inv, LockOK, Locked
  <1>8. SlotOK'
    <2> SUFFICES ASSUME NEW u \in Thread
                 PROVE  /\ call'[u].pc \in Writing => call'[u].slot < reserved'
                        /\ call'[u].pc \in {"write", "publish"} => call'[u].slot >= published'
                        /\ call'[u].pc = "insert" => call'[u].slot < published'
                        /\ call'[u].pc \in {"publish", "insert"}
                              => values'[call'[u].slot] = call'[u].string
      BY DEF SlotOK
    <2>1. CASE u = t
      BY <1>1, <1>2, <1>5, <2>1 DEF Inv
    <2>2. CASE u # t
      <3>1. call[u].slot \in Int /\ call'[u] = call[u]
        BY <1>3, <2>2 DEF Inv, TypeOK, CallState, Slot
      <3> QED
        BY <1>1, <1>2, <3>1 DEF Inv, SlotOK, Writing
    <2> QED
      BY <2>1, <2>2
  <1>9. SlotsDiffer'
    <2>1. ASSUME NEW u \in Thread, u # t, call[u].pc \in Writing PROVE call[u].slot # reserved
      <3>1. call[u].slot \in Int /\ call[u].slot < reserved
        BY <2>1 DEF Inv, TypeOK, CallState, Slot, SlotOK
      <3> QED
        BY <1>1, <3>1
    <2> QED
      BY <1>3, <1>5, <2>1 DEF Inv, SlotsDiffer
  <1>10. SlotsAccounted'
    <2> SUFFICES ASSUME NEW c \in 0 .. reserved' - 1
                 PROVE \/ \E u \in Thread : call'[u].pc = "write" /\ call'[u].slot = c
                       \/ /\ values'[c] \in String
                          /\ \/ index'[values'[c]] = c
                             \/ \E u \in Thread : call'[u].pc \in {"publish", "insert"}
                                                  /\ call'[u].slot = c
      BY DEF SlotsAccounted
    <2>1. CASE c = reserved
      BY <1>5, <2>1
    <2>2. CASE c # reserved
      <3>1. c \in 0 .. reserved - 1
        BY <1>1, <1>2, <2>2
      <3> QED
        BY <1>2, <1>3, <3>1 DEF Inv, SlotsAccounted
    <2> QED
      BY <2>1, <2>2
  <1>11. (IndexOK /\ CatOK)'
    BY <1>2 DEF Inv, IndexOK, CatOK
  <1>12. RemapOK'
    BY <1>2, <1>3, <1>5 DEF Inv, RemapOK
  <1>13. (published <= reserved)'
    BY <1>1, <1>2 DEF Inv
  <1> QED
    BY <1>6, <1>7, <1>8, <1>9, <1>10, <1>11, <1>12, <1>13 DEF Inv

(* A full array gives the shard back and keeps every slot.               *)
LEMMA RejectInv ==
    ASSUME Inv, NEW t \in Thread, Reject(t) PROVE Inv'
  <1>1. /\ call[t].pc = "reserve"
        /\ lock' = [lock EXCEPT ![ShardOf[call[t].string]] = Free]
        /\ call' = [call EXCEPT ![t] = Idle]
        /\ UNCHANGED <<values, reserved, published, index, cat>>
    BY DEF Reject, Unlock, store
  <1>2. /\ call'[t] = Idle
        /\ \A u \in Thread : u # t => call'[u] = call[u]
    BY <1>1 DEF Inv, TypeOK
  <1>3. TypeOK'
    <2>1. call' \in [Thread -> CallState]
      BY <1>1, IdleIsCall DEF Inv, TypeOK
    <2>2. lock' \in [Shard -> Thread \cup {Free}]
      BY <1>1 DEF Inv, TypeOK
    <2> QED
      BY <1>1, <2>1, <2>2 DEF Inv, TypeOK
  <1>4. LockOK'
    <2> SUFFICES ASSUME NEW u \in Thread, u # t, call[u].pc \in Locked
                 PROVE  /\ lock'[ShardOf[call[u].string]] = u
                        /\ index'[call[u].string] = NoCode
      BY <1>2, IdleIsCall DEF LockOK, Locked
    <2>1. ShardOf[call[u].string] # ShardOf[call[t].string]
      BY <1>1, LockedAlone DEF Locked
    <2>2. ShardOf[call[u].string] \in Shard
      BY ShardAssumption DEF Inv, TypeOK, CallState
    <2>3. lock \in [Shard -> Thread \cup {Free}]
      BY DEF Inv, TypeOK
    <2> QED
      BY <1>1, <2>1, <2>2, <2>3 DEF Inv, LockOK
  <1>5. SlotOK' /\ SlotsDiffer'
    BY <1>1, <1>2, IdleIsCall DEF Inv, SlotOK, SlotsDiffer, Writing
  <1>6. SlotsAccounted'
    BY <1>1, <1>2 DEF Inv, SlotsAccounted
  <1>7. (IndexOK /\ CatOK /\ published <= reserved)'
    BY <1>1 DEF Inv, IndexOK, CatOK
  <1>8. RemapOK'
    BY <1>1, <1>2, IdleIsCall DEF Inv, RemapOK
  <1> QED
    BY <1>3, <1>4, <1>5, <1>6, <1>7, <1>8 DEF Inv

(* A writer writes its own slot, which no reader sees yet.               *)
LEMMA WriteInv ==
    ASSUME Inv, NEW t \in Thread, Write(t) PROVE Inv'
  <1> DEFINE n == call[t].slot
  <1>1. /\ call[t] \in CallState /\ n \in Slot /\ call[t].string \in String
        /\ n \in Int /\ reserved \in Int /\ published \in Int
    BY DEF Inv, TypeOK, CallState, Slot
  <1>2. call' = [call EXCEPT ![t] = [call[t] EXCEPT !.pc = "publish"]]
    BY DEF Write, Inv, TypeOK
  <1>3. /\ call[t].pc = "write" /\ values' = [values EXCEPT ![n] = call[t].string]
        /\ UNCHANGED <<reserved, published, index, lock, cat>>
    BY DEF Write
  <1>4. call'[t] = [call[t] EXCEPT !.pc = "publish"]
    BY <1>2 DEF Inv, TypeOK
  <1>5. \A u \in Thread : u # t => call'[u] = call[u]
    BY <1>2 DEF Inv, TypeOK
  <1>6. /\ call'[t] \in CallState /\ call'[t].pc = "publish" /\ call'[t].slot = n
        /\ call'[t].string = call[t].string
        /\ call'[t].op = call[t].op /\ call'[t].remap = call[t].remap
        /\ call'[t].from = call[t].from
    BY <1>1, <1>4 DEF CallState, Pc
  <1>7. n < reserved /\ n >= published
    BY <1>3 DEF Inv, SlotOK, Writing
  <1>8. values'[n] = call[t].string /\ \A c \in Slot : c # n => values'[c] = values[c]
    BY <1>1, <1>3 DEF Inv, TypeOK
  <1> HIDE DEF n
  <1>9. \A c \in Slot : c < published => values'[c] = values[c]
    BY <1>1, <1>7, <1>8 DEF Slot
  <1>10. TypeOK'
    <2>1. call' \in [Thread -> CallState]
      BY <1>2, <1>4, <1>6 DEF Inv, TypeOK
    <2>2. values' \in [Slot -> String \cup {Empty}]
      BY <1>1, <1>3 DEF Inv, TypeOK
    <2> QED
      BY <1>3, <2>1, <2>2 DEF Inv, TypeOK
  <1>11. LockOK'
    BY <1>3, <1>5, <1>6 DEF Inv, LockOK, Locked
  <1>12. SlotOK'
    <2> SUFFICES ASSUME NEW u \in Thread
                 PROVE  /\ call'[u].pc \in Writing => call'[u].slot < reserved'
                        /\ call'[u].pc \in {"write", "publish"} => call'[u].slot >= published'
                        /\ call'[u].pc = "insert" => call'[u].slot < published'
                        /\ call'[u].pc \in {"publish", "insert"}
                              => values'[call'[u].slot] = call'[u].string
      BY DEF SlotOK
    <2>1. CASE u = t
      BY <1>3, <1>6, <1>7, <1>8, <2>1
    <2>2. CASE u # t
      <3>1. call[u].slot \in Slot /\ call'[u] = call[u]
        BY <1>5, <2>2 DEF Inv, TypeOK, CallState
      <3>2. call[u].pc \in Writing => call[u].slot # n
        BY <1>3, <2>2 DEF Inv, SlotsDiffer, Writing, n
      <3> QED
        BY <1>3, <1>8, <3>1, <3>2 DEF Inv, SlotOK, Writing
    <2> QED
      BY <2>1, <2>2
  <1>13. SlotsDiffer'
    BY <1>3, <1>5, <1>6 DEF Inv, SlotsDiffer, Writing, n
  <1>14. SlotsAccounted'
    <2> SUFFICES ASSUME NEW c \in 0 .. reserved - 1
                 PROVE \/ \E u \in Thread : call'[u].pc = "write" /\ call'[u].slot = c
                       \/ /\ values'[c] \in String
                          /\ \/ index'[values'[c]] = c
                             \/ \E u \in Thread : call'[u].pc \in {"publish", "insert"}
                                                  /\ call'[u].slot = c
      BY <1>3 DEF SlotsAccounted
    <2>1. CASE c = n
      BY <1>1, <1>6, <1>8, <2>1
    <2>2. CASE c # n
      <3>1. c \in Slot
        BY CapAssumption DEF Inv, TypeOK, Slot
      <3>2. values'[c] = values[c]
        BY <1>8, <2>2, <3>1
      <3>3. \A u \in Thread : call[u].slot = c => call'[u] = call[u]
        BY <1>5, <2>2 DEF n
      <3>4. \/ \E u \in Thread : call[u].pc = "write" /\ call[u].slot = c
            \/ /\ values[c] \in String
               /\ \/ index[values[c]] = c
                  \/ \E u \in Thread : call[u].pc \in {"publish", "insert"} /\ call[u].slot = c
        BY DEF Inv, SlotsAccounted
      <3>5. CASE \E u \in Thread : call[u].pc = "write" /\ call[u].slot = c
        BY <3>3, <3>5
      <3>6. CASE values[c] \in String /\ index[values[c]] = c
        BY <1>3, <3>2, <3>6
      <3>7. CASE /\ values[c] \in String
                 /\ \E u \in Thread : call[u].pc \in {"publish", "insert"} /\ call[u].slot = c
        BY <3>2, <3>3, <3>7
      <3> QED
        BY <3>4, <3>5, <3>6, <3>7
    <2> QED
      BY <2>1, <2>2
  <1>15. IndexOK'
    <2>1. \A s \in String : index[s] # NoCode => index[s] \in Slot
      BY DEF Inv, TypeOK
    <2> QED
      BY <1>3, <1>9, <2>1 DEF Inv, IndexOK
  <1>16. (CatOK /\ published <= reserved)'
    BY <1>3 DEF Inv, CatOK
  <1>17. RemapOK'
    <2>1. \A u \in Thread : \A k \in CodeOfT : call[u].remap[k] # NoCode
             => call[u].remap[k] \in Slot
      BY DEF Inv, TypeOK, CallState
    <2>2. \A u \in Thread : /\ call'[u].remap = call[u].remap /\ call'[u].op = call[u].op
                            /\ call'[u].string = call[u].string
                            /\ call'[u].from = call[u].from
                            /\ call'[u].pc = "scan" => call[u].pc = "scan"
                            /\ call'[u].pc # "idle" => call[u].pc # "idle"
      BY <1>3, <1>5, <1>6
    <2>3. \A u \in Thread : call'[u].pc # "scan" => call[u].pc # "scan"
      BY <1>3, <1>5
    <2> QED
      BY <1>3, <1>9, <2>1, <2>2, <2>3 DEF Inv, RemapOK
  <1> QED
    BY <1>10, <1>11, <1>12, <1>13, <1>14, <1>15, <1>16, <1>17 DEF Inv

(* The next slot in order is published after it was written.             *)
LEMMA PublishInv ==
    ASSUME Inv, NEW t \in Thread, Publish(t) PROVE Inv'
  <1>1. /\ call[t] \in CallState
        /\ call[t].slot \in Int /\ reserved \in 0 .. Cap /\ published \in 0 .. Cap
    BY DEF Inv, TypeOK, CallState, Slot
  <1>2. call' = [call EXCEPT ![t] = [call[t] EXCEPT !.pc = "insert"]]
    BY DEF Publish, Inv, TypeOK
  <1>3. /\ call[t].pc = "publish" /\ published = call[t].slot /\ published' = published + 1
        /\ UNCHANGED <<values, reserved, index, lock, cat>>
    BY DEF Publish, InTurn
  <1>4. call'[t] = [call[t] EXCEPT !.pc = "insert"]
    BY <1>2 DEF Inv, TypeOK
  <1>5. \A u \in Thread : u # t => call'[u] = call[u]
    BY <1>2 DEF Inv, TypeOK
  <1>6. /\ call'[t] \in CallState /\ call'[t].pc = "insert" /\ call'[t].slot = call[t].slot
        /\ call'[t].string = call[t].string
        /\ call'[t].op = call[t].op /\ call'[t].remap = call[t].remap
        /\ call'[t].from = call[t].from
    BY <1>1, <1>4 DEF CallState, Pc
  <1>7. /\ call[t].slot < reserved /\ values[call[t].slot] = call[t].string
    BY <1>3 DEF Inv, SlotOK, Writing
  <1>8. published' \in 0 .. Cap /\ published' <= reserved
    BY <1>1, <1>3, <1>7, CapAssumption
  <1>9. TypeOK'
    <2>1. call' \in [Thread -> CallState]
      BY <1>2, <1>4, <1>6 DEF Inv, TypeOK
    <2> QED
      BY <1>3, <1>8, <2>1 DEF Inv, TypeOK
  <1>10. LockOK'
    BY <1>3, <1>5, <1>6 DEF Inv, LockOK, Locked
  <1>11. SlotOK'
    <2> SUFFICES ASSUME NEW u \in Thread
                 PROVE  /\ call'[u].pc \in Writing => call'[u].slot < reserved'
                        /\ call'[u].pc \in {"write", "publish"} => call'[u].slot >= published'
                        /\ call'[u].pc = "insert" => call'[u].slot < published'
                        /\ call'[u].pc \in {"publish", "insert"}
                              => values'[call'[u].slot] = call'[u].string
      BY DEF SlotOK
    <2>1. CASE u = t
      BY <1>1, <1>3, <1>6, <1>7, <2>1
    <2>2. CASE u # t
      <3>1. call[u].slot \in Int /\ call'[u] = call[u]
        BY <1>5, <2>2 DEF Inv, TypeOK, CallState, Slot
      <3>2. call[u].pc \in Writing => call[u].slot # published
        BY <1>3, <2>2 DEF Inv, SlotsDiffer, Writing
      <3>3. /\ call[u].pc \in Writing => call[u].slot < reserved
            /\ call[u].pc \in {"write", "publish"} => call[u].slot >= published
            /\ call[u].pc = "insert" => call[u].slot < published
            /\ call[u].pc \in {"publish", "insert"} => values[call[u].slot] = call[u].string
        BY DEF Inv, SlotOK
      <3>4. call[u].pc \in {"write", "publish"} => call[u].slot >= published + 1
        BY <1>1, <3>1, <3>2, <3>3 DEF Writing
      <3> QED
        BY <1>1, <1>3, <3>1, <3>3, <3>4
    <2> QED
      BY <2>1, <2>2
  <1>12. SlotsDiffer'
    BY <1>3, <1>5, <1>6 DEF Inv, SlotsDiffer, Writing
  <1>13. SlotsAccounted'
    BY <1>3, <1>5, <1>6 DEF Inv, SlotsAccounted
  <1>14. IndexOK'
    <2>1. \A s \in String : index[s] # NoCode => index[s] \in Int
      BY DEF Inv, TypeOK, Slot
    <2> QED
      BY <1>1, <1>3, <2>1 DEF Inv, IndexOK
  <1>15. CatOK'
    BY <1>1, <1>3 DEF Inv, CatOK
  <1>16. RemapOK'
    <2>1. \A u \in Thread : \A k \in CodeOfT : call[u].remap[k] # NoCode
             => call[u].remap[k] \in Int
      BY DEF Inv, TypeOK, CallState, Slot
    <2>2. \A u \in Thread : /\ call'[u].remap = call[u].remap /\ call'[u].op = call[u].op
                            /\ call'[u].string = call[u].string
                            /\ call'[u].from = call[u].from
                            /\ call'[u].pc = "scan" => call[u].pc = "scan"
                            /\ call'[u].pc # "idle" => call[u].pc # "idle"
      BY <1>3, <1>5, <1>6
    <2>3. \A u \in Thread : call'[u].pc # "scan" => call[u].pc # "scan"
      BY <1>3, <1>5
    <2>4. \A n \in Int : n < published => n < published'
      BY <1>1, <1>3
    <2> QED
      BY <1>3, <2>1, <2>2, <2>3, <2>4 DEF Inv, RemapOK
  <1> QED
    BY <1>3, <1>8, <1>9, <1>10, <1>11, <1>12, <1>13, <1>14, <1>15, <1>16 DEF Inv

(* The index gets the code of a published slot, once.                    *)
LEMMA InsertInv ==
    ASSUME Inv, NEW t \in Thread, Insert(t) PROVE Inv'
  <1> DEFINE n == call[t].slot
             s == call[t].string
  <1>1. /\ n \in Slot /\ s \in String /\ ShardOf[s] \in Shard
        /\ index \in [String -> Slot \cup {NoCode}] /\ lock \in [Shard -> Thread \cup {Free}]
    BY ShardAssumption DEF Inv, TypeOK, CallState
  <1>2. /\ call[t].pc = "insert" /\ Return(t, n)
        /\ index' = [index EXCEPT ![s] = n] /\ lock' = [lock EXCEPT ![ShardOf[s]] = Free]
        /\ UNCHANGED <<values, reserved, published, cat>>
    BY DEF Insert, Unlock, store
  <1>3. n < published /\ values[n] = s
    BY <1>2 DEF Inv, SlotOK
  <1>4. index[s] = NoCode /\ lock[ShardOf[s]] = t
    BY <1>2 DEF Inv, LockOK, Locked
  <1>5. PICK seen \in CallState :
              /\ call' = [call EXCEPT ![t] = seen]
              /\ seen.pc \in {"idle", "scan"}
              /\ seen.pc = "scan" => seen.op = "remap"
              /\ seen.pc # "idle" /\ seen.op = "remap" =>
                    /\ ~cat[t].shares
                    /\ \A k \in CodeOfT : seen.remap[k] # NoCode =>
                          /\ seen.remap[k] < published'
                          /\ values[seen.remap[k]] = cat[t].own[k]
    BY <1>1, <1>2, <1>3, ReturnSeen
  <1>6. call'[t] = seen /\ \A u \in Thread : u # t => call'[u] = call[u]
    BY <1>5 DEF Inv, TypeOK
  <1>7. \A u \in Thread : u # t /\ call[u].pc \in Locked => call[u].string # s
    BY <1>2, LockedAlone DEF Locked
  <1>8. \A u \in Thread : u # t /\ call[u].pc \in Writing => call[u].slot # n
    BY <1>2 DEF Inv, SlotsDiffer, Writing
  <1>9. \A u \in Thread : call[u].string \in String /\ ShardOf[call[u].string] \in Shard
    BY ShardAssumption DEF Inv, TypeOK, CallState
  <1> HIDE DEF n, s
  <1>10. TypeOK'
    <2>1. call' \in [Thread -> CallState]
      BY <1>5 DEF Inv, TypeOK
    <2>2. lock' \in [Shard -> Thread \cup {Free}] /\ index' \in [String -> Slot \cup {NoCode}]
      BY <1>1, <1>2
    <2> QED
      BY <1>2, <2>1, <2>2 DEF Inv, TypeOK
  <1>11. LockOK'
    <2> SUFFICES ASSUME NEW u \in Thread, u # t, call[u].pc \in Locked
                 PROVE  /\ lock'[ShardOf[call[u].string]] = u
                        /\ index'[call[u].string] = NoCode
      BY <1>5, <1>6 DEF LockOK, Locked
    <2>1. lock[ShardOf[call[u].string]] = u /\ index[call[u].string] = NoCode
      BY DEF Inv, LockOK
    <2>2. ShardOf[call[u].string] # ShardOf[s]
      BY <1>4, <2>1
    <2> QED
      BY <1>1, <1>2, <1>7, <1>9, <2>1, <2>2
  <1>12. SlotOK' /\ SlotsDiffer'
    BY <1>2, <1>5, <1>6 DEF Inv, SlotOK, SlotsDiffer, Writing
  <1>13. SlotsAccounted'
    <2> SUFFICES ASSUME NEW c \in 0 .. reserved - 1
                 PROVE \/ \E u \in Thread : call'[u].pc = "write" /\ call'[u].slot = c
                       \/ /\ values'[c] \in String
                          /\ \/ index'[values'[c]] = c
                             \/ \E u \in Thread : call'[u].pc \in {"publish", "insert"}
                                                  /\ call'[u].slot = c
      BY <1>2 DEF SlotsAccounted
    <2>1. CASE c = n
      BY <1>1, <1>2, <1>3, <2>1
    <2>2. CASE c # n
      <3>1. \A u \in Thread : call[u].pc \in Writing /\ call[u].slot = c => call'[u] = call[u]
        BY <1>6, <2>2 DEF n
      <3>2. \/ \E u \in Thread : call[u].pc = "write" /\ call[u].slot = c
            \/ /\ values[c] \in String
               /\ \/ index[values[c]] = c
                  \/ \E u \in Thread : call[u].pc \in {"publish", "insert"} /\ call[u].slot = c
        BY DEF Inv, SlotsAccounted
      <3>3. CASE \E u \in Thread : call[u].pc = "write" /\ call[u].slot = c
        BY <3>1, <3>3 DEF Writing
      <3>4. CASE values[c] \in String /\ index[values[c]] = c
        <4>1. c # NoCode
          BY DEF NoCode
        <4>2. values[c] # s
          BY <1>4, <3>4, <4>1
        <4> QED
          BY <1>1, <1>2, <3>4, <4>2
      <3>5. CASE /\ values[c] \in String
                 /\ \E u \in Thread : call[u].pc \in {"publish", "insert"} /\ call[u].slot = c
        BY <1>2, <3>1, <3>5 DEF Writing
      <3> QED
        BY <3>2, <3>3, <3>4, <3>5
    <2> QED
      BY <2>1, <2>2
  <1>14. IndexOK'
    BY <1>1, <1>2, <1>3 DEF Inv, IndexOK
  <1>15. (CatOK /\ published <= reserved)'
    BY <1>2 DEF Inv, CatOK
  <1>16. RemapOK'
    BY <1>2, <1>5, <1>6 DEF Inv, RemapOK
  <1> QED
    BY <1>10, <1>11, <1>12, <1>13, <1>14, <1>15, <1>16 DEF Inv

(* Rebind replaces each code by one that decodes to the same string.       *)
LEMMA RemappedRows ==
    ASSUME Inv, NEW t \in Thread, Rebind(t)
    PROVE  /\ ~cat[t].shares
           /\ Remapped(t) \in [Row -> CodeOfT]
           /\ \A i \in Row \ cat[t].null :
                 /\ Remapped(t)[i] \in 0 .. published - 1
                 /\ values[Remapped(t)[i]] = cat[t].own[cat[t].data[i]]
  <1>1. call[t].pc = "scan" /\ call[t].op = "remap" /\ ~cat[t].shares /\ Pending(t) = {}
    BY DEF Rebind, Inv, RemapOK
  <1>2. cat[t] \in CatState /\ call[t] \in CallState /\ published \in Int
    BY DEF Inv, TypeOK
  <1>3. ASSUME NEW i \in Row \ cat[t].null
        PROVE  /\ Remapped(t)[i] \in Slot
               /\ Remapped(t)[i] < published
               /\ values[Remapped(t)[i]] = cat[t].own[cat[t].data[i]]
    <2>1. cat[t].data[i] \in CodeOfT /\ Remapped(t)[i] = call[t].remap[cat[t].data[i]]
      BY <1>2 DEF CatState, Remapped
    <2>2. call[t].remap[cat[t].data[i]] # NoCode
      BY <1>1 DEF Pending
    <2>3. call[t].remap[cat[t].data[i]] \in Slot \cup {NoCode}
      BY <1>2, <2>1 DEF CallState
    <2> QED
      BY <1>1, <2>1, <2>2, <2>3 DEF Inv, RemapOK
  <1>4. Slot \subseteq CodeOfT
    BY CapAssumption DEF Slot, CodeOfT
  <1>5. ASSUME NEW i \in Row PROVE Remapped(t)[i] \in CodeOfT
    <2>1. CASE i \in cat[t].null
      BY <1>2, <2>1 DEF Remapped, CatState
    <2>2. CASE i \notin cat[t].null
      BY <1>3, <1>4, <2>2
    <2> QED
      BY <2>1, <2>2
  <1>6. Remapped(t) = [i \in Row |-> Remapped(t)[i]]
    BY DEF Remapped
  <1>7. \A n \in Slot : n < published => n \in 0 .. published - 1
    BY <1>2 DEF Slot
  <1>8. Remapped(t) \in [Row -> CodeOfT]
    BY <1>5, <1>6
  <1> QED
    BY <1>1, <1>3, <1>7, <1>8

(* A chunk is bound when all its live codes were remapped.               *)
LEMMA RebindInv ==
    ASSUME Inv, NEW t \in Thread, Rebind(t) PROVE Inv'
  <1>1. /\ cat' = [cat EXCEPT ![t] = [cat[t] EXCEPT !.data = Remapped(t), !.shares = TRUE]]
        /\ call' = [call EXCEPT ![t] = Idle]
        /\ UNCHANGED <<values, reserved, published, index, lock>>
        /\ call[t].pc = "scan"
    BY DEF Rebind, store, Inv, TypeOK
  <1>2. /\ call'[t] = Idle
        /\ \A u \in Thread : u # t => call'[u] = call[u] /\ cat'[u] = cat[u]
    BY <1>1 DEF Inv, TypeOK
  <1>3. /\ cat'[t] \in CatState /\ cat'[t].shares /\ cat'[t].data = Remapped(t)
        /\ cat'[t].null = cat[t].null
    <2>1. cat[t] \in CatState /\ cat'[t] = [cat[t] EXCEPT !.data = Remapped(t), !.shares = TRUE]
      BY <1>1 DEF Inv, TypeOK
    <2>2. Remapped(t) \in [Row -> CodeOfT]
      BY RemappedRows
    <2>3. cat'[t].shares = TRUE
      BY <2>1 DEF CatState
    <2>4. cat'[t].data = Remapped(t) /\ cat'[t].null = cat[t].null
      BY <2>1 DEF CatState
    <2>5. cat'[t] \in CatState
      BY <2>1, <2>2 DEF CatState
    <2> QED
      BY <2>3, <2>4, <2>5
  <1>4. TypeOK'
    <2>1. call' \in [Thread -> CallState]
      BY <1>1, IdleIsCall DEF Inv, TypeOK
    <2>2. cat' \in [Thread -> CatState]
      BY <1>1, <1>2, <1>3 DEF Inv, TypeOK
    <2> QED
      BY <1>1, <2>1, <2>2 DEF Inv, TypeOK
  <1>5. LockOK' /\ SlotOK' /\ SlotsDiffer'
    BY <1>1, <1>2, IdleIsCall DEF Inv, LockOK, SlotOK, SlotsDiffer, Locked, Writing
  <1>6. SlotsAccounted' /\ (IndexOK /\ published <= reserved)'
    BY <1>1, <1>2 DEF Inv, SlotsAccounted, IndexOK
  <1>7. CatOK'
    BY <1>1, <1>2, <1>3, RemappedRows DEF Inv, CatOK
  <1>8. RemapOK'
    BY <1>1, <1>2, IdleIsCall DEF Inv, RemapOK
  <1> QED
    BY <1>4, <1>5, <1>6, <1>7, <1>8 DEF Inv

(* Every step keeps the invariant.                                       *)
LEMMA NextInv == Inv /\ [Next]_vars => Inv'
  <1> SUFFICES ASSUME Inv, [Next]_vars PROVE Inv'
    OBVIOUS
  <1>1. ASSUME NEW t \in Thread, InCall(t) PROVE Inv'
    BY <1>1, FoundInv, NotFoundInv, EnterInv, ReserveInv, RejectInv, WriteInv, PublishInv,
       InsertInv, InternInv, RebindInv DEF InCall
  <1>2. ASSUME NEW t \in Thread, NEW s \in String, AddCat(t, s) \/ Lookup(t, s) PROVE Inv'
    BY <1>2, BeginInv DEF AddCat, Lookup
  <1>3. CASE UNCHANGED vars
    BY <1>3 DEF vars, Inv, TypeOK, LockOK, SlotOK, SlotsDiffer, SlotsAccounted, IndexOK,
                RemapOK, CatOK
  <1> QED
    BY <1>1, <1>2, <1>3, AddRemapCatInv DEF Next

(* The inductive invariant holds in every reachable state.               *)
THEOREM Invariance == Spec => []Inv
  BY InitInv, NextInv, PTL DEF Spec

-----------------------------------------------------------------------------
(* What follows from the invariant.                                        *)

(* Every variable keeps its type: the two counters never pass the capacity.*)
THEOREM TypeCorrect == Spec => []TypeOK
  <1>1. Inv => TypeOK
    BY DEF Inv
  <1> QED
    BY <1>1, Invariance, PTL

(* A published slot is written, and indexed or about to be.              *)
LEMMA PublishedState ==
    ASSUME Inv, NEW c \in 0 .. published - 1
    PROVE  /\ c \in Slot /\ values[c] \in String
           /\ \/ index[values[c]] = c
              \/ \E t \in Thread : call[t].pc = "insert" /\ call[t].slot = c
  <1>1. c \in 0 .. reserved - 1 /\ c \in Slot /\ c < published /\ c \in Int
    BY CapAssumption DEF Inv, TypeOK, Slot
  <1>2. published \in Int /\ \A t \in Thread : call[t].slot \in Int
    BY DEF Inv, TypeOK, CallState, Slot
  <1>3. ASSUME NEW t \in Thread, call[t].pc \in {"write", "publish"} PROVE call[t].slot # c
    <2>1. call[t].slot >= published
      BY <1>3 DEF Inv, SlotOK
    <2> QED
      BY <1>1, <1>2, <2>1
  <1>4. \/ \E t \in Thread : call[t].pc = "write" /\ call[t].slot = c
        \/ /\ values[c] \in String
           /\ \/ index[values[c]] = c
              \/ \E t \in Thread : call[t].pc \in {"publish", "insert"} /\ call[t].slot = c
    BY <1>1 DEF Inv, SlotsAccounted
  <1> QED
    BY <1>1, <1>3, <1>4

(* values() never lends out a slot that was not written.                   *)
THEOREM ReadersSeeWritten == Spec => []PublishedIsWritten
  <1>1. Inv => PublishedIsWritten
    BY PublishedState DEF PublishedIsWritten
  <1> QED
    BY <1>1, Invariance, PTL

(* No string is ever published under two codes.                            *)
THEOREM OneCodePerString == Spec => []NoDuplicates
  <1>1. ASSUME Inv, NEW c \in 0 .. published - 1, NEW d \in 0 .. published - 1,
               values[c] = values[d]
        PROVE  c = d
    <2>1. ASSUME NEW t \in Thread, NEW n \in 0 .. published - 1,
                 call[t].pc = "insert", call[t].slot = n
          PROVE  index[values[n]] = NoCode
      <3>1. values[n] = call[t].string
        BY <1>1, <2>1 DEF Inv, SlotOK
      <3>2. index[call[t].string] = NoCode
        BY <1>1, <2>1 DEF Inv, LockOK, Locked
      <3> QED
        BY <3>1, <3>2
    <2>2. \A n \in 0 .. published - 1 : n # NoCode
      BY DEF NoCode
    <2>3. ASSUME NEW t \in Thread, NEW u \in Thread,
                 call[t].pc = "insert", call[u].pc = "insert",
                 call[t].slot = c, call[u].slot = d
          PROVE  c = d
      <3>1. call[t].string = call[u].string
        BY <1>1, <2>3 DEF Inv, SlotOK
      <3>2. ASSUME t # u PROVE FALSE
        <4>1. call[t].pc \in Locked /\ call[u].pc \in Locked
          BY <2>3 DEF Locked
        <4>2. ShardOf[call[t].string] # ShardOf[call[u].string]
          BY <1>1, <3>2, <4>1, LockedAlone
        <4> QED
          BY <3>1, <4>2
      <3> QED
        BY <2>3, <3>2
    <2> QED
      BY <1>1, <2>1, <2>2, <2>3, PublishedState
  <1>2. Inv => NoDuplicates
    BY <1>1 DEF NoDuplicates
  <1> QED
    BY <1>2, Invariance, PTL

(* The reverse index inverts the published values, but for the strings     *)
(* that are being inserted under their shard's mutex.                      *)
THEOREM IndexInverts == Spec => []IndexIsInverse
  <1>1. Inv => IndexIsInverse
    BY PublishedState DEF Inv, IndexOK, IndexIsInverse
  <1> QED
    BY <1>1, Invariance, PTL

(* The three facts together: values and index agree in every state.        *)
THEOREM TableConsistent == Spec => []TableIsConsistent
  <1>1. PublishedIsWritten /\ NoDuplicates /\ IndexIsInverse => TableIsConsistent
    BY DEF TableIsConsistent
  <1> QED
    BY <1>1, ReadersSeeWritten, OneCodePerString, IndexInverts, PTL

(* A chunk bound to the dictionary holds no code a reader cannot decode.   *)
THEOREM BoundRowsAreDecodable == Spec => []BoundRowsDecode
  <1>1. Inv => BoundRowsDecode
    BY DEF Inv, CatOK, BoundRowsDecode
  <1> QED
    BY <1>1, Invariance, PTL

(* Published slots are never written again.                                *)
LEMMA ValuesKept ==
    ASSUME Inv, [Next]_vars, NEW c \in 0 .. published - 1 PROVE values'[c] = values[c]
  <1>1. ASSUME NEW t \in Thread, Write(t) PROVE values'[c] = values[c]
    <2>1. call[t].slot >= published /\ call[t].slot \in Int /\ published \in Int
      BY <1>1 DEF Write, Inv, TypeOK, CallState, Slot, SlotOK
    <2>2. c \in Slot /\ c # call[t].slot
      BY <2>1, PublishedState
    <2> QED
      BY <1>1, <2>2 DEF Write, Inv, TypeOK
  <1>2. CASE \A t \in Thread : ~Write(t)
    <2>1. values' = values
      BY <1>2 DEF Next, InCall, AddCat, Lookup, Begin, AddRemapCat, Found, NotFound, Enter,
         Reserve, Reject, Publish, Insert, Intern, Rebind, store, vars
    <2> QED
      BY <2>1
  <1> QED
    BY <1>1, <1>2

(* Only binding a chunk changes it.                                      *)
LEMMA ChunksKept ==
    ASSUME Inv, [Next]_vars, NEW t \in Thread, ~Rebind(t) PROVE cat'[t] = cat[t]
  <1>1. ASSUME NEW u \in Thread, Rebind(u) PROVE cat'[t] = cat[t]
    BY <1>1 DEF Rebind, Inv, TypeOK
  <1>2. CASE \A u \in Thread : ~Rebind(u)
    <2>1. cat' = cat
      BY <1>2 DEF Next, InCall, AddCat, Lookup, Begin, AddRemapCat, Found, NotFound, Enter,
         Reserve, Reject, Write, Publish, Insert, Intern, vars
    <2> QED
      BY <2>1
  <1> QED
    BY <1>1, <1>2

(* Absorbing a chunk, overflowing on the way and everything other threads  *)
(* do leave what each of its rows decodes to unchanged.                    *)
THEOREM RowsKept == Spec => RowsKeepTheirStrings
  <1>1. ASSUME Inv, [Next]_vars, NEW t \in Thread, NEW i \in Row \ cat[t].null
        PROVE  Decoded(t, i)' = Decoded(t, i)
    <2>1. CASE ~Rebind(t)
      <3>1. cat'[t] = cat[t]
        BY <1>1, <2>1, ChunksKept
      <3>2. cat[t].shares => values'[cat[t].data[i]] = values[cat[t].data[i]]
        BY <1>1, ValuesKept DEF Inv, CatOK
      <3> QED
        BY <3>1, <3>2 DEF Decoded
    <2>2. CASE Rebind(t)
      <3>1. cat[t] \in CatState
        BY <1>1 DEF Inv, TypeOK
      <3>2. /\ cat'[t] = [cat[t] EXCEPT !.data = Remapped(t), !.shares = TRUE]
            /\ values' = values
        BY <1>1, <2>2 DEF Rebind, store, Inv, TypeOK
      <3>3. cat'[t].shares = TRUE
        BY <3>1, <3>2 DEF CatState
      <3>4. cat'[t].data = Remapped(t)
        BY <3>1, <3>2 DEF CatState
      <3> QED
        BY <1>1, <2>2, <3>2, <3>3, <3>4, RemappedRows DEF Decoded
    <2> QED
      BY <2>1, <2>2
  <1>2. Inv /\ [Next]_vars =>
           [\A t \in Thread : \A i \in Row \ cat[t].null : Decoded(t, i)' = Decoded(t, i)]_vars
    BY <1>1
  <1> QED
    BY <1>2, Invariance, PTL DEF Spec, RowsKeepTheirStrings

-----------------------------------------------------------------------------
(* The dictionary implements the abstract table.                           *)

(* What a slot is assigned: its writer's string, or its own.             *)
LEMMA AssignedIs ==
    ASSUME SlotsDiffer, NEW c
    PROVE  /\ \A t \in Thread : call[t].pc = "write" /\ call[t].slot = c
                 => Assigned(c) = call[t].string
           /\ (\A t \in Thread : ~(call[t].pc = "write" /\ call[t].slot = c))
                 => Assigned(c) = values[c]
  <1>1. ASSUME NEW t \in Thread, call[t].pc = "write", call[t].slot = c
        PROVE  WriterOf(c) = t
    <2>1. \E u \in Thread : call[u].pc = "write" /\ call[u].slot = c
      BY <1>1
    <2>2. WriterOf(c) \in Thread /\ call[WriterOf(c)].pc = "write" /\ call[WriterOf(c)].slot = c
      BY <2>1 DEF WriterOf
    <2> QED
      BY <1>1, <2>2 DEF SlotsDiffer, Writing
  <1> QED
    BY <1>1 DEF Assigned

(* The same, of the next state.                                          *)
LEMMA AssignedNext ==
    ASSUME SlotsDiffer', NEW c
    PROVE  /\ \A t \in Thread : call'[t].pc = "write" /\ call'[t].slot = c
                 => Assigned(c)' = call'[t].string
           /\ (\A t \in Thread : ~(call'[t].pc = "write" /\ call'[t].slot = c))
                 => Assigned(c)' = values'[c]
  <1>1. ASSUME NEW t \in Thread, call'[t].pc = "write", call'[t].slot = c
        PROVE  WriterOf(c)' = t
    <2>1. \E u \in Thread : call'[u].pc = "write" /\ call'[u].slot = c
      BY <1>1
    <2>2. /\ WriterOf(c)' \in Thread
          /\ call'[WriterOf(c)'].pc = "write" /\ call'[WriterOf(c)'].slot = c
      BY <2>1 DEF WriterOf
    <2> QED
      BY <1>1, <2>2 DEF SlotsDiffer, Writing
  <1> QED
    BY <1>1 DEF Assigned

(* A step that writes no slot and hands none out assigns nothing.          *)
LEMMA AssignmentsKept ==
    ASSUME Inv, Inv', NEW t \in Thread, reserved' = reserved, values' = values,
           \A u \in Thread : u # t => call'[u] = call[u],
           call[t].pc # "write", call'[t].pc # "write"
    PROVE  Assignments' = Assignments
  <1>1. ASSUME NEW c \in 0 .. reserved - 1 PROVE Assigned(c)' = Assigned(c)
    <2>1. SlotsDiffer /\ SlotsDiffer'
      BY DEF Inv
    <2>2. CASE \E u \in Thread : call[u].pc = "write" /\ call[u].slot = c
      <3>1. PICK u \in Thread : call[u].pc = "write" /\ call[u].slot = c
        BY <2>2
      <3>2. call'[u] = call[u]
        BY <3>1
      <3> QED
        BY <2>1, <3>1, <3>2, AssignedIs, AssignedNext
    <2>3. CASE \A u \in Thread : ~(call[u].pc = "write" /\ call[u].slot = c)
      <3>1. \A u \in Thread : ~(call'[u].pc = "write" /\ call'[u].slot = c)
        BY <2>3
      <3> QED
        BY <2>1, <2>3, <3>1, AssignedIs, AssignedNext
    <2> QED
      BY <2>2, <2>3
  <1> QED
    BY <1>1 DEF Assignments

(* A slot that a reader may read is assigned the string it holds.          *)
LEMMA AssignedPublished ==
    ASSUME Inv, NEW c \in 0 .. published - 1
    PROVE  c \in DOMAIN Assignments /\ Assignments[c] = values[c]
  <1>1. c \in 0 .. reserved - 1 /\ c < published /\ c \in Int /\ published \in Int
    BY DEF Inv, TypeOK
  <1>2. ASSUME NEW t \in Thread, call[t].pc = "write" PROVE call[t].slot # c
    <2>1. call[t].slot >= published /\ call[t].slot \in Int
      BY <1>2 DEF Inv, TypeOK, CallState, Slot, SlotOK
    <2> QED
      BY <1>1, <2>1
  <1>3. Assigned(c) = values[c]
    BY <1>2, AssignedIs DEF Inv
  <1> QED
    BY <1>1, <1>3 DEF Assignments

(* A string whose shard a thread finds unlocked, or holds before it has a  *)
(* slot, and that is not in the index, is assigned no code.                *)
LEMMA Unassigned ==
    ASSUME Inv, NEW t \in Thread, index[call[t].string] = NoCode,
           \/ lock[ShardOf[call[t].string]] = Free
           \/ call[t].pc = "reserve"
    PROVE  ~Table!Has(call[t].string)
  <1> DEFINE s == call[t].string
  <1>1. ASSUME NEW u \in Thread, call[u].pc \in Writing PROVE call[u].string # s
    <2>1. call[u].pc \in Locked /\ call[u].pc # "reserve"
      BY <1>1 DEF Writing, Locked
    <2>2. CASE lock[ShardOf[s]] = Free
      BY <2>1, <2>2, NameAssumption DEF Inv, LockOK
    <2>3. CASE call[t].pc = "reserve"
      <3>1. call[t].pc \in Locked /\ t # u
        BY <2>1, <2>3 DEF Locked
      <3>2. ShardOf[call[t].string] # ShardOf[call[u].string]
        BY <2>1, <3>1, LockedAlone
      <3> QED
        BY <3>2
    <2> QED
      BY <2>2, <2>3
  <1>2. ASSUME NEW c \in 0 .. reserved - 1 PROVE Assigned(c) # s
    <2>1. SlotsDiffer
      BY DEF Inv
    <2>2. CASE \E u \in Thread : call[u].pc = "write" /\ call[u].slot = c
      BY <1>1, <2>1, <2>2, AssignedIs DEF Writing
    <2>3. CASE \A u \in Thread : ~(call[u].pc = "write" /\ call[u].slot = c)
      <3>1. Assigned(c) = values[c]
        BY <2>1, <2>3, AssignedIs
      <3>2. \/ index[values[c]] = c
            \/ \E u \in Thread : call[u].pc \in {"publish", "insert"} /\ call[u].slot = c
        BY <2>3 DEF Inv, SlotsAccounted
      <3>3. CASE index[values[c]] = c
        <4>1. c # NoCode
          BY DEF NoCode
        <4> QED
          BY <3>1, <3>3, <4>1
      <3>4. CASE \E u \in Thread : call[u].pc \in {"publish", "insert"} /\ call[u].slot = c
        <4>1. PICK u \in Thread : call[u].pc \in {"publish", "insert"} /\ call[u].slot = c
          BY <3>4
        <4>2. values[c] = call[u].string
          BY <4>1 DEF Inv, SlotOK
        <4> QED
          BY <1>1, <3>1, <4>1, <4>2 DEF Writing
      <3> QED
        BY <3>2, <3>3, <3>4
    <2> QED
      BY <2>2, <2>3
  <1> HIDE DEF s
  <1>3. ~Table!Has(s)
    BY <1>2 DEF Table!Has, Assignments
  <1> QED
    BY <1>3 DEF s

(* Reserving a slot is the atomic assignment of a code.                  *)
LEMMA TableReserve ==
    ASSUME Inv, Inv', NEW t \in Thread, Reserve(t) PROVE Table!Assign
  <1> DEFINE s == call[t].string
  <1>1. /\ call[t].pc = "reserve" /\ reserved < Cap /\ reserved' = reserved + 1
        /\ UNCHANGED <<values, published, index, lock, answer, cat>>
        /\ call' = [call EXCEPT ![t] = [call[t] EXCEPT !.pc = "write", !.slot = reserved]]
    BY DEF Reserve, HasRoom, Inv, TypeOK
  <1>2. reserved \in 0 .. Cap - 1 /\ call[t] \in CallState /\ s \in String
    BY <1>1, CapAssumption DEF Inv, TypeOK, CallState
  <1>3. call'[t] = [call[t] EXCEPT !.pc = "write", !.slot = reserved]
    BY <1>1 DEF Inv, TypeOK
  <1>4. call'[t].pc = "write" /\ call'[t].slot = reserved /\ call'[t].string = s
    BY <1>2, <1>3 DEF CallState
  <1>5. \A u \in Thread : u # t => call'[u] = call[u]
    BY <1>1 DEF Inv, TypeOK
  <1>6. index[s] = NoCode
    BY <1>1 DEF Inv, LockOK, Locked
  <1>7. ~Table!Has(s)
    BY <1>1, <1>6, Unassigned
  <1>8. ASSUME NEW n, n = reserved PROVE Assigned(n)' = s
    BY <1>4, <1>8, AssignedNext DEF Inv
  <1> HIDE DEF s
  <1>9. ASSUME NEW c \in 0 .. reserved - 1 PROVE Assigned(c)' = Assigned(c)
    <2>1. SlotsDiffer /\ SlotsDiffer' /\ c # reserved
      BY <1>2 DEF Inv
    <2>2. CASE \E u \in Thread : call[u].pc = "write" /\ call[u].slot = c
      <3>1. PICK u \in Thread : call[u].pc = "write" /\ call[u].slot = c
        BY <2>2
      <3>2. call'[u] = call[u]
        BY <1>1, <1>5, <3>1
      <3> QED
        BY <2>1, <3>1, <3>2, AssignedIs, AssignedNext
    <2>3. CASE \A u \in Thread : ~(call[u].pc = "write" /\ call[u].slot = c)
      <3>1. \A u \in Thread : ~(call'[u].pc = "write" /\ call'[u].slot = c)
        BY <1>4, <1>5, <2>1, <2>3
      <3> QED
        BY <1>1, <2>1, <2>3, <3>1, AssignedIs, AssignedNext
    <2> QED
      BY <2>2, <2>3
  <1>10. reserved' - 1 = reserved
    BY <1>1, <1>2
  <1>11. Assignments' = [c \in 0 .. reserved |-> Assigned(c)']
    BY <1>10 DEF Assignments
  <1>12. Assignments' = [c \in 0 .. reserved |-> IF c = reserved THEN s ELSE Assignments[c]]
    <2>1. ASSUME NEW c \in 0 .. reserved, c # reserved
          PROVE  c \in 0 .. reserved - 1
      BY <1>2, <2>1
    <2>2. ASSUME NEW c \in 0 .. reserved
          PROVE  Assigned(c)' = IF c = reserved THEN s ELSE Assignments[c]
      <3>1. CASE c = reserved
        BY <1>8, <3>1
      <3>2. CASE c # reserved
        BY <1>9, <2>1, <3>2 DEF Assignments
      <3> QED
        BY <3>1, <3>2
    <2> HIDE DEF Assignments
    <2> QED
      BY <1>11, <2>2
  <1>13. DOMAIN Assignments = 0 .. reserved - 1
    BY DEF Assignments
  <1> QED
    BY <1>1, <1>2, <1>7, <1>12, <1>13 DEF Table!Assign, Table!Has

(* Writing a slot does not change what it is assigned.                   *)
LEMMA TableWrite ==
    ASSUME Inv, Inv', NEW t \in Thread, Write(t) PROVE Assignments' = Assignments
  <1>1. /\ call[t].pc = "write" /\ reserved' = reserved
        /\ values' = [values EXCEPT ![call[t].slot] = call[t].string]
        /\ call' = [call EXCEPT ![t] = [call[t] EXCEPT !.pc = "publish"]]
    BY DEF Write, Inv, TypeOK
  <1>2. call[t] \in CallState /\ call[t].slot \in Slot
    BY DEF Inv, TypeOK, CallState
  <1>3. call'[t] = [call[t] EXCEPT !.pc = "publish"]
    BY <1>1 DEF Inv, TypeOK
  <1>4. call'[t].pc = "publish"
    BY <1>2, <1>3 DEF CallState
  <1>5. \A u \in Thread : u # t => call'[u] = call[u]
    BY <1>1 DEF Inv, TypeOK
  <1>6. SlotsDiffer /\ SlotsDiffer'
    BY DEF Inv
  <1>7. ASSUME NEW c \in 0 .. reserved - 1 PROVE Assigned(c)' = Assigned(c)
    <2>1. c \in Slot
      BY CapAssumption DEF Inv, TypeOK, Slot
    <2>2. CASE c = call[t].slot
      <3>1. Assigned(c) = call[t].string
        BY <1>1, <1>6, <2>2, AssignedIs
      <3>2. values'[c] = call[t].string
        BY <1>1, <1>2, <2>2 DEF Inv, TypeOK
      <3>3. ASSUME NEW u \in Thread, call'[u].pc = "write", call'[u].slot = c PROVE FALSE
        <4>1. u # t /\ call[u].pc = "write" /\ call[u].slot = c
          BY <1>4, <1>5, <3>3
        <4> QED
          BY <1>1, <1>6, <2>2, <4>1 DEF SlotsDiffer, Writing
      <3>4. Assigned(c)' = values'[c]
        BY <1>6, <3>3, AssignedNext
      <3> QED
        BY <3>1, <3>2, <3>4
    <2>3. CASE \E u \in Thread : u # t /\ call[u].pc = "write" /\ call[u].slot = c
      <3>1. PICK u \in Thread : u # t /\ call[u].pc = "write" /\ call[u].slot = c
        BY <2>3
      <3>2. call'[u] = call[u]
        BY <1>5, <3>1
      <3> QED
        BY <1>6, <3>1, <3>2, AssignedIs, AssignedNext
    <2>4. CASE /\ c # call[t].slot
               /\ \A u \in Thread : ~(u # t /\ call[u].pc = "write" /\ call[u].slot = c)
      <3>1. \A u \in Thread : /\ ~(call[u].pc = "write" /\ call[u].slot = c)
                              /\ ~(call'[u].pc = "write" /\ call'[u].slot = c)
        BY <1>4, <1>5, <2>4
      <3>2. values'[c] = values[c]
        BY <1>1, <2>1, <2>4 DEF Inv, TypeOK
      <3> QED
        BY <1>6, <3>1, <3>2, AssignedIs, AssignedNext
    <2> QED
      BY <2>2, <2>3, <2>4
  <1> QED
    BY <1>1, <1>7 DEF Assignments

(* Publishing a slot shows the next code.                                *)
LEMMA TablePublish ==
    ASSUME Inv, Inv', NEW t \in Thread, Publish(t) PROVE Table!Show
  <1>1. /\ call[t].pc = "publish" /\ published = call[t].slot /\ published' = published + 1
        /\ UNCHANGED <<values, reserved, answer>>
        /\ call' = [call EXCEPT ![t] = [call[t] EXCEPT !.pc = "insert"]]
    BY DEF Publish, InTurn, Inv, TypeOK
  <1>2. call'[t] = [call[t] EXCEPT !.pc = "insert"] /\ call[t] \in CallState
    BY <1>1 DEF Inv, TypeOK
  <1>3. call'[t].pc = "insert"
    BY <1>2 DEF CallState
  <1>4. \A u \in Thread : u # t => call'[u] = call[u]
    BY <1>1 DEF Inv, TypeOK
  <1>5. Assignments' = Assignments
    BY <1>1, <1>3, <1>4, AssignmentsKept
  <1>6. published \in 0 .. reserved - 1
    <2>1. call[t].slot < reserved /\ published \in Nat /\ reserved \in Nat
      BY <1>1, CapAssumption DEF Inv, SlotOK, Writing, TypeOK
    <2> QED
      BY <1>1, <2>1
  <1>7. published \in DOMAIN Assignments
    BY <1>6 DEF Assignments
  <1> QED
    BY <1>1, <1>5, <1>7 DEF Table!Show

(* A call that returns leaves the other threads' calls alone.            *)
LEMMA ReturnMoves ==
    ASSUME Inv, NEW t \in Thread, NEW c, Return(t, c)
    PROVE  call'[t].pc \in {"idle", "scan"} /\ \A u \in Thread : u # t => call'[u] = call[u]
  <1>1. call[t] \in CallState /\ call \in [Thread -> CallState]
    BY DEF Inv, TypeOK
  <1>2. CASE call[t].op = "remap"
    <2> DEFINE seen == [call[t] EXCEPT !.pc = "scan", !.remap[call[t].from] = c]
    <2>1. seen.pc = "scan"
      BY <1>1 DEF CallState
    <2>2. call' = [call EXCEPT ![t] = seen]
      BY <1>2 DEF Return
    <2> HIDE DEF seen
    <2> QED
      BY <1>1, <2>1, <2>2
  <1>3. CASE call[t].op # "remap"
    <2>1. call' = [call EXCEPT ![t] = Idle]
      BY <1>3 DEF Return
    <2> QED
      BY <1>1, <2>1, IdleIsCall
  <1> QED
    BY <1>2, <1>3

(* The same, of a thread that ends its call.                             *)
LEMMA IdleMoves ==
    ASSUME Inv, NEW t \in Thread, call' = [call EXCEPT ![t] = Idle]
    PROVE  call'[t].pc = "idle" /\ \A u \in Thread : u # t => call'[u] = call[u]
  BY IdleIsCall DEF Inv, TypeOK

(* Steps that the table does not see.                                      *)
LEMMA TableQuiet ==
    ASSUME Inv, Inv', NEW t \in Thread,
           \/ AddRemapCat(t) \/ Intern(t) \/ Enter(t) \/ Rebind(t)
           \/ \E s \in String : AddCat(t, s) \/ Lookup(t, s)
    PROVE  UNCHANGED <<Assignments, published, answer>>
  <1>1. UNCHANGED <<values, reserved, published, answer>>
    BY DEF AddRemapCat, Intern, Enter, Rebind, AddCat, Lookup, Begin, store
  <1>2. call[t] \in CallState /\ call \in [Thread -> CallState]
    BY DEF Inv, TypeOK
  <1>3. call[t].pc # "write"
    BY DEF AddRemapCat, Intern, Enter, Rebind, AddCat, Lookup, Begin
  <1>4. call'[t].pc # "write" /\ \A u \in Thread : u # t => call'[u] = call[u]
    <2>1. CASE AddRemapCat(t)
      <3> DEFINE seen == [Idle EXCEPT !.pc = "scan", !.op = "remap"]
      <3>1. seen.pc = "scan" /\ call' = [call EXCEPT ![t] = seen]
        BY <2>1, IdleIsCall DEF AddRemapCat, CallState
      <3> HIDE DEF seen
      <3> QED
        BY <1>2, <3>1
    <2>2. CASE Intern(t)
      <3>1. PICK k : call' = [call EXCEPT ![t] = [call[t] EXCEPT
                                !.pc = "search", !.from = k, !.string = cat[t].own[k]]]
        BY <2>2 DEF Intern
      <3> DEFINE seen == [call[t] EXCEPT !.pc = "search", !.from = k, !.string = cat[t].own[k]]
      <3>2. seen.pc = "search" /\ call' = [call EXCEPT ![t] = seen]
        BY <1>2, <3>1 DEF CallState
      <3> HIDE DEF seen
      <3> QED
        BY <1>2, <3>2
    <2>3. CASE Enter(t)
      <3> DEFINE seen == [call[t] EXCEPT !.pc = "reserve"]
      <3>1. seen.pc = "reserve" /\ call' = [call EXCEPT ![t] = seen]
        BY <1>2, <2>3 DEF Enter, CallState
      <3> HIDE DEF seen
      <3> QED
        BY <1>2, <3>1
    <2>4. CASE Rebind(t)
      BY <2>4, IdleMoves DEF Rebind
    <2>5. CASE \E s \in String : AddCat(t, s) \/ Lookup(t, s)
      <3>1. PICK s \in String, op \in {"add", "lookup"} : Begin(t, op, s)
        BY <2>5 DEF AddCat, Lookup
      <3> DEFINE seen == [Idle EXCEPT !.pc = "search", !.op = op, !.string = s]
      <3>2. seen.pc = "search" /\ call' = [call EXCEPT ![t] = seen]
        BY <3>1, IdleIsCall DEF Begin, CallState
      <3> HIDE DEF seen
      <3> QED
        BY <1>2, <3>2
    <2> QED
      BY <2>1, <2>2, <2>3, <2>4, <2>5
  <1> QED
    BY <1>1, <1>3, <1>4, AssignmentsKept

(* The four ways a call is answered are answers of the table.            *)
LEMMA TableAnswer ==
    ASSUME Inv, Inv', NEW t \in Thread,
           Found(t) \/ NotFound(t) \/ Reject(t) \/ Insert(t)
    PROVE  Table!Answer(t)
  <1> DEFINE s == call[t].string
  <1>1. s \in String /\ call[t] \in CallState /\ call \in [Thread -> CallState]
    BY DEF Inv, TypeOK, CallState
  <1>2. UNCHANGED <<values, reserved, published>>
    BY DEF Found, NotFound, Reject, Insert, store
  <1>3. /\ call[t].pc # "write" /\ call'[t].pc # "write"
        /\ \A u \in Thread : u # t => call'[u] = call[u]
    <2>1. CASE Found(t)
      BY <2>1, ReturnMoves DEF Found
    <2>2. CASE NotFound(t)
      BY <2>2, IdleMoves DEF NotFound
    <2>3. CASE Reject(t)
      BY <2>3, IdleMoves DEF Reject
    <2>4. CASE Insert(t)
      BY <2>4, ReturnMoves DEF Insert
    <2> QED
      BY <2>1, <2>2, <2>3, <2>4
  <1>4. Assignments' = Assignments
    BY <1>2, <1>3, AssignmentsKept
  <1>5. CASE \E c \in Slot : Return(t, c) /\ c < published /\ values[c] = s
    <2>1. PICK c \in Slot : Return(t, c) /\ c < published /\ values[c] = s
      BY <1>5
    <2>2. c \in 0 .. published - 1
      BY <2>1 DEF Inv, TypeOK, Slot
    <2>3. c \in DOMAIN Assignments /\ Assignments[c] = s
      BY <2>1, <2>2, AssignedPublished
    <2>4. answer' = [answer EXCEPT ![t] = {Table!Code(s, c)}]
      BY <2>1 DEF Return, Code, Table!Code
    <2> QED
      BY <1>1, <1>2, <1>4, <2>1, <2>3, <2>4 DEF Table!Answer
  <1>6. CASE Found(t)
    <2>1. /\ index[s] \in Slot /\ index[s] < published /\ values[index[s]] = s
          /\ Return(t, index[s])
      BY <1>1, <1>6 DEF Found, Inv, TypeOK, IndexOK
    <2> QED
      BY <1>5, <2>1
  <1>7. CASE Insert(t)
    <2>1. /\ call[t].slot \in Slot /\ call[t].slot < published /\ values[call[t].slot] = s
          /\ Return(t, call[t].slot)
      BY <1>1, <1>7 DEF Insert, Inv, SlotOK, CallState
    <2> QED
      BY <1>5, <2>1
  <1>8. CASE NotFound(t)
    <2>1. ~Table!Has(s)
      BY <1>8, Unassigned DEF NotFound, CanLock
    <2>2. answer' = [answer EXCEPT ![t] = {Table!Absent(s)}]
      BY <1>8 DEF NotFound, Absent, Table!Absent
    <2> QED
      BY <1>1, <1>2, <1>4, <2>1, <2>2 DEF Table!Answer
  <1>9. CASE Reject(t)
    <2>1. ~Table!Has(s)
      <3>1. index[s] = NoCode /\ call[t].pc = "reserve"
        BY <1>9 DEF Reject, Inv, LockOK, Locked
      <3> QED
        BY <3>1, Unassigned
    <2>2. reserved = Cap
      BY <1>9, CapAssumption DEF Reject, HasRoom, Inv, TypeOK
    <2>3. DOMAIN Assignments = 0 .. Cap - 1
      BY <2>2 DEF Assignments
    <2>4. answer' = [answer EXCEPT ![t] = {Table!Overflow(s)}]
      BY <1>9 DEF Reject, Overflow, Table!Overflow
    <2> QED
      BY <1>1, <1>2, <1>4, <2>1, <2>3, <2>4 DEF Table!Answer
  <1> QED
    BY <1>6, <1>7, <1>8, <1>9

(* The dictionary starts as the empty table.                             *)
LEMMA TableInit == Init => Table!Init
  BY DEF Init, Table!Init, Assignments

(* Every step is a step of the table or changes nothing of it.           *)
LEMMA TableStep ==
    Inv /\ Inv' /\ [Next]_vars => [Table!Next]_<<Assignments, published, answer>>
  <1> SUFFICES ASSUME Inv, Inv', [Next]_vars
               PROVE  Table!Next \/ UNCHANGED <<Assignments, published, answer>>
    OBVIOUS
  <1>1. ASSUME NEW t \in Thread, InCall(t)
        PROVE  Table!Next \/ UNCHANGED <<Assignments, published, answer>>
    <2>1. CASE Reserve(t)
      BY <2>1, TableReserve DEF Table!Next
    <2>2. CASE Write(t)
      BY <2>2, TableWrite DEF Write
    <2>3. CASE Publish(t)
      BY <2>3, TablePublish DEF Table!Next
    <2>4. CASE Found(t) \/ NotFound(t) \/ Reject(t) \/ Insert(t)
      BY <2>4, TableAnswer DEF Table!Next
    <2>5. CASE Enter(t) \/ Intern(t) \/ Rebind(t)
      BY <2>5, TableQuiet
    <2> QED
      BY <1>1, <2>1, <2>2, <2>3, <2>4, <2>5 DEF InCall
  <1>2. ASSUME NEW t \in Thread,
               AddRemapCat(t) \/ \E s \in String : AddCat(t, s) \/ Lookup(t, s)
        PROVE  UNCHANGED <<Assignments, published, answer>>
    BY <1>2, TableQuiet
  <1>3. CASE UNCHANGED vars
    BY <1>3 DEF vars, Assignments, Assigned, WriterOf
  <1> QED
    BY <1>1, <1>2, <1>3 DEF Next

(* Whatever the threads interleave, the dictionary is the abstract table:  *)
(* one code per string, for ever, in the order of the codes; every answer  *)
(* is true when it is given, and Overflow is only said of a full table.    *)
THEOREM Refinement == Spec => ImplementsTable
  <1>1. Spec => Table!Init /\ [][Table!Next]_<<Assignments, published, answer>>
    BY TableInit, TableStep, Invariance, PTL DEF Spec
  <1> QED
    BY <1>1 DEF ImplementsTable, Table!Spec
=============================================================================
