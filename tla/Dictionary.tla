----------------------------- MODULE Dictionary -----------------------------
(***************************************************************************)
(* Dictionary (src/src/structs/dictionary.rs): the string table that       *)
(* categorical arrays share.  Threads intern strings through &self; each   *)
(* string belongs to one shard of the reverse index, whose mutex makes the *)
(* look-up, the append and the insertion of a novel string one step to the *)
(* other users of the shard.  The values array is common to all shards:    *)
(* slots are reserved by compare-and-swap under a fixed capacity, written, *)
(* and published in the order of their codes, while the shard stays        *)
(* locked.  A thread may also absorb a categorical chunk, its own, whose   *)
(* rows are codes of another dictionary.                                   *)
(***************************************************************************)
EXTENDS Integers

CONSTANTS
    String,   \* the strings a caller may intern
    Empty,    \* what a slot of the values array holds before it is written
    Cap,      \* capacity of the values array
    Codes,    \* codes the integer type T has
    Shard,    \* shards of the reverse index
    ShardOf,  \* the shard a string hashes to
    Thread,   \* threads with a handle on the dictionary
    Free,     \* not a thread: the owner of an unlocked mutex
    Row,      \* rows of a chunk
    Chunks    \* the chunks a thread may come with, of other dictionaries

NoCode  == -1
Slot    == 0 .. Cap - 1
CodeOfT == 0 .. Codes - 1

(* A chunk: the values of its own dictionary, the code in each row, the    *)
(* rows that are null, and whether it is bound to this dictionary by now.  *)
(* The code under a null may be any.                                       *)
Chunk == {chunk \in [own : [CodeOfT -> String \cup {Empty}], data : [Row -> CodeOfT],
                     null : SUBSET Row, shares : {FALSE}] :
             \A i \in Row \ chunk.null : chunk.own[chunk.data[i]] # Empty}

ASSUME CapAssumption   == Cap \in Nat \ {0} /\ Codes \in Nat /\ Cap <= Codes
ASSUME NameAssumption  == Empty \notin String /\ String # {} /\ Free \notin Thread
ASSUME ShardAssumption == ShardOf \in [String -> Shard]
ASSUME ChunkAssumption == Chunks \subseteq Chunk

VARIABLES
    values,     \* the slots of AppendOnlyVec<String>
    reserved,   \* slots handed out to writers
    published,  \* slots readers may read: count()
    index,      \* the reverse index, all shards together
    lock,       \* the holder of each shard's mutex
    call,       \* what each thread is doing
    answer,     \* what its last add_cat or lookup returned, {} before
    cat         \* the categorical chunk of each thread

store == <<values, reserved, published>>
vars  == <<values, reserved, published, index, lock, call, answer, cat>>

(* search, reserve, write, publish, insert: inside add_cat, the last four  *)
(* with the shard locked.  scan: between two of the add_cats in the loop   *)
(* of add_remap_cat.  from: the incoming code that is being interned.      *)
Pc     == {"idle", "scan", "search", "reserve", "write", "publish", "insert"}
Locked == {"reserve", "write", "publish", "insert"}

Idle == [pc |-> "idle", op |-> "add", string |-> CHOOSE s \in String : TRUE, slot |-> 0,
         from |-> 0, remap |-> [k \in CodeOfT |-> NoCode]]

CallState == [pc : Pc, op : {"add", "lookup", "remap"}, string : String, slot : Slot,
              from : CodeOfT, remap : [CodeOfT -> Slot \cup {NoCode}]]
CatState  == [own : [CodeOfT -> String \cup {Empty}], data : [Row -> CodeOfT],
              null : SUBSET Row, shares : BOOLEAN]

TypeOK ==
    /\ values \in [Slot -> String \cup {Empty}]
    /\ reserved \in 0 .. Cap
    /\ published \in 0 .. Cap
    /\ index \in [String -> Slot \cup {NoCode}]
    /\ lock \in [Shard -> Thread \cup {Free}]
    /\ call \in [Thread -> CallState]
    /\ cat \in [Thread -> CatState]

Init ==
    /\ values = [c \in Slot |-> Empty]
    /\ reserved = 0
    /\ published = 0
    /\ index = [s \in String |-> NoCode]
    /\ lock = [h \in Shard |-> Free]
    /\ call = [t \in Thread |-> Idle]
    /\ answer = [t \in Thread |-> {}]
    /\ cat \in [Thread -> Chunks]

-----------------------------------------------------------------------------
(* add_cat and lookup                                                      *)

(* What they return: a code, None, Err(Overflow).                          *)
Code(s, c)  == [kind |-> "code", string |-> s, code |-> c]
Absent(s)   == [kind |-> "absent", string |-> s, code |-> 0]
Overflow(s) == [kind |-> "overflow", string |-> s, code |-> 0]

Begin(t, op, s) ==
    /\ call[t].pc = "idle"
    /\ call' = [call EXCEPT ![t] = [Idle EXCEPT !.pc = "search", !.op = op, !.string = s]]
    /\ UNCHANGED <<store, index, lock, answer, cat>>

AddCat(t, s) == Begin(t, "add", s)
Lookup(t, s) == Begin(t, "lookup", s)

(* add_cat gives c: to the caller, or to the loop of add_remap_cat.        *)
Return(t, c) ==
    /\ answer' = [answer EXCEPT ![t] = {Code(call[t].string, c)}]
    /\ call' = [call EXCEPT ![t] =
          IF call[t].op = "remap" THEN [call[t] EXCEPT !.pc = "scan", !.remap[call[t].from] = c]
          ELSE Idle]

\* Mutant: the shard's mutex is not taken.
NeverHeld(s) == TRUE

CanLock(s) == lock[ShardOf[s]] = Free

(* The probe of the shard's map, under its mutex.  A thread that leaves    *)
(* the shard at once is not seen to hold it.                               *)
Found(t) ==
    /\ call[t].pc = "search"
    /\ CanLock(call[t].string)
    /\ index[call[t].string] # NoCode
    /\ Return(t, index[call[t].string])
    /\ UNCHANGED <<store, index, lock, cat>>

NotFound(t) ==
    /\ call[t].pc = "search" /\ call[t].op = "lookup"
    /\ CanLock(call[t].string)
    /\ index[call[t].string] = NoCode
    /\ answer' = [answer EXCEPT ![t] = {Absent(call[t].string)}]
    /\ call' = [call EXCEPT ![t] = Idle]
    /\ UNCHANGED <<store, index, lock, cat>>

Enter(t) ==
    /\ call[t].pc = "search" /\ call[t].op # "lookup"
    /\ CanLock(call[t].string)
    /\ index[call[t].string] = NoCode
    /\ lock' = [lock EXCEPT ![ShardOf[call[t].string]] = t]
    /\ call' = [call EXCEPT ![t].pc = "reserve"]
    /\ UNCHANGED <<store, index, answer, cat>>

\* Mutants: a writer that overtakes the capacity; one that keeps the mutex.
RoomForOneMore == reserved <= Cap
StillLocked(t) == lock

HasRoom   == reserved < Cap
Unlock(t) == [lock EXCEPT ![ShardOf[call[t].string]] = Free]

(* AppendOnlyVec::push: the compare-and-swap that enforces the capacity.   *)
Reserve(t) ==
    /\ call[t].pc = "reserve"
    /\ HasRoom
    /\ reserved' = reserved + 1
    /\ call' = [call EXCEPT ![t].pc = "write", ![t].slot = reserved]
    /\ UNCHANGED <<values, published, index, lock, answer, cat>>

(* Err(Overflow): add_remap_cat gives up too, and the chunk is as it was.  *)
Reject(t) ==
    /\ call[t].pc = "reserve"
    /\ ~HasRoom
    /\ lock' = Unlock(t)
    /\ answer' = [answer EXCEPT ![t] = {Overflow(call[t].string)}]
    /\ call' = [call EXCEPT ![t] = Idle]
    /\ UNCHANGED <<store, index, cat>>

(* AppendOnlyVec::push: the slot is written, and published in its turn.    *)
Write(t) ==
    /\ call[t].pc = "write"
    /\ values' = [values EXCEPT ![call[t].slot] = call[t].string]
    /\ call' = [call EXCEPT ![t].pc = "publish"]
    /\ UNCHANGED <<reserved, published, index, lock, answer, cat>>

\* Mutant: a slot is published as soon as it is written.
AnyTurn(t) == published < reserved

InTurn(t) == published = call[t].slot

Publish(t) ==
    /\ call[t].pc = "publish"
    /\ InTurn(t)
    /\ published' = published + 1
    /\ call' = [call EXCEPT ![t].pc = "insert"]
    /\ UNCHANGED <<values, reserved, index, lock, answer, cat>>

Insert(t) ==
    /\ call[t].pc = "insert"
    /\ index' = [index EXCEPT ![call[t].string] = call[t].slot]
    /\ lock' = Unlock(t)
    /\ Return(t, call[t].slot)
    /\ UNCHANGED <<store, cat>>

-----------------------------------------------------------------------------
(* add_remap_cat                                                           *)

(* A chunk that shares the dictionary already is left alone.               *)
AddRemapCat(t) ==
    /\ call[t].pc = "idle"
    /\ ~cat[t].shares
    /\ call' = [call EXCEPT ![t] = [Idle EXCEPT !.pc = "scan", !.op = "remap"]]
    /\ UNCHANGED <<store, index, lock, answer, cat>>

(* The codes behind non-null rows that have no new code yet.  The loop     *)
(* takes them in the order of the rows, which are in no order here.        *)
Pending(t) == {k \in {cat[t].data[i] : i \in Row \ cat[t].null} : call[t].remap[k] = NoCode}

Intern(t) ==
    /\ call[t].pc = "scan"
    /\ \E k \in Pending(t) :
          call' = [call EXCEPT ![t] = [call[t] EXCEPT
                      !.pc = "search", !.from = k, !.string = cat[t].own[k]]]
    /\ UNCHANGED <<store, index, lock, answer, cat>>

\* Mutant: the chunk is rebound with the codes it came with.
OldCodes(t) == cat[t].data

(* The rewritten data buffer.                                              *)
Remapped(t) ==
    [i \in Row |-> IF i \in cat[t].null THEN cat[t].data[i]
                   ELSE call[t].remap[cat[t].data[i]]]

Rebind(t) ==
    /\ call[t].pc = "scan"
    /\ Pending(t) = {}
    /\ cat' = [cat EXCEPT ![t].data = Remapped(t), ![t].shares = TRUE]
    /\ call' = [call EXCEPT ![t] = Idle]
    /\ UNCHANGED <<store, index, lock, answer>>

-----------------------------------------------------------------------------
InCall(t) ==
    \/ Found(t) \/ NotFound(t) \/ Enter(t)
    \/ Reserve(t) \/ Reject(t) \/ Write(t) \/ Publish(t) \/ Insert(t)
    \/ Intern(t) \/ Rebind(t)

Next ==
    \E t \in Thread :
        \/ \E s \in String : AddCat(t, s) \/ Lookup(t, s)
        \/ AddRemapCat(t)
        \/ InCall(t)

Spec == Init /\ [][Next]_vars

(* A thread in a call goes on with it when it can.                         *)
FairSpec == Spec /\ \A t \in Thread : WF_vars(InCall(t))

-----------------------------------------------------------------------------
(* Properties                                                              *)

(* The table as assigned: a slot's string is its writer's until written.   *)
WriterOf(c) == CHOOSE t \in Thread : call[t].pc = "write" /\ call[t].slot = c
Assigned(c) == IF \E t \in Thread : call[t].pc = "write" /\ call[t].slot = c
               THEN call[WriterOf(c)].string ELSE values[c]

Assignments == [c \in 0 .. reserved - 1 |-> Assigned(c)]

Table == INSTANCE InternTable WITH
             table <- Assignments, visible <- published, Client <- Thread

(* Whatever the threads interleave, the dictionary assigns each string one *)
(* code, once, for ever; a returned code can be decoded when it is         *)
(* returned; None and Overflow are only returned for a string that has no  *)
(* code, Overflow only by a full table.                                    *)
ImplementsTable == Table!Spec

(* A published slot was written: values() lends out no other memory.       *)
PublishedIsWritten == \A c \in 0 .. published - 1 : values[c] \in String

(* No string has two codes: the probe and the append cannot be separated   *)
(* by another thread's, though shards append to one array.                 *)
NoDuplicates ==
    \A c, d \in 0 .. published - 1 : values[c] = values[d] => c = d

(* The reverse index is the inverse of the values, except for a string     *)
(* whose shard is locked by the thread that is about to insert it.         *)
IndexIsInverse ==
    /\ \A s \in String : index[s] # NoCode => /\ index[s] < published
                                              /\ values[index[s]] = s
    /\ \A c \in 0 .. published - 1 :
          index[values[c]] = c \/ \E t \in Thread : call[t].pc = "insert" /\ call[t].slot = c

(* The values and the reverse index agree, at every step of every thread.  *)
TableIsConsistent == PublishedIsWritten /\ NoDuplicates /\ IndexIsInverse

(* What a row of a categorical chunk decodes to.                           *)
Decoded(t, i) == IF cat[t].shares THEN values[cat[t].data[i]] ELSE cat[t].own[cat[t].data[i]]

(* No chunk's rows ever decode to anything else: not when it is absorbed   *)
(* into the group, not when the dictionary overflows on the way, not when  *)
(* other threads add to the dictionary it is bound to.                     *)
RowsKeepTheirStrings ==
    [][\A t \in Thread : \A i \in Row \ cat[t].null : Decoded(t, i)' = Decoded(t, i)]_vars

(* A bound chunk only holds codes that readers can decode.                 *)
BoundRowsDecode ==
    \A t \in Thread : cat[t].shares =>
        \A i \in Row \ cat[t].null : cat[t].data[i] \in 0 .. published - 1

(* A locked shard is unlocked again, though its holder waits for the slots *)
(* before its own to be published by holders of other shards.              *)
ShardsAreUnlocked == \A h \in Shard : lock[h] # Free ~> lock[h] = Free
=============================================================================
