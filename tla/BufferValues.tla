---------------------------- MODULE BufferValues ----------------------------
(***************************************************************************)
(* What Buffer<T> promises (src/structs/buffer.rs:112-116): "semantically  *)
(* equivalent to Vec64<T>".  Every buffer is a sequence of its own; a call *)
(* on one changes no other, however they came to share memory.  The one    *)
(* exception is asked for: a view of a log shows what the log publishes.   *)
(***************************************************************************)
EXTENDS Integers, Sequences

CONSTANTS Handle, Val, Absent, Live

VARIABLES value,   \* the sequence each buffer holds, Live for a view of the log
          log      \* what the writer of the log has published

vars == <<value, log>>

Seen(h) == IF value[h] = Live THEN log ELSE value[h]
Without(s, i, j) == SubSeq(s, 1, i) \o SubSeq(s, j + 1, Len(s))

Init == value = [h \in Handle |-> Absent] /\ log = <<>>

Holds(h) == value[h] # Absent
Put(h, s) == value' = [value EXCEPT ![h] = s] /\ UNCHANGED log

Create(t) == /\ ~Holds(t) /\ value'[t] \notin {Absent, Live} /\ value'[t] \in Seq(Val)
             /\ Put(t, value'[t])
Copy(h, t) == Holds(h) /\ ~Holds(t) /\ (Put(t, value[h]) \/ Put(t, Seen(h)))
Window(s, t) == ~Holds(t) /\ \E i \in 0..Len(s) : \E n \in 0..Len(s) - i : Put(t, SubSeq(s, i + 1, i + n))
Store(h) == Holds(h) /\ \E i \in 1..Len(Seen(h)), v \in Val : Put(h, [Seen(h) EXCEPT ![i] = v])
Push(h) == Holds(h) /\ \E v \in Val : Put(h, Append(Seen(h), v))
Shorten(h) == Holds(h) /\ \E n \in 0..Len(Seen(h)) : Put(h, SubSeq(Seen(h), 1, n))
Delete(h) == Holds(h) /\ \E j \in 0..Len(Seen(h)) : \E i \in 0..j : Put(h, Without(Seen(h), i, j))
Split(h, t) ==
  /\ Holds(h) /\ value[h] # Live /\ ~Holds(t)
  /\ \E i \in 0..Len(value[h]) :
       value' = [value EXCEPT ![h] = SubSeq(value[h], 1, i), ![t] = SubSeq(value[h], i + 1, Len(value[h]))]
  /\ UNCHANGED log
Join(h, k, t) == Holds(h) /\ Holds(k) /\ ~Holds(t) /\ Live \notin {value[h], value[k]} /\ Put(t, value[h] \o value[k])
Freeze(h) == Holds(h) /\ Put(h, Seen(h))
Forget(h) == Holds(h) /\ Put(h, Absent)
View(t) == ~Holds(t) /\ Put(t, Live)
Publish == \E v \in Val : log' = Append(log, v) /\ UNCHANGED value

OnlyChanges(t) == \A u \in Handle \ {t} : value'[u] = value[u]

Next ==
  \/ Publish
  \/ \E t \in Handle :
       /\ UNCHANGED log /\ OnlyChanges(t)
       /\ \/ Create(t) \/ Forget(t) \/ Store(t) \/ Push(t) \/ Shorten(t) \/ Delete(t)
          \/ Freeze(t) \/ View(t) \/ Window(log, t)
          \/ \E h \in Handle : Copy(h, t) \/ (Holds(h) /\ Window(Seen(h), t))
          \/ \E h, k \in Handle : Join(h, k, t)
  \/ \E h, t \in Handle : Split(h, t)

Spec == Init /\ [][Next]_vars
=============================================================================
