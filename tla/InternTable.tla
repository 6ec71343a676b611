---------------------------- MODULE InternTable ----------------------------
(***************************************************************************)
(* What a Dictionary promises its users (src/src/structs/dictionary.rs):   *)
(* a table that gives every string one code for ever, in the order of the  *)
(* codes, up to a fixed capacity.  Readers see a growing prefix of it, and *)
(* a caller is answered with a code it can decode at once.                 *)
(***************************************************************************)
EXTENDS Integers

CONSTANTS
    String,   \* the strings
    Cap,      \* the codes the table can assign
    Client    \* who asks

VARIABLES
    table,    \* the string of every code assigned, a function on 0..n-1
    visible,  \* how many codes a reader can decode
    answer    \* the last answer of each client, {} before its first

Has(s) == \E c \in DOMAIN table : table[c] = s

Init ==
    /\ table \in [0 .. -1 -> String]
    /\ visible = 0
    /\ answer = [c \in Client |-> {}]

(* A string that has no code gets the next one.                            *)
Assign ==
    /\ \E s \in String, n \in 0 .. Cap - 1 :
          /\ ~Has(s)
          /\ DOMAIN table = 0 .. n - 1
          /\ table' = [c \in 0 .. n |-> IF c = n THEN s ELSE table[c]]
    /\ UNCHANGED <<visible, answer>>

(* The next assigned code can be decoded from now on.                      *)
Show ==
    /\ visible \in DOMAIN table
    /\ visible' = visible + 1
    /\ UNCHANGED <<table, answer>>

(* The answers there are: a code, no code, no room.                        *)
Code(s, c)  == [kind |-> "code", string |-> s, code |-> c]
Absent(s)   == [kind |-> "absent", string |-> s, code |-> 0]
Overflow(s) == [kind |-> "overflow", string |-> s, code |-> 0]

Answer(client) ==
    /\ \E s \in String :
          \/ \E c \in DOMAIN table :
                /\ c < visible /\ table[c] = s
                /\ answer' = [answer EXCEPT ![client] = {Code(s, c)}]
          \/ /\ ~Has(s)
             /\ answer' = [answer EXCEPT ![client] = {Absent(s)}]
          \/ /\ ~Has(s) /\ DOMAIN table = 0 .. Cap - 1
             /\ answer' = [answer EXCEPT ![client] = {Overflow(s)}]
    /\ UNCHANGED <<table, visible>>

Next == Assign \/ Show \/ \E client \in Client : Answer(client)

Spec == Init /\ [][Next]_<<table, visible, answer>>
=============================================================================
