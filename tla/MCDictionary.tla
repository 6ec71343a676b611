---------------------------- MODULE MCDictionary ----------------------------
(* Instances of Dictionary for model checking.                             *)
EXTENDS Dictionary

CONSTANTS a, b, c, left, right

(* a and b share a shard; c has one of its own.                            *)
TwoShards == [s \in {a, b, c} |-> IF s = c THEN right ELSE left]

Own(s0, s1, s2) == [k \in 0 .. Codes - 1 |->
    CASE k = 0 -> s0 [] k = 1 -> s1 [] k = 2 -> s2 [] OTHER -> Empty]
Data(k1, k2) == [i \in Row |-> IF i = 1 THEN k1 ELSE k2]

(* A chunk whose two rows keep or swap their codes, depending on who is    *)
(* first, and one with a null whose code is outside the shared dictionary. *)
TwoChunks == {[own |-> Own(b, a, c), data |-> Data(0, 1), null |-> {}, shares |-> FALSE],
              [own |-> Own(c, a, Empty), data |-> Data(1, 2), null |-> {2}, shares |-> FALSE]}
=============================================================================
