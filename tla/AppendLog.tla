----------------------------- MODULE AppendLog -----------------------------
(***************************************************************************)
(* What an LBuffer promises its readers (src/src/structs/lbuffer.rs): a    *)
(* log of rows that only ever grows at its end, by whole batches, up to a  *)
(* fixed capacity, and not at all once it is closed.                       *)
(***************************************************************************)
EXTENDS Integers

CONSTANTS
    Elem,     \* element values
    Capacity  \* rows the log can hold

VARIABLES
    rows,    \* the published rows, a function on 0..n-1
    closed   \* no further rows will be published

Row  == [val : Elem, valid : BOOLEAN]
Logs == UNION {[0 .. n - 1 -> Row] : n \in 0 .. Capacity}

Init == rows \in [0 .. -1 -> Row] /\ closed = FALSE

Append ==
    /\ ~closed
    /\ rows' \in Logs
    /\ \A i \in DOMAIN rows : i \in DOMAIN rows' /\ rows'[i] = rows[i]
    /\ UNCHANGED closed

Close == closed' = TRUE /\ UNCHANGED rows

Spec == Init /\ [][Append \/ Close]_<<rows, closed>>
=============================================================================
