------------------------- MODULE PublicationLedger -------------------------
(***************************************************************************)
(* What a price pipeline promises to the tables behind it: a row is        *)
(* written once, whatever was retried, and the checkpoint passes a block   *)
(* only when everything the block owes has been written.                   *)
(***************************************************************************)
EXTENDS Integers

CONSTANTS
    Rows,      \* rows whose second copy would be counted twice
    Owed(_)    \* the rows a block owes

VARIABLES
    copies,    \* how many times a row was written
    mark       \* blocks up to here are never computed again

Init ==
    /\ copies = [r \in Rows |-> 0]
    /\ mark \in Int

\* Any rows nobody has written, together.
Write ==
    /\ \A r \in Rows : copies'[r] = copies[r] \/ (copies[r] = 0 /\ copies'[r] = 1)
    /\ UNCHANGED mark

\* The mark moves up, over blocks that are settled.
Settle ==
    /\ mark' >= mark
    /\ \A b \in (mark + 1) .. mark' : \A r \in Rows \cap Owed(b) : copies[r] = 1
    /\ UNCHANGED copies

Spec == Init /\ [][Write \/ Settle]_<<copies, mark>>
=============================================================================
