------------------------- MODULE MCUSARTInterrupt -------------------------
(* Values for model checking.                                                *)
EXTENDS USARTInterrupt

\* A byte, the byte behind it, and an empty buffer elsewhere: two of them fill
\* both slots, and the third extends the second slot.
AdjacentSpans == {[start |-> 1, len |-> 1], [start |-> 2, len |-> 1], [start |-> 5, len |-> 0]}

\* Buffers of different lengths, none of which ends where another begins.
ApartSpans == {[start |-> 1, len |-> 2], [start |-> 4, len |-> 1]}
=============================================================================
