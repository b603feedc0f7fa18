------------------------------ MODULE MCDMALink ------------------------------
(* Small buffers for DMALink: b follows a, c is elsewhere, and c is longer    *)
(* than one transfer can be when MaxTransfer = 3.                             *)
EXTENDS DMALink

MCSpans == {[start |-> 1, len |-> 2], [start |-> 3, len |-> 2], [start |-> 7, len |-> 4]}
=============================================================================
