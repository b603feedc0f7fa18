---------------------------- MODULE BufferStream ----------------------------
(***************************************************************************)
(* What a transfer engine of the io/ strategies promises to its caller:    *)
(* the caller hands over runs of consecutive memory locations, and the     *)
(* peripheral side visits exactly those locations, each once, in the order *)
(* in which they were handed over.  A caller may also drop everything that *)
(* was handed over but not visited yet.                                    *)
(*                                                                         *)
(* DMALink (DMAChannel::TryLinkBuffer and its interrupt handler) and       *)
(* USARTInterrupt (its two-slot buffers) both implement this module.       *)
(***************************************************************************)
EXTENDS Naturals, Sequences

CONSTANTS Starts,   \* the addresses at which a run handed over may start: naturals
          Limit     \* the longest run that one call hands over

VARIABLES accepted, \* addresses handed over, in order
          touched   \* addresses visited by the peripheral side, in order

vars == <<accepted, touched>>

\* The addresses of the n bytes that start at address a.
Bytes(a, n) == [i \in 1..n |-> a + (i - 1)]

Init == accepted = <<>> /\ touched = <<>>

\* The caller hands over a run.
Accept == /\ \E a \in Starts, n \in 1..Limit : accepted' = accepted \o Bytes(a, n)
          /\ UNCHANGED touched

\* The peripheral side visits the next location.
Touch == /\ Len(touched) < Len(accepted)
         /\ touched' = Append(touched, accepted[Len(touched) + 1])
         /\ UNCHANGED accepted

\* The caller takes back everything that was not visited.
Drop == /\ accepted' = touched
        /\ UNCHANGED touched

Next == Accept \/ Touch \/ Drop

Spec == Init /\ [][Next]_vars

\* The stream never stops while something handed over is not visited.
FairSpec == Spec /\ WF_vars(Touch)

TypeOK == accepted \in Seq(Nat) /\ touched \in Seq(Nat)

\* What has been visited is an initial part of what was handed over: nothing
\* is skipped, visited twice, reordered or visited without being handed over.
InOrder == /\ Len(touched) <= Len(accepted)
           /\ \A i \in 1..Len(touched) : touched[i] = accepted[i]
=============================================================================
