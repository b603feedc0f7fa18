--------------------------- MODULE ControlTransfer ---------------------------
(***************************************************************************)
(* What a USB device owes its host on the control endpoint: a request that *)
(* the device supports is carried out, once, and then answered with its    *)
(* own data, cut to the length the host asked for; any other request is    *)
(* refused.  UsbControl implements this module as long as the host leaves  *)
(* the device the time it needs.                                           *)
(***************************************************************************)
EXTENDS Naturals

CONSTANT Requests  \* what the host may ask for: records with, among others,
                   \* supported, len (what the host wants) and answer (what there is)

VARIABLES stage,   \* "idle" or "pending"
          request,
          times,   \* how often the request was carried out
          result   \* what became of the last request

vars == <<stage, request, times, result>>

DataLength(r) == IF r.answer < r.len THEN r.answer ELSE r.len

None     == [kind |-> "none", length |-> 0]
Refused  == [kind |-> "refused", length |-> 0]
Answered(n) == [kind |-> "answered", length |-> n]

Init == stage = "idle" /\ request \in Requests /\ times = 0 /\ result = None

Ask == /\ stage = "idle" /\ stage' = "pending"
       /\ request' \in Requests
       /\ times' = 0 /\ result' = None

CarryOut == /\ stage = "pending" /\ times = 0 /\ times' = 1
            /\ UNCHANGED <<stage, request, result>>

Reply == /\ stage = "pending" /\ stage' = "idle"
         /\ times = 1 /\ request.supported
         /\ result' = Answered(DataLength(request))
         /\ UNCHANGED <<request, times>>

Refuse == /\ stage = "pending" /\ stage' = "idle"
          /\ ~request.supported
          /\ result' = Refused
          /\ UNCHANGED <<request, times>>

Next == Ask \/ CarryOut \/ Reply \/ Refuse

Spec == Init /\ [][Next]_vars

\* No request stays without an answer.
FairSpec == Spec /\ WF_vars(CarryOut \/ Reply \/ Refuse)
=============================================================================
