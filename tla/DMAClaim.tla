------------------------------- MODULE DMAClaim -------------------------------
(* Allocation of the DMA channels: ClaimChannel takes the first free one of the
   channels that a peripheral can use, Release gives it back; the link of a
   channel (see DMALink) is found from the address of its registers.          *)
EXTENDS Naturals, Sequences

CONSTANTS Users,    \* users of a channel
          Specs     \* lists of <<DMA, channel>>, as a peripheral has them

VARIABLES ccr,      \* CCR, "zero" or what was written
          csel,     \* CSELR: the request line, named by the user it is for
          holds     \* the channel that each user holds, or None

claim == <<ccr, csel, holds>>

Channels == {1, 2} \X (1..7)
None == <<0, 0>>

Init == /\ ccr = [c \in Channels |-> "zero"]
        /\ csel = [c \in Channels |-> "reset"]
        /\ holds = [u \in Users |-> None]

\* Mutant: a claimed channel that was not programmed yet is taken again.
FreeUntilProgrammed(c) == ccr[c] \in {"zero", "mem2mem"}
Free(c) == ccr[c] = "zero"

\* ClaimChannel, of the first free channel; NULL if there is none.
ClaimChannel(u, specs) ==
    LET free == {k \in 1..Len(specs) : Free(specs[k]) /\ \A j \in 1..(k - 1) : ~Free(specs[j])} IN
    /\ holds[u] = None
    /\ \E k \in free :
         /\ csel' = [csel EXCEPT ![specs[k]] = u]
         /\ ccr' = [ccr EXCEPT ![specs[k]] = "mem2mem"]
         /\ holds' = [holds EXCEPT ![u] = specs[k]]

\* The user programs its channel; no use of it leaves CCR zero.
Program(u) ==
    /\ holds[u] # None
    /\ ccr' = [ccr EXCEPT ![holds[u]] = "programmed"]
    /\ UNCHANGED <<csel, holds>>

Release(u) ==
    /\ holds[u] # None
    /\ ccr' = [ccr EXCEPT ![holds[u]] = "zero"]
    /\ holds' = [holds EXCEPT ![u] = None]
    /\ UNCHANGED csel

\* GetLink: the bytes of the link of a channel, from the start of s_linkInfo.  The
\* registers of channel n start at 8 + 20 (n - 1) of their DMA; a link has 20 bytes,
\* the structure of a DMA 7 links.
LinkBytes(c) == LET first == 140 * (c[1] - 1) + 8 + 20 * (c[2] - 1) IN first..(first + 19)

Next == \E u \in Users : Program(u) \/ Release(u) \/ \E specs \in Specs : ClaimChannel(u, specs)

Spec == Init /\ [][Next]_claim

----------------------------------------------------------------------------
(* The variables have their types.                                            *)
TypeOK == /\ \A c \in Channels : ccr[c] \in {"zero", "mem2mem", "programmed"}
          /\ \A u \in Users : holds[u] \in Channels \cup {None}

(* A channel, its request line and its link belong to one user: no sequence of
   claims and releases gives two of them the same, or links that overlap.     *)
OneOwner == \A u, v \in Users : holds[u] # None /\ u # v =>
    /\ csel[holds[u]] = u
    /\ holds[v] # None => LinkBytes(holds[u]) \cap LinkBytes(holds[v]) = {}

(* Links are inside s_linkInfo (DMA.cpp:62): the last of them is not.         *)
LinksInside == \A u \in Users : holds[u] # None => LinkBytes(holds[u]) \subseteq 0..279
=============================================================================
