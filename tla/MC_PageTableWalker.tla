------------------------- MODULE MC_PageTableWalker -------------------------
(* Three requests, two of them to the same page so that a queued request  *)
(* can hit in the TLB after the first walk fills it.                      *)
EXTENDS PageTableWalker

CONSTANTS r1, r2, r3, pA, pB

MCReqs == {r1, r2, r3}
MCPage == (r1 :> pA) @@ (r2 :> pA) @@ (r3 :> pB)
=============================================================================
