----------------------------- MODULE MC_FreeList -----------------------------
(* Six items and sizes up to three: enough for a range to touch two       *)
(* neighbours, for a double free that overlaps only the previous range,  *)
(* and for two ranges of equal size to tie in the best-fit loop.         *)
EXTENDS FreeList

MCAddr == 0..5
MCSizes == 1..3
=============================================================================
