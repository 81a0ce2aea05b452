--------------------------- MODULE AbstractFreeList ---------------------------
(***************************************************************************)
(* What gem5's FreeList<T> promises, as its tests state it: a set of free  *)
(* items.  insert(base, size) frees [base, base + size) and panics ("free  *)
(* list: double free!") if any of it is free already; allocate(size)      *)
(* takes size contiguous free items and returns the first, and fails only  *)
(* when no size contiguous items are free.                                 *)
(***************************************************************************)
EXTENDS Integers, FiniteSets

CONSTANTS
  Addr,    \* the items the list may hold
  NoAddr   \* std::nullopt

VARIABLES
  free,      \* the free items
  panicked,  \* insert panicked on a double free
  ret        \* the value the last allocate returned

vars == <<free, panicked, ret>>

Block(b, s) == b..(b + s - 1)

Init ==
  /\ free = {}
  /\ panicked = FALSE
  /\ ret = NoAddr

Insert(b, s) ==
  /\ ~panicked
  /\ IF Block(b, s) \cap free = {}
     THEN free' = free \cup Block(b, s) /\ UNCHANGED panicked
     ELSE panicked' = TRUE /\ UNCHANGED free
  /\ UNCHANGED ret

Fits(a, s) == Block(a, s) \subseteq free

Allocate(s) ==
  /\ ~panicked
  /\ IF \E a \in Addr : Fits(a, s)
     THEN \E a \in Addr : Fits(a, s) /\ free' = free \ Block(a, s) /\ ret' = a
     ELSE ret' = NoAddr /\ UNCHANGED free
  /\ UNCHANGED panicked

Next ==
  \/ \E b \in Addr, s \in 1..Cardinality(Addr) : Insert(b, s)
  \/ \E s \in 1..Cardinality(Addr) : Allocate(s)

Spec == Init /\ [][Next]_vars
=============================================================================
