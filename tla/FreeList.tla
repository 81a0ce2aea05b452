------------------------------- MODULE FreeList -------------------------------
(***************************************************************************)
(* gem5's FreeList<T> (base/free_list.hh, here in uop_tracer.cc): free     *)
(* items kept as a std::list of ranges sorted by base, with the count of   *)
(* free items in _size.  insert() finds its place with lower_bound,       *)
(* panics on an overlap with the neighbour on either side, and merges     *)
(* with the neighbours it touches; allocate() takes the front of the      *)
(* best-fit range.  The module is shown to implement AbstractFreeList.    *)
(***************************************************************************)
EXTENDS Integers, Sequences, SequencesExt, FiniteSets

CONSTANTS
  Addr,    \* the items that may be freed, 0..N-1
  Sizes,   \* the sizes passed to insert and allocate
  NoAddr   \* std::nullopt

VARIABLES
  ranges,    \* _ranges: [base, size] records
  freeSize,  \* _size
  panicked,  \* insert's panic_if fired: the simulation has ended
  ret        \* the value the last allocate returned

vars == <<ranges, freeSize, panicked, ret>>

\* FreeList() = default: no ranges, _size = 0.
Init ==
  /\ ranges = <<>>
  /\ freeSize = 0
  /\ panicked = FALSE
  /\ ret = NoAddr

\* Range::precedes and Range::overlaps.
End(r) == r.base + r.size
Precedes(r, x) == End(r) <= x
Overlaps(r, o) == ~Precedes(r, o.base) /\ ~Precedes(o, r.base)

\* std::lower_bound with range.base < base: the first range whose base is
\* not below b, or Len + 1 for end().
LowerBound(b) ==
  LET i == SelectInSeq(ranges, LAMBDA r : ~(r.base < b))
  IN  IF i = 0 THEN Len(ranges) + 1 ELSE i

\* The two panic_if checks: it != end() and std::prev(it).
DoubleFree(i, new) ==
  \/ i <= Len(ranges) /\ Overlaps(ranges[i], new)
  \/ i > 1 /\ Overlaps(ranges[i - 1], new)

\* Fault variant: the left neighbour is never merged.
InsertNoMergeLeft(b, s) ==
  /\ ~panicked
  /\ freeSize' = freeSize + s
  /\ LET i     == LowerBound(b)
         new   == [base |-> b, size |-> s]
         right == SubSeq(ranges, i, Len(ranges))
         nr    == IF right # <<>> /\ End(new) = right[1].base
                  THEN [new EXCEPT !.size = @ + right[1].size] ELSE new
     IN  IF DoubleFree(i, new)
         THEN panicked' = TRUE /\ UNCHANGED ranges
         ELSE /\ ranges' = SubSeq(ranges, 1, i - 1) \o <<nr>>
                           \o (IF nr # new THEN Tail(right) ELSE right)
              /\ UNCHANGED panicked
  /\ UNCHANGED ret

\* insert(base, size): _size is bumped first; then the double-free
\* panics; then merge left (erase prev), merge right (erase it), and
\* emplace before it.
Insert(b, s) ==
  /\ ~panicked
  /\ freeSize' = freeSize + s
  /\ LET i      == LowerBound(b)
         new    == [base |-> b, size |-> s]
         left   == SubSeq(ranges, 1, i - 1)
         right  == SubSeq(ranges, i, Len(ranges))
         mergeL == left # <<>> /\ End(Last(left)) = b
         nl     == IF mergeL
                   THEN [base |-> Last(left).base, size |-> Last(left).size + s]
                   ELSE new
         mergeR == right # <<>> /\ End(nl) = right[1].base
         nr     == IF mergeR THEN [nl EXCEPT !.size = @ + right[1].size] ELSE nl
     IN  IF DoubleFree(i, new)
         THEN panicked' = TRUE /\ UNCHANGED ranges
         ELSE /\ ranges' = (IF mergeL THEN Front(left) ELSE left) \o <<nr>>
                           \o (IF mergeR THEN Tail(right) ELSE right)
              /\ UNCHANGED panicked
  /\ UNCHANGED ret

\* The best-fit loop: the smallest range of at least s items; on a tie
\* the test it->size <= best_size lets the last one win.  0 for end().
BestFit(s) ==
  LET fits == {i \in 1..Len(ranges) : s <= ranges[i].size}
  IN  IF fits = {} THEN 0
      ELSE SelectLastInSeq(ranges, LAMBDA r :
             r.size = Min({ranges[i].size : i \in fits}))

\* Fault variant: an emptied range is left in the list.
AllocateNoErase(s) ==
  /\ ~panicked
  /\ LET best == BestFit(s)
     IN  IF best = 0
         THEN ret' = NoAddr /\ UNCHANGED <<ranges, freeSize>>
         ELSE /\ ranges' = [ranges EXCEPT ![best].base = @ + s,
                                          ![best].size = @ - s]
              /\ freeSize' = freeSize - s
              /\ ret' = ranges[best].base
  /\ UNCHANGED panicked

\* Fault variant: _size is reduced by the size of the range chosen.
AllocateBestSize(s) ==
  /\ ~panicked
  /\ LET best == BestFit(s)
     IN  IF best = 0
         THEN ret' = NoAddr /\ UNCHANGED <<ranges, freeSize>>
         ELSE /\ ranges' = IF ranges[best].size = s THEN RemoveAt(ranges, best)
                           ELSE [ranges EXCEPT ![best].base = @ + s,
                                               ![best].size = @ - s]
              /\ freeSize' = freeSize - ranges[best].size
              /\ ret' = ranges[best].base
  /\ UNCHANGED panicked

\* allocate(size): nullopt if no range fits; else _size -= size and the
\* best range gives up its first size items, and is erased if emptied.
Allocate(s) ==
  /\ ~panicked
  /\ LET best == BestFit(s)
     IN  IF best = 0
         THEN ret' = NoAddr /\ UNCHANGED <<ranges, freeSize>>
         ELSE /\ ranges' = IF ranges[best].size = s THEN RemoveAt(ranges, best)
                           ELSE [ranges EXCEPT ![best].base = @ + s,
                                               ![best].size = @ - s]
              /\ freeSize' = freeSize - s
              /\ ret' = ranges[best].base
  /\ UNCHANGED panicked

\* The callers free only items of Addr.
Next ==
  \/ \E b \in Addr, s \in Sizes : b + s - 1 \in Addr /\ Insert(b, s)
  \/ \E s \in Sizes : Allocate(s)

Spec == Init /\ [][Next]_vars

-----------------------------------------------------------------------------
Items(r) == r.base..(End(r) - 1)

\* The free items the ranges stand for.
FreeItems == UNION {Items(ranges[i]) : i \in 1..Len(ranges)}

TypeOK ==
  /\ ranges \in Seq([base : Addr, size : Sizes \cup 1..Cardinality(Addr)])
  /\ freeSize \in Int
  /\ panicked \in BOOLEAN
  /\ ret \in Addr \cup {NoAddr}

\* size() counts the free items, as every test expects after its inserts
\* and allocations: _size, bumped and lowered apart from the list edits,
\* matches the items the ranges hold.
SizeIsFree == ~panicked => freeSize = Cardinality(FreeItems)

Abs == INSTANCE AbstractFreeList WITH free <- FreeItems

\* The list implements the free set: insert panics exactly on a double
\* free (an overlap with any free item, not only the neighbours it checks),
\* and allocate fails only when no size contiguous items are free, which
\* holds only if insert merged every pair of touching ranges.
ImplementsAbstract == Abs!Spec
=============================================================================
