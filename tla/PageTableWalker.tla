--------------------------- MODULE PageTableWalker ---------------------------
(***************************************************************************)
(* The RISC-V page-table walker in timing mode,                           *)
(* src/gem5-ml-sim/src/arch/riscv/pagetable_walker.cc.                     *)
(*                                                                         *)
(* The TLB calls Walker::start on a miss.  One WalkerState per request is  *)
(* queued in currStates; only an idle walker starts a walk at once, the    *)
(* rest wait for startWalkWrapperEvent, which first drops squashed         *)
(* requests and requests that now hit in the TLB.  A timing walk sends a   *)
(* PTE read to the port; each read response runs one stepWalk, which       *)
(* either reads the next level, or ends the walk (a leaf, possibly with    *)
(* an A/D write-back, or a fault).  A refused packet stays with its state, *)
(* which is marked retrying until the port's recvReqRetry.                 *)
(*                                                                         *)
(* A WalkerState is named by its request.  Addresses, PTE bits and the    *)
(* PMP/PMA checks are abstracted to the outcome stepWalk reaches; a        *)
(* request's vaddr to whether it passes the MSB check of walkOneStage, and *)
(* its VPN to a page.  Timing walks are one-stage only (walkOneStage       *)
(* panics on the H extension in timing mode).                              *)
(***************************************************************************)
EXTENDS Integers, Sequences, SequencesExt, FiniteSets

CONSTANTS
  Reqs,          \* translation requests, one WalkerState each
  NonCanonicalChoices, \* the sets of requests a run may start with whose
                       \* vaddr fails the MSB check (page fault)
  Page,          \* Page[r]: the VPN of r's vaddr
  Levels,        \* SV39_LEVELS
  NumSquashable, \* numSquashable: requests dropped per startWalkWrapper
  MaxRefusals    \* packets the port refuses, at most

VARIABLES
  currStates,       \* Walker::currStates, as a sequence of requests
  ws,               \* ws[r]: the fields of r's WalkerState
  alive,            \* WalkerStates allocated and not yet deleted
  net,              \* packets accepted by the port, not yet answered
  wrapperScheduled, \* startWalkWrapperEvent.scheduled()
  tlb,              \* pages with an entry in the TLB
  issued,           \* requests the TLB has passed to start()
  trSquashed,       \* requests whose translation->squashed() is true
  answers,          \* answers[r]: translation->finish calls, or start()
                    \* returning a fault, for r
  owesRetry,        \* the port refused a packet and owes recvReqRetry
  refusals,         \* packets refused so far
  nonCanonical      \* requests whose vaddr fails the MSB check

vars == <<currStates, ws, alive, net, wrapperScheduled, tlb, issued,
          trSquashed, answers, owesRetry, refusals, nonCanonical>>

Packet == [s : Reqs, cmd : {"read", "write"}]
Packets(s, cmds) == {[s |-> s, cmd |-> c] : c \in cmds}

\* The constructor and initState: state Ready, nothing started or held.
NewState == [started |-> FALSE, level |-> Levels - 1, read |-> FALSE,
             writes |-> 0, inflight |-> 0, retrying |-> FALSE,
             squashed |-> FALSE, fault |-> FALSE]

Init ==
  /\ currStates = <<>>
  /\ ws = [r \in Reqs |-> NewState]
  /\ alive = {}
  /\ net = {}
  /\ wrapperScheduled = FALSE
  /\ tlb = {}
  /\ issued = {}
  /\ trSquashed = {}
  /\ answers = [r \in Reqs |-> 0]
  /\ owesRetry = FALSE
  /\ refusals = 0
  /\ nonCanonical \in NonCanonicalChoices

\* How many packets the port accepts in one event before it refuses one.
\* Cap is what one state can hold (a read and a write); OneWalkAtATime
\* shows that only one state has packets at a time.
Cap == 2
Accepts == IF refusals < MaxRefusals THEN 0..Cap ELSE {Cap}

Refuse(refused) ==
  /\ owesRetry' = (owesRetry \/ refused)
  /\ refusals' = refusals + (IF refused THEN 1 ELSE 0)

\* Fault variant: a refused packet still counted in flight.
SendPacketsNoUndo(x, acc) ==
  LET order == (IF x.read THEN <<"read">> ELSE <<>>)
               \o (IF x.writes > 0 THEN <<"write">> ELSE <<>>)
      k == IF x.retrying THEN 0 ELSE IF acc < Len(order) THEN acc ELSE Len(order)
      sent == {order[i] : i \in 1..k}
      refused == ~x.retrying /\ k < Len(order)
  IN  [st |-> [x EXCEPT !.read = @ /\ "read" \notin sent,
                        !.writes = @ - (IF "write" \in sent THEN 1 ELSE 0),
                        !.inflight = @ + k + (IF refused THEN 1 ELSE 0),
                        !.retrying = @ \/ refused],
       sent |-> sent, refused |-> refused]

\* sendPackets: nothing while retrying; the read first, then the writes,
\* each through sendTiming; a refused packet is kept, inflight undone and
\* retrying set.  acc packets are accepted before the port refuses.
SendPackets(x, acc) ==
  LET order == (IF x.read THEN <<"read">> ELSE <<>>)
               \o (IF x.writes > 0 THEN <<"write">> ELSE <<>>)
      k == IF x.retrying THEN 0 ELSE IF acc < Len(order) THEN acc ELSE Len(order)
      sent == {order[i] : i \in 1..k}
      refused == ~x.retrying /\ k < Len(order)
  IN  [st |-> [x EXCEPT !.read = @ /\ "read" \notin sent,
                        !.writes = @ - (IF "write" \in sent THEN 1 ELSE 0),
                        !.inflight = @ + k,
                        !.retrying = @ \/ refused],
       sent |-> sent, refused |-> refused]

\* walk() and the timing branch of walkOneStage for a request that passes
\* the MSB check: started, setupWalk at the top level, the first read
\* created, timingFault = NoFault, then sendPackets.
Walked(x) == [x EXCEPT !.started = TRUE, !.level = Levels - 1, !.read = TRUE,
                       !.fault = FALSE]

\* What stepWalk finds in a PTE: a pointer to the next level, a leaf, a
\* leaf whose A/D bits must be written back, a fault (invalid or
\* misaligned PTE, permission or PMP/PMA read fault), or a leaf needing
\* A/D whose PMP/PMA write check fails.
StepOutcomes == {"table", "leaf", "leafWrite", "fault", "leafWriteFault"}

\* Fault variant: a table PTE at level 0 reads on (no level < 0 test).
StepWalkNoBottom(x, o) ==
  [x EXCEPT !.level = IF o = "table" THEN @ - 1 ELSE @,
            !.read = (o = "table"),
            !.writes = @ + (IF o \in {"leafWrite", "leafWriteFault"} THEN 1 ELSE 0),
            !.fault = o \in {"fault", "leafWriteFault"}]

\* stepWalk on a read response.  A table PTE at level 0 makes level < 0:
\* page fault.  With doWrite the read packet becomes the write whenever
\* the walk ends, fault or not; a leaf inserts into the TLB only without a
\* fault.
StepWalk(x, o) ==
  [x EXCEPT !.level = IF o = "table" THEN @ - 1 ELSE @,
            !.read = (o = "table" /\ x.level > 0),
            !.writes = @ + (IF o \in {"leafWrite", "leafWriteFault"} THEN 1 ELSE 0),
            !.fault = o \in {"fault", "leafWriteFault"}
                      \/ (o = "table" /\ x.level = 0)]

InsertsTlb(o) == o \in {"leaf", "leafWrite"}

(***************************************************************************)
(* Walker::start                                                          *)
(***************************************************************************)
StartGuard(r) ==
  /\ r \notin issued
  /\ Page[r] \notin tlb       \* the TLB calls start() on a miss
  /\ issued' = issued \cup {r}

\* Fault variant: start() walks even when other walks are queued.
StartQueuedWalks(r) ==
  /\ StartGuard(r)
  /\ currStates # <<>>
  /\ r \notin nonCanonical
  /\ currStates' = Append(currStates, r)
  /\ alive' = alive \cup {r}
  /\ \E acc \in Accepts :
       LET res == SendPackets(Walked(NewState), acc) IN
       /\ ws' = [ws EXCEPT ![r] = res.st]
       /\ net' = net \cup Packets(r, res.sent)
       /\ Refuse(res.refused)
  /\ UNCHANGED <<nonCanonical, wrapperScheduled, tlb, trSquashed, answers>>

\* Walks in progress: queue the new state and return NoFault.
StartQueued(r) ==
  /\ StartGuard(r)
  /\ currStates # <<>>
  /\ currStates' = Append(currStates, r)
  /\ alive' = alive \cup {r}
  /\ ws' = [ws EXCEPT ![r] = NewState]
  /\ UNCHANGED <<nonCanonical, net, wrapperScheduled, tlb, trSquashed, answers,
                 owesRetry, refusals>>

\* Idle walker, early fault: the state is popped and deleted and the
\* fault is returned to the TLB.
StartEarlyFault(r) ==
  /\ StartGuard(r)
  /\ currStates = <<>>
  /\ r \in nonCanonical
  /\ answers' = [answers EXCEPT ![r] = @ + 1]
  /\ UNCHANGED <<nonCanonical, currStates, ws, alive, net, wrapperScheduled, tlb,
                 trSquashed, owesRetry, refusals>>

\* Idle walker: the timing walk starts and the state stays queued.
StartWalk(r) ==
  /\ StartGuard(r)
  /\ currStates = <<>>
  /\ r \notin nonCanonical
  /\ \E acc \in Accepts :
       LET res == SendPackets(Walked(NewState), acc) IN
       /\ currStates' = <<r>>
       /\ alive' = alive \cup {r}
       /\ ws' = [ws EXCEPT ![r] = res.st]
       /\ net' = net \cup Packets(r, res.sent)
       /\ Refuse(res.refused)
  /\ UNCHANGED <<nonCanonical, wrapperScheduled, tlb, trSquashed, answers>>

\* The CPU squashes a translation it still waits for.
Squash(r) ==
  /\ r \in issued
  /\ answers[r] = 0
  /\ r \notin trSquashed
  /\ trSquashed' = trSquashed \cup {r}
  /\ UNCHANGED <<nonCanonical, currStates, ws, alive, net, wrapperScheduled, tlb,
                 issued, answers, owesRetry, refusals>>
(***************************************************************************)
(* Walker::recvTimingResp and WalkerState::recvPacket                      *)
(***************************************************************************)
\* Fault variants of the completion: the waiting requests never woken, or
\* the event scheduled whether or not any request waits.
DeliverNoWakeup(p, s, z, res, done, finishes) ==
  /\ net' = (net \ {p}) \cup Packets(s, res.sent)
  /\ Refuse(res.refused)
  /\ ws' = [ws EXCEPT ![s] = z]
  /\ IF done
     THEN /\ answers' = IF finishes THEN [answers EXCEPT ![s] = @ + 1]
                                    ELSE answers
          /\ currStates' = RemoveFirst(currStates, s)
          /\ alive' = alive \ {s}
          /\ UNCHANGED wrapperScheduled
     ELSE UNCHANGED <<answers, currStates, alive, wrapperScheduled>>

DeliverAlwaysWakeup(p, s, z, res, done, finishes) ==
  /\ net' = (net \ {p}) \cup Packets(s, res.sent)
  /\ Refuse(res.refused)
  /\ ws' = [ws EXCEPT ![s] = z]
  /\ IF done
     THEN /\ answers' = IF finishes THEN [answers EXCEPT ![s] = @ + 1]
                                    ELSE answers
          /\ currStates' = RemoveFirst(currStates, s)
          /\ alive' = alive \ {s}
          /\ wrapperScheduled' = TRUE
     ELSE UNCHANGED <<answers, currStates, alive, wrapperScheduled>>

\* The walk of s is complete: recvTimingResp erases s from currStates,
\* deletes it, and schedules startWalkWrapperEvent for waiting requests.
\* finishes: recvPacket called translation->finish (not when squashed).
Deliver(p, s, z, res, done, finishes) ==
  /\ net' = (net \ {p}) \cup Packets(s, res.sent)
  /\ Refuse(res.refused)
  /\ ws' = [ws EXCEPT ![s] = z]
  /\ IF done
     THEN /\ answers' = IF finishes THEN [answers EXCEPT ![s] = @ + 1]
                                    ELSE answers
          /\ currStates' = RemoveFirst(currStates, s)
          /\ alive' = alive \ {s}
          /\ wrapperScheduled' = (wrapperScheduled \/ currStates' # <<>>)
     ELSE UNCHANGED <<answers, currStates, alive, wrapperScheduled>>

\* Fault variant: the completion test without inflight == 0.
IdleNoInflight(z) == ~z.read /\ z.writes = 0

\* All done: nothing in flight, no read to send, no write queued.
Idle(z) == z.inflight = 0 /\ ~z.read /\ z.writes = 0

\* A PTE read returns: stepWalk on it, queue its write-back if any, then
\* sendPackets; when the walk is idle, finish the translation.
RecvReadResp(p) ==
  LET s == p.s
      x == [ws[s] EXCEPT !.inflight = @ - 1]
  IN
  /\ p \in net
  /\ p.cmd = "read"
  /\ ~x.squashed
  /\ \E o \in StepOutcomes, acc \in Accepts :
       LET res == SendPackets(StepWalk(x, o), acc) IN
       /\ tlb' = IF InsertsTlb(o) THEN tlb \cup {Page[s]} ELSE tlb
       /\ Deliver(p, s, res.st, res, Idle(res.st), TRUE)
  /\ UNCHANGED <<nonCanonical, issued, trSquashed>>

\* A write-back is acknowledged: sendPackets, then the same completion test.
RecvWriteResp(p) ==
  LET s == p.s
      x == [ws[s] EXCEPT !.inflight = @ - 1]
  IN
  /\ p \in net
  /\ p.cmd = "write"
  /\ ~x.squashed
  /\ \E acc \in Accepts :
       LET res == SendPackets(x, acc) IN
       Deliver(p, s, res.st, res, Idle(res.st), TRUE)
  /\ UNCHANGED <<nonCanonical, tlb, issued, trSquashed>>

\* recvPacket's squashed branch (count down, free at zero) is left out: a
\* state is marked squashed only when startWalkWrapper pops it with packets
\* in flight, and OneWalkAtATime shows that the popped states never have
\* any, since only the front walks and the wrapper pops unstarted states.

(***************************************************************************)
(* Walker::recvReqRetry: every queued state that is retrying retries, in  *)
(* queue order, against what the port now accepts.                         *)
(***************************************************************************)
RECURSIVE RetryEach(_, _, _)
RetryEach(q, w, acc) ==
  IF q = <<>> THEN w
  ELSE LET s == Head(q) IN
       IF ~w.ws[s].retrying THEN RetryEach(Tail(q), w, acc)
       ELSE LET res == SendPackets([w.ws[s] EXCEPT !.retrying = FALSE], acc) IN
            RetryEach(Tail(q),
                      [ws |-> [w.ws EXCEPT ![s] = res.st],
                       sent |-> w.sent \cup Packets(s, res.sent),
                       refused |-> w.refused \/ res.refused],
                      acc - Cardinality(res.sent))

RecvReqRetry ==
  /\ owesRetry
  /\ \E acc \in Accepts :
       LET w == RetryEach(currStates, [ws |-> ws, sent |-> {}, refused |-> FALSE],
                          acc)
       IN  /\ ws' = w.ws
           /\ net' = net \cup w.sent
           /\ owesRetry' = w.refused
           /\ refusals' = refusals + (IF w.refused THEN 1 ELSE 0)
  /\ UNCHANGED <<nonCanonical, currStates, alive, wrapperScheduled, tlb, issued,
                 trSquashed, answers>>
(***************************************************************************)
(* Walker::startWalkWrapper                                                *)
(***************************************************************************)
\* Fault variant: the loop finishes the front without popping it.
RECURSIVE DropFrontNoPop(_, _, _)
DropFrontNoPop(w, n, hitOk) ==
  IF /\ w.q # <<>>
     /\ n < NumSquashable
     /\ Head(w.q) \in trSquashed \cup hitOk
  THEN DropFrontNoPop([w EXCEPT !.answers = [@ EXCEPT ![Head(w.q)] = @ + 1]],
                      n + 1, hitOk)
  ELSE w

\* The while loop: up to NumSquashable requests at the front whose
\* translation is squashed, or whose page now hits in the TLB without a
\* permission fault (hitOk), are popped and finished (squashed, or by
\* translateTiming); a popped state with packets in flight is only marked
\* squashed, the others are deleted.
RECURSIVE DropFront(_, _, _)
DropFront(w, n, hitOk) ==
  IF /\ w.q # <<>>
     /\ n < NumSquashable
     /\ Head(w.q) \in trSquashed \cup hitOk
  THEN LET s == Head(w.q)
           inflight == w.ws[s].inflight > 0
       IN  DropFront([q |-> Tail(w.q),
                      ws |-> IF inflight THEN [w.ws EXCEPT ![s].squashed = TRUE]
                                         ELSE w.ws,
                      alive |-> IF inflight THEN w.alive ELSE w.alive \ {s},
                      answers |-> [w.answers EXCEPT ![s] = @ + 1]],
                     n + 1, hitOk)
  ELSE w

\* The event fires.  currStates.front() of an empty list is undefined, so
\* the action needs a queued request (WrapperFindsWalk checks it has one).
StartWalkWrapper ==
  /\ wrapperScheduled
  /\ currStates # <<>>
  /\ \E hitOk \in SUBSET {r \in Reqs : Page[r] \in tlb}, acc \in Accepts :
       LET w == DropFront([q |-> currStates, ws |-> ws, alive |-> alive,
                           answers |-> answers], 0, hitOk)
           f == Head(w.q)
           waits == IF w.q = <<>> THEN FALSE ELSE ~w.ws[f].started
           res == SendPackets(Walked(w.ws[f]), acc)
       IN  /\ answers' = w.answers
           /\ \/ \* nothing left, or the front already walks
                 /\ ~waits
                 /\ currStates' = w.q /\ ws' = w.ws /\ alive' = w.alive
                 /\ wrapperScheduled' = FALSE
                 /\ UNCHANGED <<net, owesRetry, refusals>>
              \/ \* a TLB hit past the squash limit: try again next cycle
                 /\ waits /\ f \in hitOk
                 /\ currStates' = w.q /\ ws' = w.ws /\ alive' = w.alive
                 /\ wrapperScheduled' = TRUE
                 /\ UNCHANGED <<net, owesRetry, refusals>>
              \/ \* walk() faults early: the state is popped and deleted
                 /\ waits /\ f \notin hitOk
                 /\ f \in nonCanonical
                 /\ currStates' = Tail(w.q) /\ ws' = w.ws
                 /\ alive' = w.alive \ {f}
                 /\ wrapperScheduled' = FALSE
                 /\ UNCHANGED <<net, owesRetry, refusals>>
              \/ \* the timing walk of the front starts
                 /\ waits /\ f \notin hitOk
                 /\ f \notin nonCanonical
                 /\ currStates' = w.q /\ alive' = w.alive
                 /\ ws' = [w.ws EXCEPT ![f] = res.st]
                 /\ net' = net \cup Packets(f, res.sent)
                 /\ Refuse(res.refused)
                 /\ wrapperScheduled' = FALSE
  /\ UNCHANGED <<nonCanonical, tlb, issued, trSquashed>>

-----------------------------------------------------------------------------
Next ==
  \/ \E r \in Reqs : StartQueued(r) \/ StartEarlyFault(r) \/ StartWalk(r)
                     \/ Squash(r)
  \/ \E p \in Packet : RecvReadResp(p) \/ RecvWriteResp(p)
  \/ RecvReqRetry
  \/ StartWalkWrapper

\* The memory answers every packet, the port sends the retry it owes, and
\* a scheduled event fires: gem5's event queue runs every scheduled event.
\* The CPU's requests and squashes are the environment and are not fair.
Fairness ==
  /\ \A p \in Packet : WF_vars(RecvReadResp(p) \/ RecvWriteResp(p))
  /\ WF_vars(RecvReqRetry)
  /\ WF_vars(StartWalkWrapper)

Spec == Init /\ [][Next]_vars /\ Fairness
-----------------------------------------------------------------------------
WState == [started : BOOLEAN, level : -1..Levels - 1, read : BOOLEAN,
           writes : 0..1, inflight : 0..2, retrying : BOOLEAN,
           squashed : BOOLEAN, fault : BOOLEAN]

TypeOK ==
  /\ currStates \in Seq(Reqs)
  /\ ws \in [Reqs -> WState]
  /\ alive \subseteq Reqs
  /\ net \subseteq Packet
  /\ wrapperScheduled \in BOOLEAN
  /\ answers \in [Reqs -> Nat]
  /\ refusals \in 0..MaxRefusals

\* Every request the TLB hands to start() is answered: the translation is
\* finished (walked, squashed, or a TLB hit) or start() returns its fault.
EveryRequestAnswered == \A r \in Reqs : r \in issued ~> answers[r] > 0

\* When every vaddr passes the MSB check, so that no queued walk can fault
\* early in startWalkWrapper, every request start() accepts is answered:
\* the wakeup that recvPacket schedules after a finished walk, and the
\* retry the port owes, keep the queue moving.
AnsweredWhenCanonical == nonCanonical = {} => EveryRequestAnswered

\* No translation is finished twice, although a request can leave the
\* walker through start(), startWalkWrapper's squash loop, or recvPacket.
AnsweredOnce == \A r \in Reqs : answers[r] <= 1

\* recvTimingResp dereferences the WalkerState a response names: every
\* packet in flight belongs to a state that has not been deleted, and each
\* state's inflight counts exactly its packets in flight.
PacketsOfLiveStates ==
  \A s \in Reqs :
    /\ (\E p \in net : p.s = s) => s \in alive
    /\ s \in alive => ws[s].inflight = Cardinality({p \in net : p.s = s})

\* The walker serialises walks: only the front of currStates may have
\* started, so the squash loop of startWalkWrapper only pops states with
\* nothing in flight, and every live state is still queued (none is left
\* squashed, waiting for packets, or leaked).
OneWalkAtATime ==
  /\ \A i \in 2..Len(currStates) : ~ws[currStates[i]].started
  /\ alive = ToSet(currStates)

\* startWalkWrapperEvent never fires on an empty currStates (front() of
\* an empty std::list).
WrapperFindsWalk == wrapperScheduled => currStates # <<>>

\* The A/D write-back is sent only by a walk that did not fault: the PMP
\* and PMA write checks in stepWalk guard the write ("perform next step
\* only if pmp checks pass").
NoWriteAfterFault ==
  \A p \in net : p.cmd = "write" => ~ws[p.s].fault
=============================================================================
