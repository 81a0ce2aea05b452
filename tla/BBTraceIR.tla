------------------------------ MODULE BBTraceIR ------------------------------
(***************************************************************************)
(* Constant-level definitions shared by the bb-trace pass model and its    *)
(* inputs (passes/BasicBlockTracer.cpp): the abstract IR instruction and   *)
(* function records, the pass's helper predicates and the pure algorithms *)
(* (loop numbering, argument marshalling).                                *)
(***************************************************************************)
EXTENDS Naturals, Sequences, SequencesExt, FiniteSets, TLC

(***************************************************************************)
(* Instructions.  hook = "none" marks an instruction of the input program; *)
(* every other value marks an instruction the pass inserted.  vals counts *)
(* the unnamed SSA values the instruction (with the casts and selects     *)
(* folded into it) defines: loads and PHIs define one, void calls none.  *)
(***************************************************************************)
Src(op, callee, succ, args) ==
  [op |-> op, callee |-> callee, succ |-> succ, args |-> args,
   hook |-> "none", ids |-> <<>>, vals |-> IF op \in {"load", "phi"} THEN 1 ELSE 0]

HookCall(h, ids) ==
  [op |-> "call", callee |-> "bbtrace", succ |-> <<>>, args |-> <<>>,
   hook |-> h, ids |-> ids, vals |-> 0]

\* emitInstPcRecord: an InlineAsm call pushing (func, bb, inst, 0, 1f).
InstPcAsm(ids) ==
  [op |-> "call", callee |-> "asm", succ |-> <<>>, args |-> <<>>,
   hook |-> "rec", ids |-> ids, vals |-> 0]

\* The llvm.returnaddress(0) call feeding on_call's call_site argument.
ReturnAddr ==
  [op |-> "call", callee |-> "intrinsic", succ |-> <<>>, args |-> <<>>,
   hook |-> "retaddr", ids |-> <<>>, vals |-> 1]

\* isBbtraceRuntimeCall: a direct call to a function named __bbtrace_*.
IsBbtraceRuntimeCall(I) == I.op = "call" /\ I.callee = "bbtrace"

\* A function record for a declaration the pass adds (getOrInsertFunction).
Decl(sym, runtime) ==
  [sym |-> sym, runtime |-> runtime, decl |-> TRUE, blocks |-> <<>>,
   loops |-> <<>>, top |-> <<>>]

\* Fault variant: the __bbtrace_ prefix filter forgotten.
EligibleAnyName(F) == ~F.decl

\* Eligible iff defined and not named __bbtrace_* (instrumentModule loop).
Eligible(F) == ~F.decl /\ ~F.runtime

(***************************************************************************)
(* Loop analysis input.  F.loops[l] = [header, body, children] with        *)
(* children in LoopInfo sub-loop order; F.top lists the outermost loops in *)
(* LoopInfo iteration order.  LoopFor is LoopInfo::getLoopFor: the loops   *)
(* containing b that have no sub-loop containing b (at most one).          *)
(***************************************************************************)
LoopFor(F, b) ==
  { l \in DOMAIN F.loops :
      /\ b \in F.loops[l].body
      /\ \A c \in ToSet(F.loops[l].children) : b \notin F.loops[c].body }

\* Fault variant: the loop stack used as a FIFO queue.
RECURSIVE EnumerateLoopsFifo(_, _, _, _)
EnumerateLoopsFifo(F, queue, next, ids) ==
  IF queue = <<>> THEN ids
  ELSE EnumerateLoopsFifo(F, Tail(queue) \o F.loops[Head(queue)].children,
                          next + 1, ids @@ (Head(queue) :> next))

\* The LoopIds table: pop the back of a stack seeded with the outermost
\* loops, push its sub-loops, give it the next id.
RECURSIVE EnumerateLoops(_, _, _, _)
EnumerateLoops(F, queue, next, ids) ==
  IF queue = <<>> THEN ids
  ELSE LET L == Last(queue)
       IN  EnumerateLoops(F, Front(queue) \o F.loops[L].children,
                          next + 1, ids @@ (L :> next))

\* materializeCallArg: the (CallArgKind, bitwidth) pair pushed for one
\* argument; 0 Unknown, 1 Integer, 2 Pointer, 3 Floating.  A type is
\* [cls, bits, store]: scalar size in bits (the address-space pointer
\* size for "ptr") and store size in bits; address space 0 is 64 bits.
\* The value cast to i64 next to the pair is abstracted away here.
MaterializeCallArg(t) ==
  CASE t.cls = "ptr"   -> <<2, IF t.bits = 0 THEN 64 ELSE t.bits>>
    [] t.cls = "int"   -> <<1, t.bits>>
    [] t.cls = "float" -> <<3, IF t.bits = 0 THEN t.store ELSE t.bits>>
    [] OTHER           -> <<0, IF t.store = 0 THEN 1 ELSE t.store>>

\* The address recorded for block bi of function fi (PcInfos / bb hook).
BlockAddr(fi, bi) ==
  IF bi = 1 THEN [kind |-> "func", f |-> fi, b |-> 1]
            ELSE [kind |-> "block", f |-> fi, b |-> bi]

InstClasses == {"mem", "branch", "call"}

\* The number of unnamed values defined by a sequence of instructions.
ValueCount(seq) == FoldLeft(LAMBDA n, I : n + I.vals, 0, seq)

\* declareHook / getOrInsertDeclaration: append a declaration of each
\* symbol the module does not have yet; all but the intrinsic are
\* __bbtrace_* names.
Declare(fs, syms) ==
  fs \o SetToSeq({ Decl(s, s # "returnaddress") :
                     s \in {s \in syms : \A k \in 1..Len(fs) : fs[k].sym # s} })

FirstInsertionPt(B) ==
  CHOOSE k \in 0..Len(B) :
    /\ \A j \in 1..k : B[j].op = "phi"
    /\ k < Len(B) => B[k + 1].op # "phi"
=============================================================================
