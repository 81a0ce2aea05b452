----------------------------- MODULE BBTracePass -----------------------------
(***************************************************************************)
(* The bb-trace LLVM module pass, passes/BasicBlockTracer.cpp.             *)
(*                                                                         *)
(* One behaviour is one invocation of BasicBlockTracePass::run on one      *)
(* input module.  The pass walks the module's function list (which it      *)
(* extends while walking: ctor/dtor and hook declarations are appended),   *)
(* allocates func/bb/inst ids, rewrites every eligible block by inserting  *)
(* hook calls and inline-asm PC records before the instructions they       *)
(* describe, and finally writes the descriptor file and the .bbtrace_map   *)
(* global.  Each step below is one iteration of one of the code's loops.   *)
(*                                                                         *)
(* Data is abstracted to what the properties tell apart: an instruction    *)
(* is a record of its opcode class, its callee class, its successors (as  *)
(* block positions) and its argument types; printed IR text, names and     *)
(* JSON layout are left out.                                               *)
(***************************************************************************)
EXTENDS BBTraceIR

CONSTANTS
  Inputs,          \* the input modules: sequences of function records
  kInvalidLoopId   \* the "no loop" hint, UINT32_MAX in the code

VARIABLES
  input,        \* the module as handed to the pass (fixed)
  staticOnly,   \* isStaticOnlyMode(), read once per process
  funcs,        \* the module's function list as the pass rewrites it
  ctors,        \* entries appended to llvm.global_ctors / global_dtors
  phase,        \* "start", "funcs", "blocks", "insts" or "done"
  fi, bi,       \* cursor of `for (Function &F : M)` / `for (BasicBlock &BB : F)`
  funcId,       \* FuncId passed to instrumentFunction
  nextFuncId,
  loopIds,      \* LoopIds of the current function
  nextInstId,   \* NextMemInstId, NextBranchInstId, NextCallInstId
  info,         \* Info.Instructions of the block being visited
  done, todo,   \* the block's instructions already visited / still to visit
  staticInfos,  \* StaticInfos
  pcInfos,      \* PcInfos
  instRecords,  \* the .bbtrace_inst records the inline asm emits
  descFile,     \* bbtrace_static/<module>.bbinfo.jsonl: who wrote it, and
                \* the records this run wrote into it
  pcMap         \* initializer of __bbtrace_pcmap (<<>>: no global)

vars == <<input, staticOnly, funcs, ctors, phase, fi, bi, funcId, nextFuncId,
          loopIds, nextInstId, info, done, todo, staticInfos, pcInfos,
          instRecords, descFile, pcMap>>

cursor == <<fi, bi, funcId, nextFuncId, loopIds, nextInstId, info, done, todo>>
outputs == <<staticInfos, pcInfos, instRecords, descFile, pcMap>>

Instrumenting == ~staticOnly

Init ==
  /\ input \in Inputs
  /\ staticOnly \in BOOLEAN
  /\ funcs = input
  /\ ctors = <<>>
  /\ phase = "start"
  /\ fi = 1 /\ bi = 1
  /\ funcId = 0 /\ nextFuncId = 0
  /\ loopIds = <<>>
  /\ nextInstId = [c \in InstClasses |-> 0]
  /\ info = <<>> /\ done = <<>> /\ todo = <<>>
  /\ staticInfos = <<>> /\ pcInfos = <<>> /\ instRecords = <<>>
  \* no file yet, or one left by an earlier compile of the same module
  /\ descFile \in {[by |-> b, infos |-> <<>>] : b \in {"none", "earlier"}}
  /\ pcMap = <<>>

(***************************************************************************)
(* instrumentModule up to its function loop, with ensureCtorDtor in        *)
(* instrumented mode: declare register/finalize, create the private       *)
(* __bbtrace_ctor / __bbtrace_dtor and append them at priority 0.          *)
(***************************************************************************)
CtorFn(sym) ==
  [sym |-> sym, runtime |-> TRUE, decl |-> FALSE,
   blocks |-> << << Src("call", "bbtrace", <<>>, <<>>),
                    Src("ret", "none", <<>>, <<>>) >> >>,
   loops |-> <<>>, top |-> <<>>]

Start ==
  /\ phase = "start"
  /\ IF Instrumenting
       THEN /\ funcs' = Declare(Declare(funcs, {"register_module"}),
                                  {"finalize"})
                          \o << CtorFn("ctor"), CtorFn("dtor") >>
            /\ ctors' = << [fn |-> "ctor", prio |-> 0, list |-> "ctors"],
                           [fn |-> "dtor", prio |-> 0, list |-> "dtors"] >>
       ELSE UNCHANGED <<funcs, ctors>>
  /\ phase' = "funcs"
  /\ UNCHANGED <<input, staticOnly, cursor, outputs>>

\* `if (F.isDeclaration()) continue; if (starts_with("__bbtrace_")) continue;`
SkipFunction ==
  /\ phase = "funcs"
  /\ fi <= Len(funcs)
  /\ ~Eligible(funcs[fi])
  /\ fi' = fi + 1
  /\ UNCHANGED <<input, staticOnly, funcs, ctors, phase, bi, funcId,
                 nextFuncId, loopIds, nextInstId, info, done, todo, outputs>>

(***************************************************************************)
(* instrumentFunction up to its block loop: declare the hooks, number the  *)
(* loops (instrumented mode only), number the blocks (bb_id = position-1), *)
(* reset the per-class inst counters.                                      *)
(***************************************************************************)
BeginFunction ==
  /\ phase = "funcs"
  /\ fi <= Len(funcs)
  /\ Eligible(funcs[fi])
  /\ funcId' = nextFuncId
  /\ nextFuncId' = nextFuncId + 1
  /\ funcs' = IF Instrumenting
                THEN Declare(Declare(funcs, {"on_basic_block", "on_loop",
                                             "on_mem"}),
                             {"on_branch", "on_call", "returnaddress"})
                ELSE funcs
  /\ loopIds' = IF Instrumenting
                  THEN EnumerateLoops(funcs[fi], funcs[fi].top, 0, <<>>)
                  ELSE <<>>
  /\ nextInstId' = [c \in InstClasses |-> 0]
  /\ bi' = 1
  /\ phase' = "blocks"
  /\ UNCHANGED <<input, staticOnly, ctors, fi, info, done, todo, outputs>>

\* No blocks left: continue the function loop.
EndFunction ==
  /\ phase = "blocks"
  /\ bi > Len(funcs[fi].blocks)
  /\ fi' = fi + 1
  /\ phase' = "funcs"
  /\ UNCHANGED <<input, staticOnly, funcs, ctors, bi, funcId, nextFuncId,
                 loopIds, nextInstId, info, done, todo, outputs>>
(***************************************************************************)
(* Head of the block loop: record the block's PC (the function pointer    *)
(* for the entry block, a blockaddress otherwise) and, when instrumenting, *)
(* insert on_basic_block and then on_loop at the first insertion point    *)
(* (after the leading PHIs), which puts on_loop before on_basic_block.    *)
(* The inserted calls are in the range the instruction loop then walks.   *)
(***************************************************************************)
LoopHint(F, b) ==
  IF LoopFor(F, b) = {} THEN kInvalidLoopId
  ELSE loopIds[CHOOSE l \in LoopFor(F, b) : TRUE]

EntryHooks(F, b) ==
  LET bbHook == HookCall("bb", <<funcId, b - 1, LoopHint(F, b),
                                 BlockAddr(fi, b)>>)
      headerOf == {l \in LoopFor(F, b) : F.loops[l].header = b}
  IN  IF headerOf = {} THEN <<bbHook>>
      ELSE << HookCall("loop", <<funcId, loopIds[CHOOSE l \in headerOf : TRUE]>>),
              bbHook >>

BeginBlock ==
  /\ phase = "blocks"
  /\ bi <= Len(funcs[fi].blocks)
  /\ LET F == funcs[fi]
         B == F.blocks[bi]
         k == FirstInsertionPt(B)
     IN  /\ pcInfos' = Append(pcInfos, [fid |-> funcId, bid |-> bi - 1,
                                         addr |-> BlockAddr(fi, bi)])
         /\ todo' = IF Instrumenting
                      THEN SubSeq(B, 1, k) \o EntryHooks(F, bi)
                             \o SubSeq(B, k + 1, Len(B))
                      ELSE B
  /\ done' = <<>>
  /\ info' = <<>>
  /\ phase' = "insts"
  /\ UNCHANGED <<input, staticOnly, funcs, ctors, fi, bi, funcId, nextFuncId,
                 loopIds, nextInstId, staticInfos, instRecords, descFile, pcMap>>

(***************************************************************************)
(* One iteration of `for (Instruction &I : BB)`.  Instructions the pass   *)
(* inserts go before I and are never visited.  Pointer casts, the selects *)
(* on the branch condition and the argument casts are folded into the     *)
(* hook call's operands.                                                  *)
(***************************************************************************)
Cur == Head(todo)
CurIds(iid) == <<funcId, bi - 1, iid>>

\* printInstruction(I), run before I's own insertions: a value-producing
\* instruction prints as its %N, the count of unnamed values before it in
\* the function as rewritten so far.  (Operand numbers, argument and block
\* slots are left out: they only add differences.)
PrintedText(I) ==
  IF I.vals = 0 THEN <<I.op>>
  ELSE <<I.op, ValueCount(FlattenSeq(SubSeq(funcs[fi].blocks, 1, bi - 1))
                         \o done)>>

\* Fault variants: the hooks built after I (IRBuilder at I's successor);
\* the InstructionStaticInfo pushed without its text.
VisitInsertAfter(inserted, kind, iid, targets) ==
  /\ done' = done \o <<Cur>> \o inserted
  /\ todo' = Tail(todo)
  /\ info' = Append(info, [kind |-> kind, iid |-> iid, targets |-> targets,
                           text |-> PrintedText(Cur)])

VisitNoText(inserted, kind, iid, targets) ==
  /\ done' = done \o inserted \o <<Cur>>
  /\ todo' = Tail(todo)
  /\ info' = Append(info, [kind |-> kind, iid |-> iid, targets |-> targets])

\* Replace I by `inserted` followed by I, and push its InstructionStaticInfo.
Visit(inserted, kind, iid, targets) ==
  /\ done' = done \o inserted \o <<Cur>>
  /\ todo' = Tail(todo)
  /\ info' = Append(info, [kind |-> kind, iid |-> iid, targets |-> targets,
                           text |-> PrintedText(Cur)])

\* `if (isBbtraceRuntimeCall(*Call)) continue;`
SkipRuntimeCall ==
  /\ phase = "insts"
  /\ todo # <<>>
  /\ IsBbtraceRuntimeCall(Cur)
  /\ done' = Append(done, Cur)
  /\ todo' = Tail(todo)
  /\ UNCHANGED <<input, staticOnly, funcs, ctors, phase, fi, bi, funcId,
                 nextFuncId, loopIds, nextInstId, info, outputs>>

\* Load / Store: the PC record in both modes, on_mem when instrumenting.
VisitMem ==
  /\ phase = "insts"
  /\ todo # <<>>
  /\ Cur.op \in {"load", "store"}
  /\ LET ids == CurIds(nextInstId["mem"])
     IN  /\ Visit(<<InstPcAsm(ids)>>
                   \o (IF Instrumenting
                         THEN <<HookCall("mem", ids \o <<Cur.op = "store">>)>>
                         ELSE <<>>),
                   Cur.op, nextInstId["mem"], <<>>)
         /\ instRecords' = Append(instRecords, ids)
  /\ nextInstId' = [nextInstId EXCEPT !["mem"] = @ + 1]
  /\ UNCHANGED <<input, staticOnly, funcs, ctors, phase, fi, bi, funcId,
                 nextFuncId, loopIds, staticInfos, pcInfos, descFile, pcMap>>

\* BranchInst: targets are the successors' bb ids; on_branch gets the
\* pair (id, blockaddress) selected by the condition (succ 0 when true).
VisitBranch ==
  /\ phase = "insts"
  /\ todo # <<>>
  /\ Cur.op = "br"
  /\ LET iid == nextInstId["branch"]
         targets == [k \in DOMAIN Cur.succ |-> Cur.succ[k] - 1]
         addrs == [k \in DOMAIN Cur.succ |->
                     [kind |-> "block", f |-> fi, b |-> Cur.succ[k]]]
         \* a conditional branch gets two selects on its condition
         hook == [HookCall("branch", CurIds(iid) \o <<targets, addrs>>)
                    EXCEPT !.vals = 2 * (Len(Cur.succ) - 1)]
     IN  Visit(IF Instrumenting THEN <<hook>> ELSE <<>>, "branch", iid, targets)
  /\ nextInstId' = [nextInstId EXCEPT !["branch"] = @ + 1]
  /\ UNCHANGED <<input, staticOnly, funcs, ctors, phase, fi, bi, funcId,
                 nextFuncId, loopIds, outputs>>

\* A call that is not an intrinsic, inline asm or runtime call: a
\* returnaddress(0) call, then on_call with a (kind, bitwidth) per argument.
\* Fault variant: the intrinsic / inline-asm exclusion forgotten.
IsTracedCallAny(I) == I.op = "call" /\ I.callee # "bbtrace"

IsTracedCall(I) == I.op = "call" /\ I.callee \in {"user", "indirect"}

VisitCall ==
  /\ phase = "insts"
  /\ todo # <<>>
  /\ IsTracedCall(Cur)
  /\ LET iid == nextInstId["call"]
         marshalled == [k \in DOMAIN Cur.args |-> MaterializeCallArg(Cur.args[k])]
     IN  Visit(IF Instrumenting
                 THEN << ReturnAddr,
                         HookCall("call", CurIds(iid)
                                    \o <<Len(Cur.args), marshalled>>) >>
                 ELSE <<>>,
               "call", iid, <<>>)
  /\ nextInstId' = [nextInstId EXCEPT !["call"] = @ + 1]
  /\ UNCHANGED <<input, staticOnly, funcs, ctors, phase, fi, bi, funcId,
                 nextFuncId, loopIds, outputs>>

\* Anything else (PHIs, returns, arithmetic, intrinsic and asm calls):
\* a Generic entry with inst_id 0.
VisitGeneric ==
  /\ phase = "insts"
  /\ todo # <<>>
  /\ ~IsBbtraceRuntimeCall(Cur)
  /\ Cur.op \notin {"load", "store", "br"}
  /\ ~IsTracedCall(Cur)
  /\ Visit(<<>>, "generic", 0, <<>>)
  /\ UNCHANGED <<input, staticOnly, funcs, ctors, phase, fi, bi, funcId,
                 nextFuncId, loopIds, nextInstId, outputs>>

\* Tail of the block loop: the block now holds the rewritten instructions;
\* push its BlockStaticInfo.
EndBlock ==
  /\ phase = "insts"
  /\ todo = <<>>
  /\ funcs' = [funcs EXCEPT ![fi].blocks[bi] = done]
  /\ staticInfos' = Append(staticInfos, [fid |-> funcId, bid |-> bi - 1,
                                           insts |-> info])
  /\ bi' = bi + 1
  /\ phase' = "blocks"
  /\ UNCHANGED <<input, staticOnly, ctors, fi, funcId, nextFuncId, loopIds,
                 nextInstId, info, done, todo, pcInfos, instRecords, descFile,
                 pcMap>>

(***************************************************************************)
(* After the function loop: dumpBasicBlockInfo, then emitPcMap.  Both      *)
(* return early on an empty list.  The descriptor is opened with trunc;   *)
(* if create_directories or the open fails the function returns silently  *)
(* and whatever was on disk stays there.                                  *)
(***************************************************************************)
Finish ==
  /\ phase = "funcs"
  /\ fi > Len(funcs)
  /\ IF staticInfos = <<>> THEN UNCHANGED descFile
     ELSE \E opened \in BOOLEAN :
            descFile' = IF opened THEN [by |-> "this", infos |-> staticInfos]
                                  ELSE descFile
  /\ pcMap' = pcInfos
  /\ phase' = "done"
  /\ UNCHANGED <<input, staticOnly, funcs, ctors, cursor, staticInfos,
                 pcInfos, instRecords>>

Next ==
  \/ Start
  \/ SkipFunction
  \/ BeginFunction
  \/ BeginBlock
  \/ SkipRuntimeCall
  \/ VisitMem
  \/ VisitBranch
  \/ VisitCall
  \/ VisitGeneric
  \/ EndBlock
  \/ EndFunction
  \/ Finish

Spec == Init /\ [][Next]_vars

-----------------------------------------------------------------------------
Addr == [kind : {"func", "block"}, f : Nat, b : Nat]
Ops == {"load", "store", "br", "call", "phi", "ret"}
InstInfo == [kind : {"generic", "load", "store", "branch", "call"}, iid : Nat,
             targets : Seq(Nat), text : {<<o>> : o \in Ops} \cup (Ops \X Nat)]
StaticInfo == [fid : Nat, bid : Nat, insts : Seq(InstInfo)]
PcInfo == [fid : Nat, bid : Nat, addr : Addr]

TypeOK ==
  /\ staticOnly \in BOOLEAN
  /\ phase \in {"start", "funcs", "blocks", "insts", "done"}
  /\ fi \in 1..Len(funcs) + 1
  /\ bi \in Nat \ {0}
  /\ funcId \in Nat /\ nextFuncId \in Nat
  /\ nextInstId \in [InstClasses -> Nat]
  /\ loopIds \in [DOMAIN loopIds -> Nat] /\ DOMAIN loopIds \subseteq Nat
  /\ info \in Seq(InstInfo)
  /\ staticInfos \in Seq(StaticInfo)
  /\ pcInfos \in Seq(PcInfo)
  /\ instRecords \in Seq(Nat \X Nat \X Nat)
  /\ descFile \in [by : {"none", "earlier", "this"}, infos : Seq(StaticInfo)]
  /\ pcMap \in Seq(PcInfo)

-----------------------------------------------------------------------------
(***************************************************************************)
(* Reference definitions, computed from the input module alone.           *)
(***************************************************************************)

\* Positions in the input of the functions that get a func_id, in order.
EligiblePos ==
  SelectSeq([k \in 1..Len(input) |-> k],
            LAMBDA k : ~input[k].decl /\ ~input[k].runtime)

\* One pcmap entry per block of every eligible function, func_id and bb_id
\* dense from 0 in module and layout order; the entry block's address is
\* the function itself (spec section 8, items 1 and 4).
ExpectedPcMap ==
  FlattenSeq([j \in DOMAIN EligiblePos |->
                LET k == EligiblePos[j]
                IN  [b \in DOMAIN input[k].blocks |->
                       [fid |-> j - 1, bid |-> b - 1, addr |-> BlockAddr(k, b)]]])

\* The inst class a source instruction belongs to, by the spec's table.
SrcClass(I) ==
  CASE I.op \in {"load", "store"}                          -> "mem"
    [] I.op = "br"                                         -> "branch"
    [] I.op = "call" /\ I.callee \in {"user", "indirect"}  -> "call"
    [] OTHER                                               -> "none"

KindClass(kind) ==
  CASE kind \in {"load", "store"} -> "mem"
    [] kind = "generic"           -> "none"
    [] OTHER                      -> kind

\* The descriptor's instruction entries of function fid, in order.
DescEntries(fid) ==
  FlattenSeq([i \in DOMAIN staticInfos |->
                IF staticInfos[i].fid = fid THEN staticInfos[i].insts ELSE <<>>])

IdsOfClass(fid, c) ==
  LET es == SelectSeq(DescEntries(fid), LAMBDA e : KindClass(e.kind) = c)
  IN  [k \in DOMAIN es |-> es[k].iid]

SourceCount(F, c) ==
  Len(SelectSeq(FlattenSeq(F.blocks), LAMBDA I : SrcClass(I) = c))

\* Loop nesting read off the loop bodies, and the reverse preorder the
\* LoopIds table is meant to follow: a loop comes after its ancestors and
\* after every loop nested in a later sibling of it or of an ancestor.
IsAncestor(F, m, l) == m # l /\ F.loops[l].header \in F.loops[m].body

SiblingList(F, l) ==
  IF \E p \in DOMAIN F.loops : l \in ToSet(F.loops[p].children)
    THEN F.loops[CHOOSE p \in DOMAIN F.loops :
                   l \in ToSet(F.loops[p].children)].children
    ELSE F.top

LaterSiblings(F, l) ==
  LET s == SiblingList(F, l)
      i == CHOOSE i \in DOMAIN s : s[i] = l
  IN  {s[j] : j \in i + 1..Len(s)}

RefLoopId(F, l) ==
  Cardinality({ m \in DOMAIN F.loops :
                 \/ IsAncestor(F, m, l)
                 \/ \E a \in {l} \cup {x \in DOMAIN F.loops : IsAncestor(F, x, l)} :
                      \E t \in LaterSiblings(F, a) : m = t \/ IsAncestor(F, t, m) })

\* The entry hooks block b of F must start with, after its PHIs.
RefEntryHooks(F, fid, k, b) ==
  LET inner == LoopFor(F, b)
      hint == IF inner = {} THEN kInvalidLoopId
              ELSE RefLoopId(F, CHOOSE l \in inner : TRUE)
      bbHook == HookCall("bb", <<fid, b - 1, hint, BlockAddr(k, b)>>)
      hdr == {l \in inner : F.loops[l].header = b}
  IN  IF hdr = {} THEN <<bbHook>>
      ELSE <<HookCall("loop", <<fid, RefLoopId(F, CHOOSE l \in hdr : TRUE)>>),
             bbHook>>

\* The input instructions of a rewritten block that the descriptor lists.
Listed(B) == SelectSeq(B, LAMBDA I : I.hook = "none" /\ ~IsBbtraceRuntimeCall(I))

-----------------------------------------------------------------------------
(***************************************************************************)
(* Properties of a finished run.                                          *)
(***************************************************************************)

\* instrumentModule numbers only defined, non-__bbtrace_ functions, while
\* ensureCtorDtor and the hook declarations grow the function list it is
\* walking; dumpBasicBlockInfo and emitPcMap must still list every
\* eligible input block exactly once, in the same order, with the entry
\* block at the function's address.
BlockEnumeration ==
  phase = "done" =>
    /\ pcMap = ExpectedPcMap
    /\ [i \in DOMAIN staticInfos |-> <<staticInfos[i].fid, staticInfos[i].bid>>]
         = [i \in DOMAIN pcMap |-> <<pcMap[i].fid, pcMap[i].bid>>]

\* The three per-function counters of instrumentFunction give each class
\* the ids 0..n-1 in descriptor order, where n counts that class in the
\* input function: runtime, intrinsic and inline-asm calls, and the calls
\* the pass inserts itself, get none.
InstIdsDense ==
  phase = "done" =>
    \A j \in DOMAIN EligiblePos, c \in InstClasses :
      IdsOfClass(j - 1, c) = [n \in 1..SourceCount(input[EligiblePos[j]], c) |-> n - 1]

\* In the rewritten IR every load, store, branch and traced call is
\* immediately preceded by its hook (a load or store by its .bbtrace_inst
\* record and then on_mem), and every hook carries the func/bb/inst id
\* and kind of the descriptor entry of the instruction it precedes, so
\* the runtime's events resolve against the descriptor.
HooksMatchDescriptor ==
  phase = "done" /\ Instrumenting =>
    \A j \in DOMAIN EligiblePos :
      \A b \in DOMAIN funcs[EligiblePos[j]].blocks :
        LET B == funcs[EligiblePos[j]].blocks[b]
            D == DescEntries(j - 1)
            base == Len(Listed(FlattenSeq(SubSeq(funcs[EligiblePos[j]].blocks,
                                                 1, b - 1))))
            \* descriptor index of the listed instruction at position p
            pos(p) == base + Len(Listed(SubSeq(B, 1, p)))
            want == [mem |-> <<"rec", "mem">>, branch |-> <<"branch">>,
                     call |-> <<"retaddr", "call">>, none |-> <<>>]
        IN  /\ Len(Listed(B)) = Len(Listed(input[EligiblePos[j]].blocks[b]))
            /\ \A p \in DOMAIN B :
                 B[p].hook = "none" /\ ~IsBbtraceRuntimeCall(B[p]) =>
                   LET e == D[pos(p)]
                       w == want[SrcClass(B[p])]
                   IN  /\ KindClass(e.kind) = SrcClass(B[p])
                       /\ p > Len(w)
                       /\ \A q \in DOMAIN w :
                            LET h == B[p - Len(w) - 1 + q]
                            IN  /\ h.hook = w[q]
                                /\ h.hook # "retaddr" =>
                                     SubSeq(h.ids, 1, 3) = <<j - 1, b - 1, e.iid>>

\* LoopIds is filled by popping the back of a stack of loops; every block
\* must get on_basic_block with the id of its innermost loop (or
\* kInvalidLoopId), a loop header on_loop first, and both must agree with
\* the reverse-preorder numbering of the loop forest.
LoopHintsMatchReference ==
  phase = "done" /\ Instrumenting =>
    \A j \in DOMAIN EligiblePos :
      LET k == EligiblePos[j]
          F == input[k]
      IN  \A b \in DOMAIN F.blocks :
            LET n == FirstInsertionPt(F.blocks[b])
                E == RefEntryHooks(F, j - 1, k, b)
            IN  SubSeq(funcs[k].blocks[b], n + 1, n + Len(E)) = E

=============================================================================
