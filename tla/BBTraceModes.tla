------------------------------ MODULE BBTraceModes ------------------------------
(***************************************************************************)
(* The same input module compiled twice: once instrumented and once with  *)
(* BBTRACE_STATIC_ONLY set.  Static-only builds are the "witness" builds  *)
(* whose descriptor and .bbtrace_map are meant to be interchangeable with *)
(* the instrumented build's (spec section 8, item 7).  The two compiles   *)
(* are independent processes; the static-only one runs after the          *)
(* instrumented one, which loses nothing since only their outputs are    *)
(* compared.                                                              *)
(***************************************************************************)
EXTENDS Naturals, Sequences

CONSTANTS Inputs, kInvalidLoopId

VARIABLES
  iInput, iStaticOnly, iFuncs, iCtors, iPhase, iFi, iBi, iFuncId,
  iNextFuncId, iLoopIds, iNextInstId, iInfo, iDone, iTodo, iStaticInfos,
  iPcInfos, iInstRecords, iDescFile, iPcMap,
  sInput, sStaticOnly, sFuncs, sCtors, sPhase, sFi, sBi, sFuncId,
  sNextFuncId, sLoopIds, sNextInstId, sInfo, sDone, sTodo, sStaticInfos,
  sPcInfos, sInstRecords, sDescFile, sPcMap

Inst == INSTANCE BBTracePass WITH
         input <- iInput, staticOnly <- iStaticOnly, funcs <- iFuncs,
         ctors <- iCtors, phase <- iPhase, fi <- iFi, bi <- iBi,
         funcId <- iFuncId, nextFuncId <- iNextFuncId, loopIds <- iLoopIds,
         nextInstId <- iNextInstId, info <- iInfo, done <- iDone,
         todo <- iTodo, staticInfos <- iStaticInfos, pcInfos <- iPcInfos,
         instRecords <- iInstRecords, descFile <- iDescFile, pcMap <- iPcMap
Stat == INSTANCE BBTracePass WITH
         input <- sInput, staticOnly <- sStaticOnly, funcs <- sFuncs,
         ctors <- sCtors, phase <- sPhase, fi <- sFi, bi <- sBi,
         funcId <- sFuncId, nextFuncId <- sNextFuncId, loopIds <- sLoopIds,
         nextInstId <- sNextInstId, info <- sInfo, done <- sDone,
         todo <- sTodo, staticInfos <- sStaticInfos, pcInfos <- sPcInfos,
         instRecords <- sInstRecords, descFile <- sDescFile, pcMap <- sPcMap

ivars == <<iInput, iStaticOnly, iFuncs, iCtors, iPhase, iFi, iBi, iFuncId, iNextFuncId,
           iLoopIds, iNextInstId, iInfo, iDone, iTodo, iStaticInfos, iPcInfos,
           iInstRecords, iDescFile, iPcMap>>
svars == <<sInput, sStaticOnly, sFuncs, sCtors, sPhase, sFi, sBi, sFuncId, sNextFuncId,
           sLoopIds, sNextInstId, sInfo, sDone, sTodo, sStaticInfos, sPcInfos,
           sInstRecords, sDescFile, sPcMap>>

Init ==
  /\ Inst!Init
  /\ sInput = iInput
  /\ Stat!Init
  /\ iStaticOnly = FALSE /\ sStaticOnly = TRUE

Next ==
  \/ Inst!Next /\ UNCHANGED svars
  \/ iPhase = "done" /\ Stat!Next /\ UNCHANGED ivars

Spec == Init /\ [][Next]_<<ivars, svars>>

BothDone == iPhase = "done" /\ sPhase = "done"

\* A descriptor entry without its printed text.
Ids(e) == [kind |-> e.kind, iid |-> e.iid, targets |-> e.targets]
IdsOnly(infos) ==
  [i \in DOMAIN infos |->
     [fid |-> infos[i].fid, bid |-> infos[i].bid,
      insts |-> [j \in DOMAIN infos[i].insts |-> Ids(infos[i].insts[j])]]]

\* Each compile on its own keeps the pass's invariants (BBTracePass): the
\* instrumenting compile and the static-only one both type-check, list
\* every eligible block once, number instructions densely, and (when
\* instrumenting) insert hooks that match the descriptor and the loop
\* numbering.
TypeOK == Inst!TypeOK /\ Stat!TypeOK

\* dumpBasicBlockInfo and emitPcMap list every eligible block once, in
\* order, in both compiles.
BlockEnumeration == Inst!BlockEnumeration /\ Stat!BlockEnumeration

\* Instruction ids are dense per class in both compiles.
InstIdsDense == Inst!InstIdsDense /\ Stat!InstIdsDense

\* The instrumenting compile's hooks carry the ids and kinds of the
\* descriptor entries of the instructions they precede.
HooksMatchDescriptor == Inst!HooksMatchDescriptor

\* The instrumenting compile's loop hints agree with the reverse-preorder
\* numbering of the loop forest.
LoopHintsMatchReference == Inst!LoopHintsMatchReference

\* Both builds number the same functions, blocks and instructions alike:
\* equal .bbtrace_map, equal .bbtrace_inst records and descriptors that
\* agree on every func/bb/inst id, kind and target, although only the
\* instrumented build appends ctor/dtor and hook declarations to the
\* function list and puts hook calls (to __bbtrace_ functions) into the
\* blocks it is walking.
ModesAgreeOnIds ==
  BothDone =>
    /\ iPcMap = sPcMap
    /\ iInstRecords = sInstRecords
    /\ IdsOnly(iStaticInfos) = IdsOnly(sStaticInfos)

\* Spec section 8 item 7 and scenario F: the descriptor written in
\* static-only mode is byte-identical to the instrumented one, printed
\* instruction text included.
DescriptorsIdentical ==
  BothDone => iStaticInfos = sStaticInfos
=============================================================================
