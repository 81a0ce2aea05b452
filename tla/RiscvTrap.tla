------------------------------ MODULE RiscvTrap ------------------------------
(***************************************************************************)
(* Interrupt selection and trap entry of a gem5 RISC-V hart in full-system *)
(* mode: Interrupts::globalMask, getInterrupt, post, clear, clearAll and   *)
(* raiseInterruptPin (arch/riscv/interrupts.cc), RiscvFault::invoke and    *)
(* Reset::invoke (arch/riscv/faults.cc).  The hypervisor extension is off  *)
(* (misa.rvh = 0), so the V-mode branches are not part of this model.      *)
(*                                                                         *)
(* Devices post and clear interrupts at any time; the CPU, between two     *)
(* instructions, asks getInterrupt for the interrupt to take and invokes   *)
(* it; the running software raises exceptions, re-enables interrupts and   *)
(* returns from handlers with MRET/SRET.  Those instructions and the CSR   *)
(* writes are executed by code outside this repository (the ISA decoder),  *)
(* so they are environment actions written from the privileged spec.  The *)
(* pc, tval, tvec, the handler address and the load reservation invoke    *)
(* clears are left out: no property reads them.                            *)
(***************************************************************************)
EXTENDS Integers, Sequences, SequencesExt, FiniteSets

CONSTANTS
  IntIds,      \* the interrupt ids the hart's devices raise
  ExcCodes,    \* the exception codes the software may raise
  Delegable,   \* the mideleg bits M-mode firmware may set
  RvType,      \* "RV64" or "RV32": selects getInterrupt's order
  Rvs,         \* misa.rvs: S-mode present
  Smrnmi,      \* isa->enableSmrnmi(): resumable NMIs
  INT_NMI      \* the int_num post() and clear() take for the NMI

\* Interrupt numbers (arch/riscv/interrupts.hh).
SSI == 1
VSSI == 2
MSI == 3
STI == 5
VSTI == 6
MTI == 7
SEI == 9
VSEI == 10
MEI == 11
SGEI == 12
Local(k) == 16 + k
AllLocals == {Local(k) : k \in 0..47}

Priv == {"U", "S", "M"}
Rank == [U |-> 0, S |-> 1, M |-> 3]

NoFault == [kind |-> "none", code |-> 0]
Fault == [kind : {"int", "exc", "nmi"}, code : Nat]
Cause == [interrupt : BOOLEAN, code : Nat]

VARIABLES
  prv,          \* MISCREG_PRV
  status,       \* MISCREG_STATUS: mie, sie, mpie, spie, mpp, spp
  mnpp,         \* MISCREG_MNSTATUS.mnpp
  cause,        \* cause["M"], cause["S"], cause["MN"]: mcause, scause, mncause
  mideleg,      \* MISCREG_MIDELEG, set once by M-mode firmware
  medeleg,      \* MISCREG_MEDELEG, likewise
  ip,           \* Interrupts::ip
  ie,           \* Interrupts::ie
  nmiPending,   \* the NMI line (postNMI / clearNMI)
  nmie,         \* MISCREG_NMIE
  live,         \* history: live[x], x's handler has not consumed x's state
  entry         \* history: entry[x], the mode and xIE the last trap into x left

vars == <<prv, status, mnpp, cause, mideleg, medeleg, ip, ie, nmiPending,
          nmie, live, entry>>

\* entry[x] before any trap into x, and after x's handler returned.
NoEntry == [mode |-> "none", ie |-> FALSE]

Status == [mie : BOOLEAN, sie : BOOLEAN, mpie : BOOLEAN, spie : BOOLEAN,
           mpp : Priv, spp : {"U", "S"}]

\* Reset::invoke: M-mode, mstatus.MIE = 0, mcause = 0.  The rest of the
\* state is what the boot firmware leaves: delegation and enables chosen
\* once, nothing pending.
Init ==
  /\ prv = "M"
  /\ status = [mie |-> FALSE, sie |-> FALSE, mpie |-> FALSE, spie |-> FALSE,
               mpp |-> "U", spp |-> "U"]
  /\ mnpp = "U"
  /\ cause = [r \in {"M", "S", "MN"} |-> [interrupt |-> FALSE, code |-> 0]]
  /\ mideleg \in SUBSET Delegable
  /\ medeleg \in SUBSET ExcCodes
  /\ ip = {}
  /\ ie = IntIds
  /\ nmiPending = FALSE
  /\ nmie = TRUE
  /\ live = [x \in {"M", "S"} |-> FALSE]
  /\ entry = [x \in {"M", "S"} |-> NoEntry]
-----------------------------------------------------------------------------
(* Interrupts::globalMask, one operator per privilege mode (rvh = 0).      *)

\* PRV_U: every interrupt is enabled.
MaskU == AllLocals \cup {MEI, MTI, MSI, SEI, STI, SSI}

\* PRV_S: an M-level or local interrupt is enabled unless it is delegated
\* and sstatus.SIE is clear; SEI/STI/SSI only when SIE is set.
MaskS(deleg) ==
  {i \in AllLocals \cup {MEI, MTI, MSI} : i \notin deleg \/ status.sie}
    \cup (IF status.sie THEN {SEI, STI, SSI} ELSE {})

\* PRV_M: locals and MEI/MTI/MSI when mstatus.MIE is set; never SEI/STI/SSI.
MaskM == IF status.mie THEN AllLocals \cup {MEI, MTI, MSI} ELSE {}

\* mideleg reads as 0 without S-mode.
GlobalMask ==
  LET deleg == IF Rvs THEN mideleg ELSE {}
  IN  CASE prv = "U" -> MaskU
        [] prv = "S" -> MaskS(deleg)
        [] prv = "M" -> MaskM

\* getInterrupt's interrupt_order: locals from the highest down, then the
\* standard interrupts (AIA Table 5.1).
Locals(n) == [i \in 1..n |-> Local(n - i)]

InterruptOrder ==
  IF RvType = "RV64"
  THEN Locals(48) \o <<MEI, MSI, MTI, SEI, SSI, STI, SGEI, VSEI, VSSI, VSTI>>
  ELSE Locals(16) \o <<MEI, MSI, MTI, SEI, SSI, STI>>

\* checkInterrupt and checkNonMaskableInterrupt (interrupts.hh, not in
\* the repository): pending and enabled.
CheckInterrupt(id) == id \in ip /\ id \in ie
CheckNonMaskableInterrupt == nmiPending /\ nmie

\* getInterrupt: the NMI first, else the first interrupt of the order that
\* is pending, enabled in ie and unmasked; NoFault if there is none.
GetInterrupt ==
  IF CheckNonMaskableInterrupt THEN [kind |-> "nmi", code |-> 0]
  ELSE LET m == GlobalMask
           c == SelectSeq(InterruptOrder,
                          LAMBDA id : CheckInterrupt(id) /\ id \in m)
       IN  IF c = <<>> THEN NoFault ELSE [kind |-> "int", code |-> Head(c)]

-----------------------------------------------------------------------------
(* RiscvFault::invoke, full-system and rvh = 0.                            *)

\* Fault variant: delegation honoured from M-mode too.
TrapTargetFromM(pp, f) ==
  IF f.kind = "nmi" THEN "M"
  ELSE IF Rvs /\ f.code \in (IF f.kind = "int" THEN mideleg ELSE medeleg)
       THEN "S" ELSE "M"

\* The handler's privilege: an NMI goes to M; an interrupt or exception
\* goes to S when it is delegated and the hart is not in M.
TrapTarget(pp, f) ==
  IF f.kind = "nmi" THEN "M"
  ELSE IF /\ pp # "M"
          /\ Rvs
          /\ f.code \in (IF f.kind = "int" THEN mideleg ELSE medeleg)
       THEN "S" ELSE "M"

\* isResumableNonMaskableInterrupt (faults.hh): an NMI with Smrnmi.
IsRnmi(f) == Smrnmi /\ f.kind = "nmi"

\* _cause: the code, with the interrupt bit for an interrupt (an NMI is not
\* one: isInterrupt() is false for it).
CauseOf(f) == [interrupt |-> f.kind = "int", code |-> f.code]

\* case PRV_S: scause, and the SPP/SPIE/SIE stack.
TrapToS(pp, c) ==
  /\ cause' = [cause EXCEPT !["S"] = c]
  /\ status' = [status EXCEPT !.spp = pp, !.spie = status.sie, !.sie = FALSE]
  /\ UNCHANGED mnpp

\* case PRV_M with a resumable NMI: mncause and mnstatus.MNPP only.
TrapToMN(pp, c) ==
  /\ cause' = [cause EXCEPT !["MN"] = c]
  /\ mnpp' = pp
  /\ UNCHANGED status

\* Fault variant: MIE left set on entry.
TrapToMNoMieClear(pp, c) ==
  /\ cause' = [cause EXCEPT !["M"] = c]
  /\ status' = [status EXCEPT !.mpp = pp, !.mpie = status.mie]
  /\ UNCHANGED mnpp

\* Fault variant: MIE cleared before it is copied to MPIE.
TrapToMClearFirst(pp, c) ==
  /\ cause' = [cause EXCEPT !["M"] = c]
  /\ status' = [status EXCEPT !.mpp = pp, !.mpie = FALSE, !.mie = FALSE]
  /\ UNCHANGED mnpp

\* case PRV_M: mcause, and the MPP/MPIE/MIE stack.
TrapToM(pp, c) ==
  /\ cause' = [cause EXCEPT !["M"] = c]
  /\ status' = [status EXCEPT !.mpp = pp, !.mpie = status.mie, !.mie = FALSE]
  /\ UNCHANGED mnpp

\* The registers whose trap state a trap of f into `to` overwrites.
Written(f, to) ==
  IF to = "S" THEN {"S"} ELSE IF IsRnmi(f) THEN {} ELSE {"M"}

\* The end of invoke: the new privilege, and NMIE cleared after an NMI so
\* that checkNonMaskableInterrupt stops returning it.
Commit(f, to) ==
  /\ prv' = to
  /\ nmie' = IF f.kind = "nmi" THEN FALSE ELSE nmie

\* invoke: pick the handler mode, stack the status bits, write the cause,
\* switch privilege, mask further NMIs after an NMI.  live and entry
\* record, for each mode whose trap state was written, that its handler
\* now owns it and where the trap came from.
Invoke(f) ==
  LET pp == prv
      to == TrapTarget(pp, f)
      c  == CauseOf(f)
      w  == Written(f, to)
  IN  /\ CASE to = "S"  -> TrapToS(pp, c)
           [] IsRnmi(f) -> TrapToMN(pp, c)
           [] OTHER     -> TrapToM(pp, c)
      /\ Commit(f, to)
      /\ live' = [x \in DOMAIN live |-> x \in w \/ live[x]]
      /\ entry' = [x \in DOMAIN entry |->
                     IF x \in w
                     THEN [mode |-> pp,
                           ie |-> IF x = "M" THEN status.mie ELSE status.sie]
                     ELSE entry[x]]

-----------------------------------------------------------------------------
(* Actions.                                                                *)

\* The CPU, between two instructions: if getInterrupt returns a fault,
\* invoke it.  Pending bits stay set: a device clears its own line.
TakeInterrupt ==
  LET f == GetInterrupt
  IN  /\ f # NoFault
      /\ Invoke(f)
      /\ UNCHANGED <<mideleg, medeleg, ip, ie, nmiPending>>

\* The running instruction raises exception e.  A handler does not fault
\* before it has saved its trap state (environment assumption).
RaiseException(e) ==
  /\ IF prv = "U" THEN TRUE ELSE ~live[prv]
  /\ Invoke([kind |-> "exc", code |-> e])
  /\ UNCHANGED <<mideleg, medeleg, ip, ie, nmiPending>>

OnlyLinesChange ==
  UNCHANGED <<prv, status, mnpp, cause, mideleg, medeleg, ie, nmie, live, entry>>

\* Interrupts::post: set the pending bit, or postNMI.
Post(int_num) ==
  /\ IF int_num # INT_NMI
     THEN ip' = ip \cup {int_num} /\ UNCHANGED nmiPending
     ELSE nmiPending' = TRUE /\ UNCHANGED ip
  /\ OnlyLinesChange

\* Interrupts::clear: clear the pending bit, or clearNMI.
Clear(int_num) ==
  /\ IF int_num # INT_NMI
     THEN ip' = ip \ {int_num} /\ UNCHANGED nmiPending
     ELSE nmiPending' = FALSE /\ UNCHANGED ip
  /\ OnlyLinesChange

\* Interrupts::clearAll.
ClearAll ==
  /\ ip' = {}
  /\ nmiPending' = FALSE
  /\ OnlyLinesChange

\* Interrupts::raiseInterruptPin: a local pin posts interrupt num + 16.
RaiseInterruptPin(num) == Post(num + 16)

\* Software (environment): a CSR write of mstatus.MIE in M-mode or of
\* sstatus.SIE in S-mode.  Setting the bit means the handler has saved
\* what it needs of its trap state.
WriteIE(b) ==
  LET x == prv
  IN  /\ x \in {"M", "S"}
      /\ status' = IF x = "M" THEN [status EXCEPT !.mie = b]
                               ELSE [status EXCEPT !.sie = b]
      /\ live' = IF b THEN [live EXCEPT ![x] = FALSE] ELSE live
      /\ UNCHANGED <<prv, mnpp, cause, mideleg, medeleg, ip, ie, nmiPending,
                     nmie, entry>>

\* Software (environment): MRET, per the privileged spec.  Handlers nest:
\* M-mode does not return below an S-mode handler that is still running.
Mret ==
  /\ prv = "M"
  /\ Rank[status.mpp] < Rank["S"] => ~live["S"]
  /\ prv' = status.mpp
  /\ status' = [status EXCEPT !.mie = status.mpie, !.mpie = TRUE, !.mpp = "U"]
  /\ live' = [live EXCEPT !["M"] = FALSE]
  /\ entry' = [entry EXCEPT !["M"] = NoEntry]
  /\ UNCHANGED <<mnpp, cause, mideleg, medeleg, ip, ie, nmiPending, nmie>>

\* Software (environment): SRET, per the privileged spec, executed by an
\* S-mode handler (an M-mode handler returns with MRET).
Sret ==
  /\ prv = "S"
  /\ prv' = status.spp
  /\ status' = [status EXCEPT !.sie = status.spie, !.spie = TRUE, !.spp = "U"]
  /\ live' = [live EXCEPT !["S"] = FALSE]
  /\ entry' = [entry EXCEPT !["S"] = NoEntry]
  /\ UNCHANGED <<mnpp, cause, mideleg, medeleg, ip, ie, nmiPending, nmie>>

Next ==
  \/ TakeInterrupt
  \/ \E e \in ExcCodes : RaiseException(e)
  \/ \E n \in (IntIds \ AllLocals) \cup {INT_NMI} : Post(n) \/ Clear(n)
  \/ \E k \in {i - 16 : i \in IntIds \cap AllLocals} :
       RaiseInterruptPin(k) \/ Clear(k + 16)
  \/ ClearAll
  \/ \E b \in BOOLEAN : WriteIE(b)
  \/ Mret \/ Sret

Spec == Init /\ [][Next]_vars

-----------------------------------------------------------------------------
TypeOK ==
  /\ prv \in Priv
  /\ status \in Status
  /\ mnpp \in Priv
  /\ cause \in [{"M", "S", "MN"} -> Cause]
  /\ mideleg \subseteq Delegable /\ medeleg \subseteq ExcCodes
  /\ ip \subseteq IntIds /\ ie \subseteq IntIds
  /\ nmiPending \in BOOLEAN /\ nmie \in BOOLEAN
  /\ live \in [{"M", "S"} -> BOOLEAN]
  /\ entry \in [{"M", "S"} -> {NoEntry} \cup [mode : Priv, ie : BOOLEAN]]

\* The AIA's default priority order (Table 5.1, which getInterrupt's
\* comment cites), highest first, by major interrupt number.  Locals 40-47
\* and 20-23 rank above MEI, and locals 32-39 and 16-19 below VSTI.  Major
\* numbers 24-31 and 48-63 are for custom use and have no rank in it.
AIAOrder ==
  <<47, 23, 46, 45, 22, 44, 43, 21, 42, 41, 20, 40,
    MEI, MSI, MTI, SEI, SSI, STI, SGEI, VSEI, VSSI, VSTI,
    13, 39, 19, 38, 37, 18, 36, 35, 17, 34, 33, 16, 32>>
Ranked == ToSet(AIAOrder)
Priority(i) == Len(AIAOrder) + 1 - (CHOOSE k \in DOMAIN AIAOrder : AIAOrder[k] = i)

\* The interrupts an RVxx hart can take at all: RV32 has 16 locals and no
\* H-extension interrupts.
Takeable(i) ==
  RvType = "RV64" \/ i \in {Local(k) : k \in 0..15} \cup {MEI, MSI, MTI, SEI, SSI, STI}

\* The mode whose trap state a step left written, and the code in it.
TakenCode == IF prv' = "S" THEN cause'["S"].code ELSE cause'["M"].code

Saved(x) ==
  IF x = "M" THEN <<cause["M"], status.mpp, status.mpie>>
             ELSE <<cause["S"], status.spp, status.spie>>

\* invoke clears MIE (SIE) and globalMask masks by it, so no interrupt is
\* taken into a mode whose handler has not yet saved its trap state
\* (returned, or set xIE again), and that state is never overwritten by an
\* interrupt.  The one exception is the non-resumable NMI, which invoke
\* warns "NMI overwriting M-mode trap handler state" about.
HandlerStateNotClobbered ==
  [][TakeInterrupt /\ ~(CheckNonMaskableInterrupt /\ ~Smrnmi) =>
       \A x \in {"M", "S"} : live[x] => Saved(x)' = Saved(x)]_vars

\* The stack invoke pushes is the one MRET and SRET pop: returning from
\* the last trap into x resumes the mode the trap interrupted, with x's
\* interrupt enable as it was then, across nested traps, delegation and
\* re-enabled interrupts.
TrapReturnResumesContext ==
  [][/\ Mret /\ entry["M"] # NoEntry =>
          prv' = entry["M"].mode /\ status'.mie = entry["M"].ie
     /\ Sret /\ entry["S"] # NoEntry =>
          prv' = entry["S"].mode /\ status'.sie = entry["S"].ie]_vars

=============================================================================
