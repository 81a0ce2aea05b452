---------------------------- MODULE MC_RiscvTrap ----------------------------
(* One RV64 hart with S-mode: the supervisor external interrupt, the      *)
(* machine timer and local interrupt 24 (major 40, which the AIA order     *)
(* ranks above MEI); the illegal-instruction exception.  M-level           *)
(* interrupts are not delegable (their mideleg bits are read-only zero).  *)
EXTENDS RiscvTrap

MCIntIds == {MTI, SEI, Local(24)}
MCDelegable == {SEI, Local(24)}
MCExcCodes == {2}
=============================================================================
