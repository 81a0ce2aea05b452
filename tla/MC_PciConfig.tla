---------------------------- MODULE MC_PciConfig ----------------------------
(* A PciEndpoint with one 32-bit memory BAR, one I/O BAR and four absent    *)
(* BARs, and the config accesses a guest driver makes while it sizes and   *)
(* programs the BARs, enables decoding and sets the power state of the      *)
(* power-management capability at 0x44 (offset PMCAPBaseOffset + 4).       *)
EXTENDS PciConfig

\* isCommonConfig: the common header, the capability pointer and the
\* interrupt line and pin (device.hh is not in the repository).
MCCommonOffsets == (0..\hF) \cup {\h34, \h3C, \h3D}

MCBarKind == [n \in 0..5 |-> CASE n = 0 -> "mem" [] n = 1 -> "io"
                                [] OTHER -> "none"]

\* PciMemBar and PciIoBar of 16 bytes: the address bits below the size read
\* as zero and the low bits as the BAR's flags; an absent BAR reads as 0.
MCBarWrite(n, v) ==
  CASE MCBarKind[n] = "mem" -> [v EXCEPT ![1] = (v[1] \div 16) * 16]
    [] MCBarKind[n] = "io" -> [v EXCEPT ![1] = (v[1] \div 16) * 16 + 1]
    [] OTHER -> <<0, 0, 0, 0>>

\* Header type 0, interrupt pin INTA, everything else zero.
MCInitConfig == [i \in 0..63 |-> IF i = \h3D THEN 1 ELSE 0]

Rd(o, s) == [op |-> "read", offset |-> o, size |-> s,
             data |-> [i \in 1..s |-> 0]]
Wr(o, d) == [op |-> "write", offset |-> o, size |-> Len(d), data |-> d]

MCAccesses ==
  { Wr(\h04, <<\h03, \h04>>),              \* memory + I/O decode, INTx off
    Wr(\h10, <<\hFF, \hFF, \hFF, \hFF>>),  \* size BAR0
    Wr(\h14, <<\h20, \h10, 0, 0>>),        \* place BAR1
    Wr(\h30, <<\hFE, \hFF, \hFF, \hFF>>),  \* size the expansion ROM
    Wr(\h3C, <<\h0B>>),                    \* interrupt line
    Wr(\h44, <<0, 0>>),                    \* PMCSR: power state D0
    Wr(\h48, <<1, 2, 3, 4>>),
    Rd(\h04, 2), Rd(\h3C, 4), Rd(\h40, 1) }
=============================================================================
