----------------------------- MODULE PciConfig -----------------------------
(***************************************************************************)
(* The configuration space of a gem5 PCI function (port_wrapper.hh):       *)
(* PciDevice::readConfig, PciDevice::writeConfig, the header-type specific *)
(* PciEndpoint::writeConfig (type 0) and PciBridge::writeConfig (type 1),  *)
(* getAddrRanges, the constructors, and the checkpoint (serialize and the  *)
(* unserialize of each header type).                                      *)
(*                                                                         *)
(* The guest issues config accesses one at a time; each is handled         *)
(* atomically (makeAtomicResponse), so an access is one action.  The       *)
(* 64-byte header _config.data is a function from offsets to bytes, and    *)
(* every switch of the writeConfig functions is a table from offsets to    *)
(* the field the case assigns.  Register offsets are the standard PCI      *)
(* header layout (pcireg.h is not in the repository).                      *)
(***************************************************************************)
EXTENDS Integers, Sequences, TLC

CONSTANTS
  Header,         \* "type0" for a PciEndpoint, "type1" for a PciBridge
  CommonOffsets,  \* the offsets isCommonConfig accepts (device.hh)
  BarKind,        \* BAR number -> "io", "mem" or "none" (the PciBar classes)
  BarWrite(_, _), \* PciBar::write(host, value): the value the BAR reads as
  InitConfig,     \* the 64 header bytes the constructor takes from params
  Accesses        \* the config accesses the guest may issue

Byte == 0..255
HeaderOffsets == 0..63                 \* sizeof(_config.data)
PCI_DEVICE_SPECIFIC == \h40
PCI_CONFIG_SIZE == \hFF

\* Offsets of the common header and of the two header types.
PCI_COMMAND == \h04
PCI_STATUS == \h06
PCI_REVISION_ID == \h08
PCI_SUB_CLASS_CODE == \h0A
PCI_CLASS_CODE == \h0B
PCI_CACHE_LINE_SIZE == \h0C
PCI_LATENCY_TIMER == \h0D
PCI_INTERRUPT_LINE == \h3C
PCI_INTERRUPT_PIN == \h3D
PCI0_ROM_BASE_ADDR == \h30
PCI1_ROM_BASE_ADDR == \h38
PCI0_MINIMUM_GRANT == \h3E
PCI0_MAXIMUM_LATENCY == \h3F

NumBars == IF Header = "type0" THEN 6 ELSE 2
BarIds == 0..NumBars - 1
BarOffset(n) == \h10 + 4 * n          \* PCIx_BASE_ADDRn
ROMOffset == IF Header = "type0" THEN PCI0_ROM_BASE_ADDR ELSE PCI1_ROM_BASE_ADDR

ASSUME Header \in {"type0", "type1"}
ASSUME CommonOffsets \subseteq HeaderOffsets
ASSUME BarKind \in [BarIds -> {"io", "mem", "none"}]
ASSUME InitConfig \in [HeaderOffsets -> Byte]
ASSUME \A a \in Accesses :
         /\ a.op \in {"read", "write"} /\ a.offset \in 0..PCI_CONFIG_SIZE
         /\ a.size \in Nat /\ a.data \in [1..a.size -> Byte]

\* The guest's data bytes of a packet, getLE<uintN_t>() for N = 8k.
GetLE(a, k) == [i \in 1..k |-> a.data[i]]

\* A case of a writeConfig switch: the field it assigns (offset and width),
\* how many bytes of the packet it takes, and whether it calls
\* pioPort.sendRangeChange().  A narrower value is zero-extended into the
\* field and a wider one truncated, as the C++ assignment does.
Set(at, width, get, announce) ==
  [at |-> at, width |-> width, get |-> get, announce |-> announce]

Store(c, s, val) ==
  [i \in HeaderOffsets |->
     IF s.at <= i /\ i < s.at + s.width
     THEN IF i - s.at + 1 <= Len(val) THEN val[i - s.at + 1] ELSE 0
     ELSE c[i]]

\* PciDevice::writeConfig for a common-header offset: the assignments of its
\* 8-, 16- and 32-bit switches, the read-only registers it ignores, and the
\* offsets where it panics "writing to a read only register".
DeviceSets ==
  [s \in {1, 2, 4} |->
     CASE s = 1 -> (PCI_INTERRUPT_LINE :> Set(PCI_INTERRUPT_LINE, 1, 1, FALSE))
                   @@ (PCI_CACHE_LINE_SIZE :> Set(PCI_CACHE_LINE_SIZE, 1, 1, FALSE))
                   @@ (PCI_LATENCY_TIMER :> Set(PCI_LATENCY_TIMER, 1, 1, FALSE))
       [] s = 2 -> (PCI_COMMAND :> Set(PCI_COMMAND, 2, 1, TRUE))
                   @@ (PCI_STATUS :> Set(PCI_STATUS, 2, 1, FALSE))
                   @@ (PCI_CACHE_LINE_SIZE :> Set(PCI_CACHE_LINE_SIZE, 1, 1, FALSE))
       [] s = 4 -> (PCI_COMMAND :> Set(PCI_COMMAND, 2, 4, TRUE))]
DeviceIgnores ==
  [s \in {1, 2, 4} |->
     CASE s = 1 -> {PCI_INTERRUPT_PIN, PCI_CLASS_CODE, PCI_REVISION_ID}
       [] s = 2 -> {}
       [] s = 4 -> 0..PCI_CONFIG_SIZE \ DOMAIN DeviceSets[4]]

\* The switches of PciEndpoint::writeConfig (BARs and the ROM handled apart).
EndpointSets == [s \in {1, 2, 4} |-> <<>>]
EndpointIgnores ==
  [s \in {1, 2, 4} |->
     CASE s = 1 -> {PCI0_MINIMUM_GRANT, PCI0_MAXIMUM_LATENCY}
       [] s = 2 -> {}
       [] s = 4 -> 0..PCI_CONFIG_SIZE
                      \ ({BarOffset(n) : n \in BarIds} \cup {ROMOffset})]

\* The switches of PciBridge::writeConfig.  The PCI1_SUB_BUS_NUM case
\* assigns _config.type1.subClassCode, the byte at PCI_SUB_CLASS_CODE.
BridgeSets ==
  [s \in {1, 2, 4} |->
     CASE s = 1 -> [o \in {\h18, \h19, \h1B, \h1C, \h1D} |->
                      Set(o, 1, 1, FALSE)]
                   @@ (\h1A :> Set(PCI_SUB_CLASS_CODE, 1, 1, FALSE))
       [] s = 2 -> [o \in {\h1E, \h20, \h22, \h24, \h26, \h30, \h32,
                           \h3E} |-> Set(o, 2, 2, FALSE)]
       [] s = 4 -> [o \in {\h28, \h2C} |-> Set(o, 4, 4, FALSE)]]
BridgeIgnores == [s \in {1, 2, 4} |-> {}]

-----------------------------------------------------------------------------
VARIABLES
  config,     \* _config.data, the 64 header bytes
  bar,        \* per BAR, the value its last PciBar::write was given
  announced,  \* the ranges the port last told its peer (sendRangeChange)
  ckpt,       \* the header bytes of the last checkpoint, or NoCkpt
  lastRead,   \* the data of the last read response
  panicked    \* gem5 stopped in panic()

vars == <<config, bar, announced, ckpt, lastRead, panicked>>

NoCkpt == <<>>
Zero == <<0, 0, 0, 0>>

\* The bytes that follow _config in the object: what a read past the header
\* returns is whatever is stored there, zero or not.
Garbage == {0, \hFF}

BarReg(c, n) == [i \in 1..4 |-> c[BarOffset(n) + i - 1]]
\* The unserialize loop: every BAR written with its restored register.
RestoredBars(c) == [n \in BarIds |-> BarReg(c, n)]

IoSpace(c) == c[PCI_COMMAND] % 2 = 1
MemSpace(c) == (c[PCI_COMMAND] \div 2) % 2 = 1

\* getAddrRanges: a range per BAR whose space the command register enables.
AddrRanges(c, b) ==
  {<<n, BarWrite(n, b[n])>> :
     n \in {k \in BarIds : \/ IoSpace(c) /\ BarKind[k] = "io"
                           \/ MemSpace(c) /\ BarKind[k] = "mem"}}

\* The result of a write: the header, the BARs, and whether it announced.
Outcome(c, b, announce) ==
  [panic |-> FALSE, config |-> c, bar |-> b, announce |-> announce]
Panic == [panic |-> TRUE, config |-> config, bar |-> bar, announce |-> FALSE]

\* A switch: assign the case's field, ignore a read-only register, or panic.
SwitchResult(a, sets, ignores) ==
  IF a.offset \in DOMAIN sets
  THEN LET s == sets[a.offset]
       IN  Outcome(Store(config, s, GetLE(a, s.get)), bar, s.announce)
  ELSE IF a.offset \in ignores THEN Outcome(config, bar, FALSE) ELSE Panic

\* The BAR cases: the register reads as what bar->write returns.
BarResult(a) ==
  LET n == (a.offset - \h10) \div 4
      v == GetLE(a, 4)
  IN  Outcome(Store(config, Set(a.offset, 4, 4, TRUE), BarWrite(n, v)),
              [bar EXCEPT ![n] = v], TRUE)

\* The ROM cases: writing 0xfffffffe stores 0xffffffff.
ROMResult(a) ==
  LET v == IF GetLE(a, 4) = <<\hFE, \hFF, \hFF, \hFF>>
           THEN <<\hFF, \hFF, \hFF, \hFF>> ELSE GetLE(a, 4)
  IN  Outcome(Store(config, Set(a.offset, 4, 4, FALSE), v), bar, FALSE)

\* PciEndpoint::writeConfig or PciBridge::writeConfig past the common
\* header.  The device-specific branch only checks the size and then falls
\* through into the switch, as every other offset does.
TypeResult(a) ==
  IF a.size = 4 /\ a.offset \in {BarOffset(n) : n \in BarIds}
  THEN BarResult(a)
  ELSE IF a.size = 4 /\ a.offset = ROMOffset THEN ROMResult(a)
  ELSE IF Header = "type0"
  THEN SwitchResult(a, EndpointSets[a.size], EndpointIgnores[a.size])
  ELSE SwitchResult(a, BridgeSets[a.size], BridgeIgnores[a.size])

WriteResult(a) ==
  IF a.size \notin {1, 2, 4} THEN Panic
  ELSE IF a.offset \in CommonOffsets
  THEN SwitchResult(a, DeviceSets[a.size], DeviceIgnores[a.size])
  ELSE TypeResult(a)

-----------------------------------------------------------------------------
\* The constructors: the header from params, then every BAR written with 0
\* and its register set to what write returns.
ConstructedConfig ==
  [i \in HeaderOffsets |->
     IF \E n \in BarIds : i \in BarOffset(n)..BarOffset(n) + 3
     THEN LET n == (i - \h10) \div 4
          IN  BarWrite(n, Zero)[i - BarOffset(n) + 1]
     ELSE InitConfig[i]]

\* The bus asks for the ranges when the port is bound.
Init ==
  LET b == [n \in BarIds |-> Zero]
  IN  /\ config = ConstructedConfig
      /\ bar = b
      /\ announced = AddrRanges(ConstructedConfig, b)
      /\ ckpt = NoCkpt
      /\ lastRead = <<>>
      /\ panicked = FALSE

\* PciDevice::readConfig.  The branch for device-specific offsets sets the
\* response to 0 and then falls through to the switch, which reads
\* _config.data[offset] whatever the offset.
readConfig(a) ==
  /\ ~panicked
  /\ a.op = "read"
  /\ IF a.size \notin {1, 2, 4}
     THEN panicked' = TRUE /\ UNCHANGED lastRead
     ELSE /\ \E g \in [1..a.size -> Garbage] :
               lastRead' = [i \in 1..a.size |->
                              IF a.offset + i - 1 \in HeaderOffsets
                              THEN config[a.offset + i - 1] ELSE g[i]]
          /\ UNCHANGED panicked
  /\ UNCHANGED <<config, bar, announced, ckpt>>

\* writeConfig of the function's header type.
writeConfig(a) ==
  /\ ~panicked
  /\ a.op = "write"
  /\ LET r == WriteResult(a)
     IN  /\ panicked' = r.panic
         /\ config' = r.config
         /\ bar' = r.bar
         /\ announced' = IF r.announce THEN AddrRanges(r.config, r.bar)
                         ELSE announced
  /\ lastRead' = <<>>
  /\ UNCHANGED ckpt

\* PciDevice::serialize: the header bytes (the capability structures are
\* never written after construction, so they restore to the same values).
serialize ==
  /\ ~panicked
  /\ ckpt' = config
  /\ UNCHANGED <<config, bar, announced, lastRead, panicked>>

\* PciEndpoint::unserialize and PciBridge::unserialize: the header, then
\* every BAR written with its register's value, then a range change.
unserialize ==
  /\ ~panicked
  /\ ckpt # NoCkpt
  /\ LET b == RestoredBars(ckpt)
     IN  /\ config' = ckpt
         /\ bar' = b
         /\ announced' = AddrRanges(ckpt, b)
  /\ UNCHANGED <<ckpt, lastRead, panicked>>

Next ==
  \/ \E a \in Accesses : readConfig(a) \/ writeConfig(a)
  \/ serialize
  \/ unserialize

Spec == Init /\ [][Next]_vars

-----------------------------------------------------------------------------
TypeOK ==
  /\ config \in [HeaderOffsets -> Byte]
  /\ bar \in [BarIds -> [1..4 -> Byte]]
  /\ ckpt \in [HeaderOffsets -> Byte] \cup {NoCkpt}
  /\ lastRead \in Seq(Byte)
  /\ panicked \in BOOLEAN

\* The comments of readConfig and writeConfig: "Return 0 for accesses to
\* unimplemented PCI configspace areas" and "No effect if we write to config
\* space that is not implemented".  An access of a valid size at a device-
\* specific offset reads as zero, and a write there neither panics nor
\* changes the header, the BARs or the announced ranges.
UnimplementedSpaceInert ==
  [][\A a \in Accesses :
       /\ a.offset >= PCI_DEVICE_SPECIFIC /\ a.size \in {1, 2, 4}
       /\ readConfig(a) \/ writeConfig(a)
       => /\ ~panicked'
          /\ a.op = "read" => lastRead' = [i \in 1..a.size |-> 0]
          /\ a.op = "write" => UNCHANGED <<config, bar, announced>>]_vars
=============================================================================
