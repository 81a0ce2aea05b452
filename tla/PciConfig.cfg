CONSTANTS
  Header = "type0"
  CommonOffsets <- MCCommonOffsets
  BarKind <- MCBarKind
  BarWrite <- MCBarWrite
  InitConfig <- MCInitConfig
  Accesses <- MCAccesses

SPECIFICATION Spec
CHECK_DEADLOCK FALSE

PROPERTY UnimplementedSpaceInert
