CONSTANTS
  IntIds <- MCIntIds
  Delegable <- MCDelegable
  ExcCodes <- MCExcCodes
  RvType = "RV64"
  Rvs = TRUE
  Smrnmi = FALSE
  INT_NMI = INT_NMI

SPECIFICATION Spec

INVARIANT TypeOK
 
PROPERTY HandlerStateNotClobbered
PROPERTY TrapReturnResumesContext
