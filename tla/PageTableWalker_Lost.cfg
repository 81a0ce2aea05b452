CONSTANTS
  r1 = r1
  r2 = r2
  r3 = r3
  pA = pA
  pB = pB
  Reqs <- MCReqs
  Page <- MCPage
  NonCanonicalChoices = {{r2}}
  Levels = 2
  NumSquashable = 1
  MaxRefusals = 1

SPECIFICATION Spec

\* The walker idles once every request has been answered.
CHECK_DEADLOCK FALSE

PROPERTY EveryRequestAnswered
