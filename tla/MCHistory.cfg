\* Four rows, two changes by hand at any time, and one verification.
CONSTANTS
  Payloads = {a, b}
  OtherPayload = x
  MaxEvents = 4
  MaxChanges = 2
SPECIFICATION Spec
SYMMETRY PayloadSymmetry
INVARIANTS LoopComputesVerification BlamesTheFirstWronged
\* One verification is enough, and rows and changes run out.
CHECK_DEADLOCK FALSE
