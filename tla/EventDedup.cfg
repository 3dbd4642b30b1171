SPECIFICATION FairSpec
CONSTANTS
  Window = 3
  MaxOutstanding = 2
  Refusable = {1, 2, 3, 4}
  MaxEvents = 4
INVARIANTS
  TypeOK
  WindowExact
  AppliedOnce
PROPERTY Answered
