SPECIFICATION FairSpec
CONSTANTS
  Publishers = {p1, p2}
  Driver = Driver
  TermLength = 5
  FrameLengths = {2}
  InitialTermId = 100
  Window = 1
  CrashSteps = {"claimed", "payload", "rotate_count"}
  SlowSteps = {"claimed"}
  MaxClaims = 4
  MaxIncidents = 1
CHECK_DEADLOCK FALSE
INVARIANTS
  ClaimsTile
  TermsInStep
  DeliveredUnlessTakenOver
PROPERTY
  CatchesUp
