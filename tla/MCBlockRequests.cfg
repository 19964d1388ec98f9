SPECIFICATION RequestSpec
CONSTANTS
  SizeMax = 15
  Sizes = {1, 3, 8, 15}
  Alignments = {1, 4, 8}
  NewAlignment = 4
  Policies = {automatic, external}
  None = none
INVARIANTS
  RequestTypeOK
  LargeEnough
  RefusedOnlyIfTooLarge
  SymmetricRelease
