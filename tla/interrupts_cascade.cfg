SPECIFICATION FairSpec
CONSTANTS
  Lines <- MCLines
  DriverLines <- MCDriverLines
  HookedLines <- MCHookedLines
  Faults <- MCFaults
  IsrHooks <- MCIsrHooks
  MAX_CONTEXTS = 2
  MAX_NMIS = 1
PROPERTY UnmaskingIsEnough
