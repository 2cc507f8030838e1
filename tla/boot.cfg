SPECIFICATION FairSpec
CONSTANTS
  Images <- MCImages
  SectorsPerTrack = 18
  Heads = 2
  LastSlot = 16
  NOTHING = NOTHING
  NONE = NONE
INVARIANT BootInv
INVARIANT WholeStage2
INVARIANT EntersReady
PROPERTY BootDecides
