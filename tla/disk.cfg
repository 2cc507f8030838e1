SPECIFICATION FairSpec
CONSTANTS
  Drives <- MCDrives
  BootDrive = 0
  StaleIds <- MCStaleIds
  Geometry <- MCGeometry
  Requests <- MCRequests
  NOTHING = NOTHING
  TORN = TORN
INVARIANT DiskInv
INVARIANT TransientFaultsAbsorbed
PROPERTY CallsReturn
PROPERTY ImplementsDevice
