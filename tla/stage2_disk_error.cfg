SPECIFICATION Stage2Spec
CONSTANTS
  SECTOR_SIZE = 2
  SectorsPerCluster = 2
  ReservedSectors = 1
  SectorsPerFat = 1
  FatCount = 1
  DirEntryCount = 4
  FAT_DATA_SIZE = 10
  MEMORY_FAT_SIZE = 20
  MAX_FILE_HANDLES = 2
  EndOfChain = 4088
  Fat <- MCFatTable
  Chain <- MCChain
  Name <- MCName
  Spellings <- MCSpellings
  Entry <- MCEntry
  Paths <- MCPaths
  ReadSizes <- MCReadSizes
  BadSectors <- MCSectors
  TORN = TORN
  KernelPath <- MCKernelPath
  MEMORY_LOAD_SIZE = 8
  COUNT_RANGE = 8
INVARIANT StartsOnlyWholeKernel
