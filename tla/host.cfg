SPECIFICATION FairSpec
CONSTANTS
  SECTOR_SIZE = 3
  SectorsPerCluster = 2
  ReservedSectors = 2
  SectorsPerFat = 1
  FatCount = 1
  DirEntryCount = 6
  FAT_DATA_SIZE = 10
  MEMORY_FAT_SIZE = 20
  EndOfChain = 4088
  Fat <- MCFatTable
  Chain <- MCChain
  Name <- FatNames
  NAME_SIZE = 15
  Garbage <- MCGarbage
  Entry <- MCEntry
  VolumeSectors = 15
  ImageLengths = {2, 9, 15}
  LBA_RANGE = 18
  POSITION_RANGE = 24
  Arguments <- MCArguments
  ReadSize = 4
  ListMax = 2
  NULL = NULL
INVARIANT HostInv
INVARIANT DeliversFile
PROPERTY ReadsToTheEnd
