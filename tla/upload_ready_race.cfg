SPECIFICATION CalmSpec
CONSTANTS
  SlotSectors = 1
  SectorWords = 3
  WordBytes = 1
  ChunkWords = 2
  Word = {0, 1, 2, 3}
  Erased = 0
  Bootable = {2}
  CrcValue = {0, 1, 2, 3}
  NoTag = 3
  SizeInput = {0, 1, 2, 3}
  Crc <- MCCrc
  CMD_UPDATE = 1
  Image <- MCImage
  MaxRuns = 1
  MaxToHost = 2
INVARIANTS
  StartsAtAnyTime
