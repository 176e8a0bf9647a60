SPECIFICATION FairSpec
CONSTANTS
  SlotSectors = 2
  SectorWords = 2
  WordBytes = 2
  ChunkWords = 3
  Word = {0, 1, 2}
  Erased = 0
  Bootable = {1}
  CrcValue = {0, 1, 2}
  NoTag = 2
  SizeInput = {0, 1, 5, 6, 7, 8, 9}
  Crc <- MCCrc
INVARIANTS
  RunsValidImage
  WriteOnce
  ChunkFits
  UnsealedUntilSeal
  AcceptedIsDelivered
  LockedOutsideWriting
PROPERTIES
  LockedIsImmutable
  SessionEnds
  KeepsPromise
