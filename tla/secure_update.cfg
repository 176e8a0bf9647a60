SPECIFICATION Spec
CONSTANTS
  ActiveSectors = {1}
  TagSector = 2
  FallbackFirst = 3
  SecureFirst = 6
  Sectors = 8
  ImageWords = 2
INVARIANTS
  NoFault
  RunsTrusted
PROPERTIES
  StaysBootable
  UpdateEnds
