\* A store with room for two of the three records, and one changed byte.
SPECIFICATION FairSpec
CONSTANTS
  Bits = {0, 1, 2, 3, 6}
  MaxBlocks = 2
  Documents <- WriteClientDocuments
  Wanted = 2
  MaxTampers = 1
INVARIANTS
  TypeOK
  DamageShows
  VerdictIsSound
PROPERTIES
  AppendOnly
  LateWriterIsRead
CHECK_DEADLOCK FALSE
