\* The clients of the code, started together with CodexFS.
SPECIFICATION FairSpec
CONSTANTS
  Bits = {0, 1, 2, 3, 4, 5, 6, 7}
  MaxBlocks = 63
  Documents <- WriteClientDocuments
  Wanted = 3
  MaxTampers = 0
PROPERTY ReaderFinishes
CHECK_DEADLOCK FALSE
