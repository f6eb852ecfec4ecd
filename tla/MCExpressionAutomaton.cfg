CONSTANTS
  a = a
  b = b
  Char <- MCChar
  Entries <- MCEntries
  Chunks <- MCChunks
  MaxPattern = 3
  MaxEntries = 3
  MaxRead = 4
SPECIFICATION FairSpec
INVARIANTS ListsComplete
PROPERTIES CallsEnd Implements
