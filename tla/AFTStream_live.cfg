CONSTANTS
  Prefixes = {p1}
  Groups = {g1}
  Hops = {h1}
  Addresses = {a1}
  Absent = Absent
  Notes <- SmallNotes
  WantNHs = {a1}
  BufferSize = 1
  NHFailLimit = 2
  MaxChanges = 0
  MaxTime = 3
SPECIFICATION FairSpec
PROPERTIES ReaderExits SyncCompletes
CHECK_DEADLOCK FALSE
