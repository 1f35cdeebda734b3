CONSTANTS
  Prefixes = {p1}
  Groups = {g1}
  Hops = {h1}
  Addresses = {a1}
  Absent = Absent
  Notes <- SmallNotes
  WantNHs = {a1}
  BufferSize = 1
  NHFailLimit = 2
  MaxChanges = 1
  MaxTime = 4
SPECIFICATION Spec
INVARIANTS CacheTracksDevice DeletionsHappened SyncIsTruthful
CHECK_DEADLOCK FALSE
