SPECIFICATION TrailSpec
CONSTANTS
  p1 = p1
  p2 = p2
  Writers = {p1, p2}
  Watched = {p1}
  Mortal = {p2}
  RingSize = 2
  Limit = 1
  Retain = 1
  Records = 4
  Days = 3
  Archives = 1
  Polls = 1
INVARIANTS
  NoRecordOrphaned
CHECK_DEADLOCK FALSE
