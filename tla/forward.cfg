CONSTANTS
  m = m
  n = n
  q = q
  Miner = {m, n, q}
  Mute = {q}
  Forwards = 2
  SampleSize = 2
  Garbage = TRUE
SPECIFICATION Spec
INVARIANTS TypeOK MinersCannotEndTheLoop ClientsOpenInUse ClientsAreClosed
PROPERTY TurnEnds
