CONSTANTS
  v = v
  a = a
  b = b
  d = d
  None = None
  Self = v
  Seats = {0}
  Hotkey = {v, a, b}
  Did = {d}
  MaxUids = 2
  Unit = 4
  AlphaNum = 1
  AlphaDen = 2
  Silent = 2
  Marks = {4}
  SampleSize = 2
  Forwards = 1
  Epoch = 1
  DisableSetWeights = FALSE
  FirstRun = TRUE
  Axonless = {FALSE}
  ShrinkAllowed = FALSE
  Faults = {"ousted"}
SPECIFICATION Spec
INVARIANT SelfIsNeverJudged
