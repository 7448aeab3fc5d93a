CONSTANTS
  v = v
  a = a
  b = b
  d = d
  None = None
  Self = v
  Seats = {0, 2}
  Hotkey = {v, a, b}
  Did = {d}
  MaxUids = 3
  Unit = 1
  AlphaNum = 1
  AlphaDen = 1
  Silent = 1
  Marks = {1}
  SampleSize = 1
  Forwards = 2
  Epoch = 0
  DisableSetWeights = TRUE
  FirstRun = TRUE
  Axonless = {FALSE, TRUE}
  ShrinkAllowed = TRUE
  Faults = {"exit", "raise", "ousted"}
SPECIFICATION Spec
SYMMETRY SomeHotkeys
INVARIANTS HotkeysFitScores
