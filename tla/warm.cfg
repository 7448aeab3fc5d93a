CONSTANTS
  v = v
  a = a
  b = b
  c = c
  d = d
  e = e
  None = None
  Self = v
  Seats = {0}
  Hotkey = {v, a, b, c}
  Did = {d, e}
  MaxUids = 3
  Unit = 4
  AlphaNum = 1
  AlphaDen = 2
  Silent = 2
  Marks = {4}
  SampleSize = 2
  Forwards = 1
  Epoch = 0
  DisableSetWeights = FALSE
  FirstRun = FALSE
  Axonless = {FALSE}
  ShrinkAllowed = FALSE
  Faults = {"exit", "kill", "raise", "disk", "reject", "lost"}
SPECIFICATION Spec
SYMMETRY SomeHotkeys
INVARIANTS TypeOK ScoreAttribution DidAttribution WeightsFitMetagraph
PROPERTIES SybilNeverGains KeepsTheLedger
