CONSTANTS
  k = k
  o = o
  c1 = c1
  c2 = c2
  e1 = e1
  e2 = e2
  None = None
  Cid = {c1, c2}
  Event = {e1, e2}
  SigningDid = k
  OtherDid = o
  FetchMs = {300, 2750}
  ValidatorMs = {200, 2000}
  Peers = {12}
  NodeDids = {k, o}
  MaxListed = 2
  MayFail = {"node", "call", "answer", "miner", "foreign",
             "trusted", "lagging", "push", "parse"}
SPECIFICATION Spec
SYMMETRY CorpusIsAnySet
INVARIANTS TypeOK CountsFit SilentIsNeutral UndisturbedRoundIsExact
  
