CONSTANTS
  k = k
  o = o
  m = m
  u = u
  w = w
  Noise = Noise
  Short = Short
  None = None
  Key = {k, o}
  Nonce = {m}
  Update = {u, w}
  MaxCerts = 2
SPECIFICATION Spec
SYMMETRY AnyKey
INVARIANTS TypeOK HandshakesVerify GenuineCertificatesVerify
