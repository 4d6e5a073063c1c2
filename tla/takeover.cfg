CONSTANTS
  c1 = c1
  c2 = c2
  c3 = c3
  a1 = a1
  a2 = a2
  Clients = {c1, c2, c3}
  Apps = {}
  NoClient = NoClient
  MaxReq = 0
  Takeover = "anytime"
  Mortal = {c1, c2, c3}
  Quitters = {}
  Compatible = {c1, c2, c3}
SPECIFICATION Spec
SYMMETRY Symmetry
INVARIANTS SupersededIsClosed GateReopens
PROPERTY HandoverSpec
CHECK_DEADLOCK FALSE
