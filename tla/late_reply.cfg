CONSTANTS
  c1 = c1
  c2 = c2
  c3 = c3
  a1 = a1
  a2 = a2
  Clients = {c1}
  Apps = {a1}
  NoClient = NoClient
  MaxReq = 1
  Compatible = {c1}
  Takeover = "never"
  Mortal = {}
  Quitters = {a1}
SPECIFICATION Spec
INVARIANT NoPanic
CHECK_DEADLOCK FALSE
