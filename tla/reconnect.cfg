CONSTANTS
  c1 = c1
  c2 = c2
  c3 = c3
  a1 = a1
  a2 = a2
  Clients = {c1, c2}
  Apps = {a1}
  NoClient = NoClient
  MaxReq = 2
  Takeover = "never"
  Mortal = {c1}
  Quitters = {a1}
  Compatible = {c1, c2}
SPECIFICATION Spec
INVARIANTS TypeOK NothingForgotten
CHECK_DEADLOCK FALSE
