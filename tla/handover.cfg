CONSTANTS
  c1 = c1
  c2 = c2
  c3 = c3
  a1 = a1
  a2 = a2
  Clients = {c1, c2}
  Apps = {a1}
  NoClient = NoClient
  MaxReq = 2
  Takeover = "anytime"
  Mortal = {c1, c2}
  Quitters = {}
  Compatible = {c1, c2}
SPECIFICATION Spec
SYMMETRY Symmetry
CONSTRAINT QueryLast
INVARIANTS NoRequestBeforeLive RidRecorded AnsweredOnce RequestsHaveConnections FreshRepliesExact
CHECK_DEADLOCK FALSE
