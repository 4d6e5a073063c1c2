CONSTANTS
  c1 = c1
  c2 = c2
  c3 = c3
  a1 = a1
  a2 = a2
  Clients = {c1, c2}
  Apps = {a1}
  NoClient = NoClient
  MaxReq = 0
  Takeover = "reading"
  Mortal = {c1}
  Quitters = {}
  Compatible = {c1, c2}
SPECIFICATION FairSpec
PROPERTIES SetupAnswered ClientGoesLive
CHECK_DEADLOCK FALSE
