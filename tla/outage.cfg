SPECIFICATION FairSpec
CONSTANTS
  Windows = {w1}
  Extensions = {"SYNC", "XKEYBOARD", "DBE"}
  NoName = NoName
  MajorOf <- MCMajorOf
  Modulus = 2
  MaxRequests = 4
  MaxClients = 2
INVARIANTS TypeOK ConfiguresCovered ServerKnows ExtQueriesRecognised
PROPERTY QueriesEnd
CHECK_DEADLOCK FALSE
