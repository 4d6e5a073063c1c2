CONSTANTS
  Modulus = 16
  AppSeq = 13
  Finals = {15}
  Modes = {"synth", "fresh"}
  Kinds = {"void", "query", "error", "gpu", "segment"}
  MaxSynth = 1
  MaxLive = 3
  MaxEvents = 1
SPECIFICATION FairSpec
INVARIANTS NumbersOK NeverBackwards OnlyGpuRewritten
PROPERTIES LiveAnswered
CHECK_DEADLOCK FALSE
