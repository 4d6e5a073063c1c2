CONSTANTS
  Modulus = 16
  AppSeq = 13
  Finals = {15}
  Modes = {"synth"}
  Kinds = {"query"}
  MaxSynth = 1
  MaxLive = 3
  MaxEvents = 1
SPECIFICATION Spec
INVARIANT BarrierTaken
CHECK_DEADLOCK FALSE
