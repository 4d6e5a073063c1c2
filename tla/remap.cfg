CONSTANTS
  Span = 8
  OldBase = 16
  Bases = {8, 16, 24}
  Root = 3
  MaxMade = 4
  MaxScratch = 2
  MaxCmaps = 1
  Masks <- MCMasks
SPECIFICATION Spec
INVARIANTS IdsOK RequestsExact EventsExact
