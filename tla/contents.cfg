CONSTANTS
  Pixmaps = {p1, p2}
  Gcs = {g1, g2}
  Segments = {s1}
  Windows = {w1}
  Colours = {red}
  Values = {x, y}
  Top = Top
  Root = Root
  Nil = Nil
  MaxRequests = 5
  MaxEarly = 4
  MaxLate = 2
SPECIFICATION Spec
CONSTRAINT Bound
SYMMETRY Symmetry
INVARIANTS LogsOK PixmapsReplayed  DrawsAccepted  PropertyReplayed
CHECK_DEADLOCK FALSE
