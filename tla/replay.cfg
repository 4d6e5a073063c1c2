CONSTANTS
  Windows = {w1, w2}
  Pixmaps = {p1}
  Gcs = {g1}
  Fonts = {f1}
  Pictures = {r1}
  Cursors = {c1}
  Root = Root
  Nil = Nil
  Depths = {1, 24}
  RootDepth = 24
  MaxRequests = 6
SPECIFICATION Spec
INVARIANTS TrackerOK WindowsRestored PixmapsRestored GcsRestored GcDepthKept CursorsRestored
CHECK_DEADLOCK FALSE
