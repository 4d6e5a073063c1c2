--------------------------- MODULE SynthesisProofs ---------------------------
(***************************************************************************)
(* What the replay of a tracked connection restores, for any resources and  *)
(* any number of requests.                                                  *)
(***************************************************************************)
EXTENDS Synthesis, TLAPS

-----------------------------------------------------------------------------
(* The invariant: what has been replayed so far *)

WindowsInv ==
  /\ phase = "app" => dWindows = {}
  /\ phase = "windows" => todo \subseteq Tracked(windows) /\ dWindows = Restorable \ todo
  /\ phase \notin {"app", "windows"} => dWindows = Restorable
  /\ phase = "done" => dMapped = {w \in dWindows : windows[w].mapped}

PixmapHere(p) == pixmaps[p].drawable \in Restorable \cup {Root} => p \in dPixmaps
PixmapsInv ==
  /\ dPixmaps \subseteq Tracked(pixmaps)
  /\ phase \in {"app", "windows"} => dPixmaps = {}
  /\ phase = "pixmaps" =>
       /\ todo \subseteq Tracked(pixmaps)
       /\ \A p \in Tracked(pixmaps) \ todo : PixmapHere(p)
  /\ phase \in {"gcs", "cursors", "map", "done"} => \A p \in Tracked(pixmaps) : PixmapHere(p)

GcLost(g) ==
  \/ ~Exists(gcs[g].drawable) /\ Tracked(windows) = {}
  \/ gcs[g].clip \notin Tracked(pixmaps) \cup {Nil}
  \/ Mismatched(g)
GcHere(g) == dGcs[g] # Nil \/ GcLost(g)
AllThere == Restorable = Tracked(windows) /\ Tracked(pixmaps) \subseteq dPixmaps
GcsInv ==
  /\ dGcs \in [Gcs -> Depths \cup {Nil}]
  /\ scratch \subseteq Depths
  /\ phase = "gcs" => /\ anyWin \in Tracked(windows) \cup {Nil}
                      /\ anyWin = Nil => Tracked(windows) = {}
  /\ phase = "gcs" => todo \subseteq Tracked(gcs)
  /\ phase \in {"gcs", "cursors", "map", "done"} => dFonts = fonts
  /\ AllThere =>
       /\ phase = "gcs" => \A g \in Tracked(gcs) \ todo : GcHere(g)
       /\ phase \in {"cursors", "map", "done"} => \A g \in Tracked(gcs) : GcHere(g)

CoreCursorLost(c) ==
  /\ cursors[c].kind = "core"
  /\ ~(cursors[c].src \in dPixmaps /\ OfDepth(cursors[c].src, BitmapDepth))
RenderCursorLost(c) ==
  /\ cursors[c].kind = "render"
  /\ \/ cursors[c].src \in Tracked(pictures) \ dPictures
     \/ Known(cursors[c].saved) /\ ~Displayed(cursors[c].saved)
CursorsInv ==
  /\ phase \in {"gcs", "cursors"} =>
       \A c \in Tracked(cursors) \ dCursors : CoreCursorLost(c) \/ cursors[c].kind = "render"
  /\ phase \in {"map", "done"} =>
       \A c \in Tracked(cursors) \ dCursors : CoreCursorLost(c) \/ RenderCursorLost(c)

Phases == {"app", "windows", "pixmaps", "gcs", "cursors", "map", "done"}
ReplayInv ==
  /\ TrackerOK
  /\ phase \in Phases
  /\ WindowsInv /\ PixmapsInv /\ GcsInv /\ CursorsInv

-----------------------------------------------------------------------------
(* The tables *)

USE RootAssumption, DrawablesAssumption, NilAssumption, DepthsAssumption,
    MaxRequestsAssumption, NoWindowAssumption

\* What a destroyed window's descendants are: a window that is left has a
\* parent that is left.
LEMMA SubtreeClosed ==
  ASSUME NEW W \in SUBSET Windows, NEW v \in Tracked(windows),
         windows[v].parent \in Subtrees(W)
  PROVE  v \in Subtrees(W)
BY DEF Subtrees, Children

\* A window can be restored if its parent can, or is the root, and it names no
\* pixmap.
LEMMA RestorableIff ==
  ASSUME TrackerOK, NEW w \in Tracked(windows)
  PROVE  w \in Restorable <=>
           windows[w].parent \in Restorable \cup {Root} /\ windows[w].uses = {}
<1> DEFINE W == {v \in Tracked(windows) : windows[v].uses # {}}
           S == Subtrees(W) \ {w}
<1>1. Tracked(windows) \subseteq Windows
  BY DEF Tracked, TrackerOK, TypeOK
<1>2. W \subseteq Subtrees(W) /\ Subtrees(W) \subseteq Tracked(windows)
  BY DEF Subtrees
<1>3. ASSUME windows[w].uses = {}, windows[w].parent \notin Subtrees(W)
      PROVE  w \notin Subtrees(W)
  <2>1. W \subseteq S
    BY <1>2, <1>3
  <2>2. \A u \in S : Children(u) \subseteq S
    BY <1>3, SubtreeClosed, <1>1 DEF Children
  <2>3. S \in SUBSET Windows
    BY <1>1, <1>2
  <2> QED
    BY <2>1, <2>2, <2>3 DEF Subtrees
<1>4. windows[w].parent \in Subtrees(W) => w \in Subtrees(W)
  BY <1>1, SubtreeClosed
<1>5. windows[w].parent \in Tracked(windows) \cup {Root}
  BY DEF TrackerOK, ParentsTracked
<1>6. Root \notin Subtrees(W)
  BY <1>1, <1>2
<1> QED
  BY <1>2, <1>3, <1>4, <1>5, <1>6 DEF Restorable

LEMMA RestorableKept ==
  ASSUME UNCHANGED windows
  PROVE  Restorable' = Restorable /\ Tracked(windows)' = Tracked(windows)
BY DEF Restorable, Subtrees, Children, Tracked

\* A window keeps its parent and depth while it lives, and its parent lives.
LEMMA SetViewKeeps ==
  ASSUME TrackerOK, NEW W \in SUBSET Tracked(windows),
         NEW view \in {"mapped", "unmapped", "hidden"}, SetView(W, view), seqNum' \in Nat
  PROVE  TrackerOK'
<1>1. Tracked(windows) \subseteq Windows
  BY DEF Tracked, TrackerOK, TypeOK
<1>2. ASSUME NEW w \in W
      PROVE  [windows[w] EXCEPT !.mapped = (view # "unmapped"), !.view = view] \in Window
  <2> DEFINE m == view # "unmapped"
  <2>1. windows[w] \in Window
    BY <1>1 DEF TrackerOK, TypeOK, Tracked
  <2>2. m \in BOOLEAN /\ m = (view # "unmapped")
    OBVIOUS
  <2> HIDE DEF m
  <2>3. [windows[w] EXCEPT !.mapped = m, !.view = view] \in Window
    BY <2>1, <2>2 DEF Window
  <2> QED
    BY <2>2, <2>3
<1>3. windows' \in [Windows -> Window \cup {Nil}]
  BY <1>2 DEF SetView, TrackerOK, TypeOK
<1>4. TypeOK'
  BY <1>3 DEF SetView, TrackerOK, TypeOK
<1>5. Tracked(windows)' = Tracked(windows)
  <2>1. \A w \in Windows : windows'[w] # Nil <=> windows[w] # Nil
    BY <1>2 DEF SetView, Tracked
  <2> QED
    BY <2>1, <1>3 DEF Tracked, TrackerOK, TypeOK
<1>6. ASSUME NEW w \in Tracked(windows) PROVE windows'[w].parent = windows[w].parent
  <2>1. windows[w] \in Window
    BY <1>1 DEF TrackerOK, TypeOK, Tracked
  <2>2. windows'[w] \in {windows[w], [windows[w] EXCEPT !.mapped = (view # "unmapped"),
                                                      !.view = view]}
    BY <1>1 DEF SetView
  <2> QED
    BY <2>1, <2>2 DEF Window
<1> QED
  BY <1>4, <1>5, <1>6 DEF TrackerOK, ParentsTracked

\* Destroying windows with their descendants orphans no other window.
LEMMA DestroyKeeps ==
  ASSUME TrackerOK, NEW W \in SUBSET Windows, Destroy(W), seqNum' \in Nat
  PROVE  TrackerOK'
<1>1. windows' \in [Windows -> Window \cup {Nil}]
  BY DEF Destroy, TrackerOK, TypeOK
<1>2. TypeOK'
  BY <1>1 DEF Destroy, TrackerOK, TypeOK
<1>3. Tracked(windows)' = Tracked(windows) \ Subtrees(W)
  BY <1>1 DEF Destroy, Tracked, TrackerOK, TypeOK
<1>4. \A w \in Tracked(windows)' : windows'[w] = windows[w]
  BY <1>1, <1>3 DEF Destroy, Tracked, TrackerOK, TypeOK
<1>5. ASSUME NEW w \in Tracked(windows)'
      PROVE  windows'[w].parent \in Tracked(windows)' \cup {Root}
  <2>1. w \in Tracked(windows) /\ w \notin Subtrees(W)
    BY <1>3
  <2>2. windows[w].parent \notin Subtrees(W)
    BY <2>1, SubtreeClosed
  <2> QED
    BY <1>3, <1>4, <2>1, <2>2 DEF TrackerOK, ParentsTracked
<1> QED
  BY <1>2, <1>5 DEF TrackerOK, ParentsTracked

\* A request leaves the tables well formed.
LEMMA RequestKeeps ==
  ASSUME TrackerOK, ProcessRequest
  PROVE  TrackerOK'
<1>1. ASSUME Request PROVE seqNum' \in Nat
  BY <1>1 DEF Request, TrackerOK, TypeOK
<1>2. Tracked(windows) \subseteq Windows
  BY DEF Tracked, TrackerOK, TypeOK
<1>3. ASSUME windows' = windows, TypeOK' PROVE TrackerOK'
  BY <1>3 DEF TrackerOK, ParentsTracked, Tracked
<1>4. ASSUME NEW w \in Windows, NEW parent \in Windows \cup {Root},
             NEW d \in WindowDepths \cup {0}, NEW uses \in SUBSET Pixmaps,
             CreateWindow(w, parent, d, uses)
      PROVE  TrackerOK'
  <2> DEFINE new == [parent |-> parent, depth |-> d, mapped |-> FALSE, uses |-> uses,
                     real |-> IF d = 0 THEN RealDepth(parent) ELSE d, view |-> "unmapped"]
  <2>1. new \in Window
    <3>1. RealDepth(parent) \in WindowDepths
      BY <1>4 DEF CreateWindow, RealDepth, Tracked, TrackerOK, TypeOK, Window, WindowDepths,
                  BitmapDepth
    <3> QED
      BY <3>1 DEF Window
  <2>2. windows' = [windows EXCEPT ![w] = new] /\ windows[w] = Nil
    BY <1>4 DEF CreateWindow
  <2>3. windows' \in [Windows -> Window \cup {Nil}]
    BY <2>1, <2>2 DEF TrackerOK, TypeOK
  <2>4. TypeOK'
    BY <1>1, <1>4, <2>3 DEF CreateWindow, TrackerOK, TypeOK
  <2>5. Tracked(windows)' = Tracked(windows) \cup {w}
    <3>1. \A v \in Windows : windows'[v] = IF v = w THEN new ELSE windows[v]
      BY <2>2 DEF TrackerOK, TypeOK
    <3>2. new # Nil
      BY <2>1
    <3> QED
      BY <2>3, <3>1, <3>2 DEF Tracked, TrackerOK, TypeOK
  <2>6. parent \in Tracked(windows) \cup {Root}
    BY <1>4 DEF CreateWindow
  <2>7. windows'[w].parent = parent
    BY <2>2, <2>3 DEF TrackerOK, TypeOK
  <2>8. \A v \in Tracked(windows) : windows'[v] = windows[v]
    BY <1>2, <2>2 DEF Tracked, TrackerOK, TypeOK
  <2> QED
    BY <2>4, <2>5, <2>6, <2>7, <2>8 DEF TrackerOK, ParentsTracked
<1>5. ASSUME NEW w \in Windows, MapWindow(w) PROVE TrackerOK'
  BY <1>1, <1>5, SetViewKeeps DEF MapWindow
<1>6. ASSUME NEW w \in Windows, UnmapWindow(w) PROVE TrackerOK'
  BY <1>1, <1>6, SetViewKeeps DEF UnmapWindow
<1>7. ASSUME NEW w \in Windows, MapSubwindows(w) PROVE TrackerOK'
  BY <1>1, <1>7, SetViewKeeps DEF MapSubwindows, Children
<1>22. ASSUME NEW w \in Windows, UnmapSubwindows(w) PROVE TrackerOK'
  BY <1>1, <1>22, SetViewKeeps DEF UnmapSubwindows, Children
<1>8. ASSUME NEW w \in Windows, DestroyWindow(w) PROVE TrackerOK'
  BY <1>1, <1>8, DestroyKeeps DEF DestroyWindow
<1>9. ASSUME NEW w \in Windows, DestroySubwindows(w) PROVE TrackerOK'
  BY <1>1, <1>2, <1>9, DestroyKeeps DEF DestroySubwindows, Children
<1>10. ASSUME NEW p \in Pixmaps, NEW drawable \in Drawables, NEW d \in Depths,
              CreatePixmap(p, drawable, d)
       PROVE  TrackerOK'
  <2>1. [drawable |-> drawable, depth |-> d] \in Pixmap
    BY DEF Pixmap
  <2> QED
    BY <1>1, <1>3, <1>10, <2>1 DEF CreatePixmap, TrackerOK, TypeOK
<1>11. ASSUME NEW p \in Pixmaps, FreePixmap(p) PROVE TrackerOK'
  BY <1>1, <1>3, <1>11 DEF FreePixmap, TrackerOK, TypeOK
<1>12. ASSUME NEW f \in Fonts, OpenFont(f) \/ CloseFont(f) PROVE TrackerOK'
  BY <1>1, <1>3, <1>12 DEF OpenFont, CloseFont, TrackerOK, TypeOK
<1>13. ASSUME NEW g \in Gcs, NEW drawable \in Drawables, NEW f \in Fonts \cup {Nil},
              NEW tile \in Pixmaps \cup {Nil}, NEW stipple \in Pixmaps \cup {Nil},
              NEW clip \in Pixmaps \cup {Nil}, CreateGC(g, drawable, f, tile, stipple, clip)
       PROVE  TrackerOK'
  <2>1. DrawableDepth(drawable) \in Depths \cup {0}
    BY DEF DrawableDepth, Tracked, TrackerOK, TypeOK, Window, WindowDepths, Pixmap
  <2>2. drawable = Root => DrawableDepth(drawable) = 0
    BY DEF DrawableDepth, Tracked, TrackerOK, TypeOK
  <2>3. [drawable |-> drawable, depth |-> DrawableDepth(drawable), font |-> f,
         tile |-> tile, stipple |-> stipple, clip |-> clip] \in GC
    BY <2>1, <2>2 DEF GC
  <2> QED
    BY <1>1, <1>3, <1>13, <2>3 DEF CreateGC, TrackerOK, TypeOK
<1>14. ASSUME NEW g \in Gcs, FreeGC(g) PROVE TrackerOK'
  BY <1>1, <1>3, <1>14 DEF FreeGC, TrackerOK, TypeOK
<1>15. ASSUME NEW r \in Pictures, NEW source \in Picture, CreatePicture(r, source)
       PROVE  TrackerOK'
  BY <1>1, <1>3, <1>15 DEF CreatePicture, TrackerOK, TypeOK
<1>16. ASSUME NEW r \in Pictures, FreePicture(r) PROVE TrackerOK'
  BY <1>1, <1>3, <1>16 DEF FreePicture, TrackerOK, TypeOK
<1>17. ASSUME NEW c \in Cursors, NEW cursor \in Cursor, CreateCursor(c, cursor) PROVE TrackerOK'
  BY <1>1, <1>3, <1>17 DEF CreateCursor, TrackerOK, TypeOK
<1>18. ASSUME NEW c \in Cursors, NEW f \in Fonts, CreateGlyphCursor(c, f) PROVE TrackerOK'
  BY <1>17, <1>18 DEF CreateGlyphCursor, Cursor
<1>19. ASSUME NEW c \in Cursors, NEW p \in Pixmaps, CreateCoreCursor(c, p) PROVE TrackerOK'
  BY <1>17, <1>19 DEF CreateCoreCursor, Cursor
<1>20. ASSUME NEW c \in Cursors, NEW r \in Pictures, RenderCreateCursor(c, r) PROVE TrackerOK'
  <2>1. pictures[r] \in Picture
    BY <1>20 DEF RenderCreateCursor, Tracked, TrackerOK, TypeOK
  <2>2. [kind |-> "render", src |-> r, saved |-> pictures[r]] \in Cursor
    BY <2>1 DEF Cursor
  <2> QED
    BY <1>17, <1>20, <2>2 DEF RenderCreateCursor
<1>21. ASSUME NEW c \in Cursors, FreeCursor(c) PROVE TrackerOK'
  BY <1>1, <1>3, <1>21 DEF FreeCursor, TrackerOK, TypeOK
<1> QED
  BY <1>4, <1>5, <1>6, <1>7, <1>8, <1>9, <1>10, <1>11, <1>12, <1>13, <1>14, <1>15, <1>16,
     <1>18, <1>19, <1>20, <1>21, <1>22 DEF ProcessRequest

-----------------------------------------------------------------------------
(* The replay *)

\* The replay leaves the tables alone.
LEMMA ReplayKeepsTables ==
  ASSUME Replay
  PROVE  UNCHANGED tables
BY DEF Replay, Start, ReplayWindow, FinishWindows, ReplayPixmap, ReplayFontsAndCursors, ReplayGC,
       ReplayPictures, ReplayRenderCursors, MapWindows

LEMMA InitialInv == Init => ReplayInv
BY DEF Init, TrackerInit, ReplayInv, TrackerOK, TypeOK, ParentsTracked, Tracked, Phases,
       WindowsInv, PixmapsInv, GcsInv, CursorsInv

\* Only the tracker changes the tables.
LEMMA TrackerStep ==
  ASSUME ReplayInv, [Next]_vars
  PROVE  TrackerOK'
<1>1. CASE AppStep
  BY <1>1, RequestKeeps DEF AppStep, ReplayInv
<1>2. CASE Replay \/ UNCHANGED vars
  <2>1. UNCHANGED tables
    BY <1>2, ReplayKeepsTables DEF vars
  <2> QED
    BY <2>1 DEF ReplayInv, TrackerOK, TypeOK, ParentsTracked, Tracked, tables
<1> QED
  BY <1>1, <1>2 DEF Next

\* Of the windows replayed so far those are on the display that can be.
LEMMA WindowsStep ==
  ASSUME ReplayInv, [Next]_vars
  PROVE  WindowsInv'
<1> USE DEF ReplayInv, WindowsInv
<1>1. CASE AppStep
  BY <1>1 DEF AppStep, display
<1>2. CASE Start
  <2>1. Restorable \ Tracked(windows) = {}
    BY DEF Restorable
  <2> QED
    BY <1>2, <2>1, RestorableKept DEF Start, Enter, tables, display
<1>3. ASSUME NEW w \in Windows, ReplayWindow(w) PROVE WindowsInv'
  <2>1. /\ phase = "windows" /\ phase' = phase /\ w \in todo /\ todo' = todo \ {w}
        /\ windows' = windows
    BY <1>3 DEF ReplayWindow, tables
  <2>2. windows[w].parent \in (Tracked(windows) \ todo) \cup {Root}
    BY <1>3, <2>1 DEF ReplayWindow, ParentFirst, TrackerOK, ParentsTracked
  <2>3. Restorable \subseteq Windows /\ Root \notin Windows
    BY DEF Restorable, Tracked, TrackerOK, TypeOK
  <2>4. dPixmaps = {}
    BY <2>1 DEF PixmapsInv
  <2>5. Displayed(windows[w].parent) <=> windows[w].parent \in Restorable \cup {Root}
    BY <2>1, <2>2, <2>4 DEF Displayed
  <2>6. Displayed(windows[w].parent) /\ windows[w].uses \subseteq dPixmaps <=> w \in Restorable
    BY <2>1, <2>4, <2>5, RestorableIff
  <2>7. dWindows' = IF w \in Restorable THEN dWindows \cup {w} ELSE dWindows
    BY <1>3, <2>6 DEF ReplayWindow
  <2> QED
    BY <2>1, <2>7, RestorableKept
<1>4. CASE FinishWindows
  BY <1>4, RestorableKept DEF FinishWindows, Enter, tables, display
<1>5. CASE MapWindows
  BY <1>5, RestorableKept DEF MapWindows, Enter, tables
<1>6. CASE \/ \E p \in Pixmaps : ReplayPixmap(p)
           \/ ReplayFontsAndCursors
           \/ \E g \in Gcs : ReplayGC(g)
           \/ ReplayPictures \/ ReplayRenderCursors
  BY <1>6, RestorableKept DEF ReplayPixmap, ReplayFontsAndCursors, ReplayGC, ReplayPictures,
              ReplayRenderCursors, Enter, tables
<1>7. CASE UNCHANGED vars
  BY <1>7, RestorableKept DEF vars, tables, display
<1> QED
  BY <1>1, <1>2, <1>3, <1>4, <1>5, <1>6, <1>7 DEF Next, Replay

\* The pixmaps replayed so far are on the display, if their drawable was.
LEMMA PixmapsStep ==
  ASSUME ReplayInv, [Next]_vars
  PROVE  PixmapsInv'
<1> USE DEF ReplayInv, PixmapsInv, PixmapHere
<1>1. CASE AppStep
  BY <1>1 DEF AppStep, display
<1>2. CASE Start
  BY <1>2 DEF Start, Enter, tables, display
<1>3. CASE FinishWindows
  BY <1>3 DEF FinishWindows, Enter, tables, display, Tracked
<1>4. ASSUME NEW p \in Pixmaps, ReplayPixmap(p) PROVE PixmapsInv'
  <2>1. /\ todo' = todo \ {p} /\ p \in todo /\ phase = "pixmaps" /\ phase' = phase
        /\ windows' = windows /\ pixmaps' = pixmaps
    BY <1>4 DEF ReplayPixmap, tables
  <2>2. dPixmaps' = IF Displayed(pixmaps[p].drawable) THEN dPixmaps \cup {p} ELSE dPixmaps
    BY <1>4 DEF ReplayPixmap
  <2>3. PixmapHere(p)'
    BY <2>1, <2>2, RestorableKept DEF Displayed, WindowsInv
  <2>4. dPixmaps \subseteq dPixmaps'
    BY <2>2
  <2>5. p \in Tracked(pixmaps) /\ Tracked(pixmaps)' = Tracked(pixmaps)
    BY <2>1 DEF Tracked
  <2>6. dPixmaps' \subseteq Tracked(pixmaps)'
    BY <2>2, <2>5
  <2>7. ASSUME NEW q \in Tracked(pixmaps)' \ todo' PROVE PixmapHere(q)'
    BY <2>1, <2>3, <2>4, <2>5, <2>7, RestorableKept
  <2>8. todo' \subseteq Tracked(pixmaps)'
    BY <2>1, <2>5
  <2> QED
    BY <2>1, <2>6, <2>7, <2>8
<1>5. CASE ReplayFontsAndCursors
  BY <1>5, RestorableKept DEF ReplayFontsAndCursors, Enter, tables, Tracked
<1>6. CASE \/ \E w \in Windows : ReplayWindow(w)
           \/ \E g \in Gcs : ReplayGC(g)
           \/ ReplayPictures \/ ReplayRenderCursors \/ MapWindows
  BY <1>6, RestorableKept DEF ReplayWindow, ReplayGC, ReplayPictures, ReplayRenderCursors,
              MapWindows, Enter, tables, Tracked
<1>7. CASE UNCHANGED vars
  BY <1>7, RestorableKept DEF vars, tables, display, Tracked
<1> QED
  BY <1>1, <1>2, <1>3, <1>4, <1>5, <1>6, <1>7 DEF Next, Replay

\* What is on the display has a depth; what is not has none.
LEMMA DepthOfDisplayed ==
  ASSUME ReplayInv, phase = "gcs", NEW d
  PROVE  /\ DepthOf(d) \in Depths \cup {Nil}
         /\ Displayed(d) => DepthOf(d) = RealDepth(d) /\ DepthOf(d) # Nil
<1>1. dWindows \subseteq Tracked(windows) /\ dPixmaps \subseteq Tracked(pixmaps)
  BY DEF ReplayInv, WindowsInv, PixmapsInv, Restorable
<1>2. ASSUME d \in dWindows \cup dPixmaps \cup {Root} PROVE RealDepth(d) \in Depths
  BY <1>1, <1>2 DEF RealDepth, Tracked, ReplayInv, TrackerOK, TypeOK, Window, WindowDepths, Pixmap
<1> QED
  BY <1>1, <1>2 DEF DepthOf, Displayed

\* A GC whose drawable is gone gets one that is there, unless something was lost or
\* there is no window.
LEMMA FallbackThere ==
  ASSUME ReplayInv, phase = "gcs", NEW g \in Tracked(gcs), NEW scratched \in SUBSET Depths,
         NEW depth \in Fallbacks(g, scratched)
  PROVE  /\ depth \in Depths \cup {Nil}
         /\ AllThere /\ Tracked(windows) # {} => depth # Nil
<1> DEFINE d == gcs[g].depth
           exact == IF d = 0 THEN Tracked(windows) ELSE WindowsOf(d)
           depths(D) == {DepthOf(x) : x \in D}
<1>1. WindowsOf(d) \subseteq Tracked(windows) /\ WindowsOf(0) \subseteq Tracked(windows)
      /\ PixmapsOf(d) \subseteq Tracked(pixmaps)
  BY DEF WindowsOf, PixmapsOf
<1>2. \/ depth \in depths(exact) \/ depth \in depths(WindowsOf(0))
      \/ depth \in depths(PixmapsOf(d)) \cup {ScratchOf(x) : x \in scratched \cap {d}}
      \/ depth \in depths(IF Tracked(windows) # {} THEN Tracked(windows) ELSE {gcs[g].drawable})
  BY DEF Fallbacks
<1>3. AllThere => \A x \in Tracked(windows) \cup Tracked(pixmaps) : Displayed(x)
  BY DEF AllThere, Displayed, ReplayInv, WindowsInv
<1> HIDE DEF d
<1>4. CASE \E x \in scratched : depth = ScratchOf(x)
  <2>1. AllThere /\ Tracked(windows) # {} => anyWin \in dWindows
    BY DEF AllThere, ReplayInv, WindowsInv, GcsInv
  <2> QED
    BY <1>4, <2>1 DEF ScratchOf
<1>5. CASE \E x \in Tracked(windows) : depth = DepthOf(x)
  BY <1>3, <1>5, DepthOfDisplayed
<1>6. CASE \E x \in Tracked(pixmaps) : depth = DepthOf(x)
  BY <1>3, <1>6, DepthOfDisplayed
<1>7. CASE Tracked(windows) = {} /\ depth = DepthOf(gcs[g].drawable)
  BY <1>7, DepthOfDisplayed
<1> QED
  BY <1>1, <1>2, <1>4, <1>5, <1>6, <1>7

\* A GC made on the root window goes to the root window if there is no other.
LEMMA RootFallback ==
  ASSUME ReplayInv, phase = "gcs", NEW g \in Tracked(gcs), gcs[g].drawable = Root,
         Tracked(windows) = {}, NEW scratched \in SUBSET Depths,
         NEW depth \in Fallbacks(g, scratched)
  PROVE  /\ depth = RealDepth(Root) /\ depth # Nil
         /\ ~Substituted(g)
<1>1. gcs[g] \in GC
  BY DEF Tracked, ReplayInv, TrackerOK, TypeOK
<1>2. gcs[g].depth = 0
  BY <1>1 DEF GC
<1>3. PixmapsOf(0) = {} /\ WindowsOf(0) = {} /\ 0 \notin scratched
  BY DEF PixmapsOf, WindowsOf, Tracked, Pixmap, ReplayInv, TrackerOK, TypeOK
<1>4. depth = DepthOf(Root)
  BY <1>2, <1>3 DEF Fallbacks
<1>5. ~Substituted(g)
  BY <1>2, <1>3 DEF Substituted
<1> QED
  BY <1>4, <1>5, DepthOfDisplayed DEF Displayed

\* The display accepts what is left of a GC's request on a drawable it has, if
\* nothing was lost, the clip mask is tracked and no identifier has another depth.
LEMMA MadeWhenThere ==
  ASSUME ReplayInv, phase = "gcs", NEW g \in Tracked(gcs), NEW depth, depth # Nil, AllThere,
         ~GcLost(g), FontOf(g) \in dFonts \cup {Nil},
         Substituted(g) \/ (Exists(gcs[g].drawable) /\ depth = RealDepth(gcs[g].drawable))
  PROVE  MadeOn(g, depth) # Nil
<1> DEFINE now == gcs[g]
<1>1. ASSUME NEW p \in Tracked(pixmaps), NEW d, OfDepth(p, d) PROVE Accepts(p, d)
  BY <1>1 DEF AllThere, Accepts, OfDepth
<1>2. Accepts(now.clip, BitmapDepth)
  <2>1. CASE now.clip = Nil
    BY <2>1 DEF Accepts
  <2>2. CASE now.clip \in Tracked(pixmaps)
    <3>1. OfDepth(now.clip, BitmapDepth)
      BY <2>2 DEF GcLost, Mismatched
    <3> QED
      BY <1>1, <2>2, <3>1
  <2> QED
    BY <2>1, <2>2 DEF GcLost
<1>3. Accepts(StippleOf(g), BitmapDepth)
  <2>1. CASE now.stipple \in Tracked(pixmaps)
    <3>1. OfDepth(now.stipple, BitmapDepth)
      BY <2>1 DEF GcLost, Mismatched
    <3> QED
      BY <1>1, <2>1, <3>1 DEF StippleOf, IfTracked
  <2> QED
    BY <2>1 DEF StippleOf, IfTracked, Accepts
<1>4. Accepts(TileOf(g), depth)
  <2>1. CASE Substituted(g) \/ now.tile \notin Tracked(pixmaps)
    BY <2>1 DEF TileOf, IfTracked, Accepts
  <2>2. CASE ~Substituted(g) /\ now.tile \in Tracked(pixmaps)
    <3>1. OfDepth(now.tile, depth)
      BY <2>2 DEF GcLost, Mismatched
    <3> QED
      BY <1>1, <2>2, <3>1 DEF TileOf, IfTracked
  <2> QED
    BY <2>1, <2>2
<1> QED
  BY <1>2, <1>3, <1>4 DEF MadeOn

\* Which GCs may be lost depends on the tables and on what was lost before.
LEMMA LossKept ==
  ASSUME UNCHANGED tables, UNCHANGED dPixmaps
  PROVE  AllThere' = AllThere /\ \A g \in Gcs : GcLost(g)' = GcLost(g)
<1>1. AllThere' = AllThere
  BY RestorableKept DEF AllThere, tables, Tracked
<1>2. ASSUME NEW g \in Gcs PROVE GcLost(g)' = GcLost(g)
  BY DEF GcLost, Mismatched, Exists, Known, Tracked, OfDepth, RealDepth, tables
<1> QED
  BY <1>1, <1>2

\* The GCs replayed so far are on the display.
LEMMA GcsStep ==
  ASSUME ReplayInv, [Next]_vars
  PROVE  GcsInv'
<1> USE DEF ReplayInv, GcsInv, GcHere
<1>1. CASE AppStep
  BY <1>1 DEF AppStep, display
<1>2. CASE Start
  BY <1>2 DEF Start, Enter, display
<1>3. CASE ReplayFontsAndCursors
  <2>1. anyWin' \in Tracked(windows) \cup {Nil} /\ (anyWin' = Nil => Tracked(windows) = {})
    BY <1>3 DEF ReplayFontsAndCursors, Tracked, TrackerOK, TypeOK
  <2> QED
    BY <1>3, <2>1 DEF ReplayFontsAndCursors, Enter, tables, Tracked
<1>4. ASSUME NEW g \in Gcs, ReplayGC(g) PROVE GcsInv'
  <2>1. scratch' \subseteq Depths
    <3>1. g \in Tracked(gcs) => gcs[g] \in GC
      BY DEF Tracked, TrackerOK, TypeOK
    <3>2. NeedsScratch(g) /\ g \in Tracked(gcs) => gcs[g].depth \in Depths
      BY <3>1 DEF NeedsScratch, GC
    <3>3. g \in Tracked(gcs)
      BY <1>4 DEF ReplayGC
    <3> QED
      BY <1>4, <3>2, <3>3 DEF ReplayGC
  <2>2. FontOf(g) \in dFonts \cup {Nil}
    BY <1>4 DEF ReplayGC, FontOf
  <2>3. PICK depth \in IF Known(gcs[g].drawable) THEN {DepthOf(gcs[g].drawable)}
                                                 ELSE Fallbacks(g, scratch') :
          dGcs' = [dGcs EXCEPT ![g] = MadeOn(g, depth)]
    BY <1>4 DEF ReplayGC
  <2>4. g \in Tracked(gcs) /\ phase = "gcs"
    BY <1>4 DEF ReplayGC
  <2>5. depth \in Depths \cup {Nil}
    BY <2>1, <2>3, <2>4, DepthOfDisplayed, FallbackThere
  <2>6. ASSUME AllThere, ~GcLost(g) PROVE MadeOn(g, depth) # Nil
    <3>1. CASE Known(gcs[g].drawable)
      <4>1. Displayed(gcs[g].drawable) /\ depth = DepthOf(gcs[g].drawable)
        BY <2>3, <2>4, <2>6, <3>1 DEF AllThere, Known, Displayed, WindowsInv
      <4> QED
        BY <2>2, <2>4, <2>6, <3>1, <4>1, DepthOfDisplayed, MadeWhenThere DEF Exists
    <3>2. CASE ~Known(gcs[g].drawable) /\ Tracked(windows) # {}
      <4>1. depth # Nil /\ Substituted(g)
        BY <2>1, <2>3, <2>4, <2>6, <3>2, FallbackThere DEF Substituted
      <4> QED
        BY <2>2, <2>4, <2>6, <4>1, MadeWhenThere
    <3>3. CASE ~Known(gcs[g].drawable) /\ Tracked(windows) = {}
      <4>1. gcs[g].drawable = Root
        BY <2>6, <3>3 DEF GcLost, Exists
      <4>2. depth = RealDepth(Root) /\ depth # Nil
        BY <2>1, <2>3, <2>4, <3>3, <4>1, RootFallback
      <4> QED
        BY <2>2, <2>4, <2>6, <4>1, <4>2, MadeWhenThere DEF Exists
    <3> QED
      BY <3>1, <3>2, <3>3
  <2>7. UNCHANGED tables /\ phase' = "gcs" /\ todo' = todo \ {g}
        /\ UNCHANGED <<dPixmaps, dFonts, anyWin>>
    BY <1>4 DEF ReplayGC
  <2>8. dGcs' \in [Gcs -> Depths \cup {Nil}]
    BY <2>3, <2>5 DEF MadeOn
  <2>9. AllThere' = AllThere /\ \A h \in Gcs : GcLost(h)' = GcLost(h)
    BY <2>7, LossKept
  <2>10. ASSUME AllThere', NEW h \in Tracked(gcs) \ todo' PROVE GcHere(h)'
    <3>1. h \in Gcs
      BY DEF Tracked, TrackerOK, TypeOK
    <3>2. CASE h = g
      BY <2>3, <2>6, <2>9, <2>10, <3>1, <3>2
    <3>3. CASE h # g
      <4>1. GcHere(h)
        BY <2>4, <2>7, <2>9, <2>10, <3>3
      <4> QED
        BY <2>3, <2>9, <3>1, <3>3, <4>1
    <3> QED
      BY <3>2, <3>3
  <2>11. Tracked(gcs)' = Tracked(gcs) /\ Tracked(windows)' = Tracked(windows) /\ fonts' = fonts
    BY <2>7 DEF tables, Tracked
  <2> QED
    BY <2>1, <2>4, <2>7, <2>8, <2>10, <2>11
<1>5. ASSUME UNCHANGED tables, UNCHANGED <<dPixmaps, dFonts, dGcs, scratch, anyWin>>,
             phase' = "gcs" => phase = "gcs" /\ todo' = todo,
             \/ phase' \notin {"gcs", "cursors", "map", "done"}
             \/ phase \in {"cursors", "map", "done"}
             \/ phase = "gcs" /\ (phase' = "gcs" \/ todo = {})
      PROVE  GcsInv'
  <2>1. AllThere' = AllThere /\ \A h \in Gcs : GcLost(h)' = GcLost(h)
    BY <1>5, LossKept
  <2>2. Tracked(gcs)' = Tracked(gcs) /\ Tracked(windows)' = Tracked(windows) /\ fonts' = fonts
        /\ Tracked(gcs) \subseteq Gcs
    BY <1>5 DEF tables, Tracked, TrackerOK, TypeOK
  <2> QED
    BY <1>5, <2>1, <2>2
<1>6. CASE \/ \E w \in Windows : ReplayWindow(w)
           \/ FinishWindows
           \/ \E p \in Pixmaps : ReplayPixmap(p)
  BY <1>6 DEF ReplayWindow, FinishWindows, ReplayPixmap, Enter, tables, display, Tracked
<1>7. CASE ReplayPictures \/ ReplayRenderCursors \/ MapWindows
  BY <1>5, <1>7 DEF ReplayPictures, ReplayRenderCursors, MapWindows, Enter
<1>8. CASE UNCHANGED vars
  BY <1>5, <1>8 DEF vars, display, Phases
<1> QED
  BY <1>1, <1>2, <1>3, <1>4, <1>6, <1>7, <1>8 DEF Next, Replay

\* A cursor keeps its record and its source while the tables and the display do.
LEMMA CursorLossKept ==
  ASSUME UNCHANGED tables, UNCHANGED <<dWindows, dPixmaps>>
  PROVE  /\ Tracked(cursors)' = Tracked(cursors)
         /\ \A c : CoreCursorLost(c)' = CoreCursorLost(c)
         /\ UNCHANGED dPictures => \A c : RenderCursorLost(c)' = RenderCursorLost(c)
BY DEF CoreCursorLost, RenderCursorLost, OfDepth, Known, Displayed, Tracked, tables

\* Of the cursors, those are lost whose source is gone in one of three ways.
LEMMA CursorsStep ==
  ASSUME ReplayInv, [Next]_vars
  PROVE  CursorsInv'
<1> USE DEF ReplayInv, CursorsInv
<1>1. CASE AppStep \/ Start \/ FinishWindows
  BY <1>1 DEF AppStep, Start, FinishWindows, Enter, display
<1>2. CASE ReplayFontsAndCursors
  <2>1. ASSUME NEW c \in Tracked(cursors), ~CoreCursorReplayed(c)
        PROVE  CoreCursorLost(c) \/ cursors[c].kind = "render"
    <3>1. cursors[c] \in Cursor
      BY DEF TrackerOK, TypeOK, Tracked
    <3>2. CASE cursors[c].kind = "core"
      BY <2>1, <3>2 DEF CoreCursorReplayed, CoreCursorLost
    <3> QED
      BY <2>1, <3>1, <3>2 DEF CoreCursorReplayed, Cursor
  <2>2. UNCHANGED tables /\ UNCHANGED <<dWindows, dPixmaps>> /\ phase' = "gcs"
        /\ dCursors' = {c \in Tracked(cursors) : CoreCursorReplayed(c)}
    BY <1>2 DEF ReplayFontsAndCursors, Enter
  <2> QED
    BY <2>1, <2>2, CursorLossKept DEF tables
<1>3. CASE ReplayRenderCursors
  <2>1. ASSUME NEW c \in Tracked(cursors), cursors[c].kind = "render", ~RenderCursorReplayed(c)
        PROVE  RenderCursorLost(c)
    BY <2>1 DEF RenderCursorReplayed, PictureRecreated, RenderCursorLost
  <2>2. UNCHANGED tables /\ UNCHANGED <<dWindows, dPixmaps, dPictures>> /\ phase = "cursors"
        /\ phase' = "map" /\ dCursors' = dCursors \cup {c \in Tracked(cursors) : RenderCursorReplayed(c)}
    BY <1>3 DEF ReplayRenderCursors, Enter
  <2> QED
    BY <2>1, <2>2, CursorLossKept
<1>4. CASE \/ \E w \in Windows : ReplayWindow(w)
           \/ \E p \in Pixmaps : ReplayPixmap(p)
  BY <1>4 DEF ReplayWindow, ReplayPixmap
<1>5. CASE \E g \in Gcs : ReplayGC(g)
  BY <1>5, CursorLossKept DEF ReplayGC, tables
<1>6. CASE ReplayPictures
  BY <1>6, CursorLossKept DEF ReplayPictures, Enter, tables
<1>7. CASE MapWindows
  BY <1>7, CursorLossKept DEF MapWindows, Enter
<1>8. CASE UNCHANGED vars
  BY <1>8, CursorLossKept DEF vars, display, tables
<1> QED
  BY <1>1, <1>2, <1>3, <1>4, <1>5, <1>6, <1>7, <1>8 DEF Next, Replay

-----------------------------------------------------------------------------
\* What has been replayed is on the display, from the first step to the last.
LEMMA ReplayInvariant == Spec => []ReplayInv
<1>1. ASSUME ReplayInv, [Next]_vars PROVE phase' \in Phases
  BY <1>1 DEF Next, AppStep, Replay, Start, ReplayWindow, FinishWindows, ReplayPixmap,
     ReplayFontsAndCursors, ReplayGC, ReplayPictures, ReplayRenderCursors, MapWindows, Enter,
     ReplayInv, Phases, vars
<1>2. ReplayInv /\ [Next]_vars => ReplayInv'
  BY <1>1, TrackerStep, WindowsStep, PixmapsStep, GcsStep, CursorsStep DEF ReplayInv
<1> QED
  BY InitialInv, <1>2, PTL DEF Spec

\* The tracker's tables are well formed and have no orphan, whatever legal
\* requests an application makes.
THEOREM TrackerCorrect == Spec => []TrackerOK
BY ReplayInvariant, PTL DEF ReplayInv

\* Every window comes back, parents first, but those created with a background or
\* border pixmap and their descendants; it is mapped as the application left it,
\* unless UnmapSubwindows hid it.
THEOREM WindowsComeBack == Spec => []WindowsRestored
<1>1. ASSUME ReplayInv, phase = "done", NEW w \in dWindows
      PROVE  /\ windows[w].view = "mapped" => w \in dMapped
             /\ windows[w].view = "unmapped" => w \notin dMapped
  <2>1. windows[w] \in Window
    BY <1>1 DEF ReplayInv, WindowsInv, Restorable, Tracked, TrackerOK, TypeOK
  <2>2. w \in dMapped <=> windows[w].mapped
    BY <1>1 DEF ReplayInv, WindowsInv
  <2> QED
    BY <2>1, <2>2 DEF Window
<1>2. ReplayInv => WindowsRestored
  BY <1>1 DEF ReplayInv, WindowsInv, WindowsRestored
<1> QED
  BY <1>2, ReplayInvariant, PTL

\* Every pixmap comes back whose drawable is the root or a window that comes back.
THEOREM PixmapsComeBack == Spec => []PixmapsRestored
<1>1. ReplayInv => PixmapsRestored
  BY DEF ReplayInv, PixmapsInv, PixmapHere, PixmapsRestored
<1> QED
  BY <1>1, ReplayInvariant, PTL

\* If no window or pixmap was lost, every GC comes back whatever drawable, font, tile
\* or stipple was freed, but for a freed clip mask, an identifier used again for a
\* pixmap of another depth, or no window to stand in for the drawable.
THEOREM GcsComeBack == Spec => []GcsRestored
<1>1. ReplayInv => GcsRestored
  BY DEF ReplayInv, GcsInv, GcHere, GcLost, AllThere, GcsRestored
<1> QED
  BY <1>1, ReplayInvariant, PTL

\* Cursors come back whatever was freed, but for those whose source was lost.
THEOREM CursorsComeBack == Spec => []CursorsRestored
<1>1. ReplayInv => CursorsRestored
  BY DEF ReplayInv, CursorsInv, CoreCursorLost, RenderCursorLost, CursorsRestored
<1> QED
  BY <1>1, ReplayInvariant, PTL

-----------------------------------------------------------------------------
(* The depth of a GC *)

DepthInv ==
  /\ phase \in {"app", "windows", "pixmaps"} => \A g \in Gcs : dGcs[g] = Nil
  /\ GcDepthKept

\* What a GC gets instead of its drawable is of its depth, if every window's depth
\* is known: a window or a pixmap of that depth, or a scratch pixmap made for it.
LEMMA FallbackOfDepth ==
  ASSUME ReplayInv, phase = "gcs", NEW g \in Tracked(gcs), WindowsOf(0) = {},
         ~Known(gcs[g].drawable), gcs[g].depth # 0,
         NEW depth \in Fallbacks(g, IF NeedsScratch(g) THEN scratch \cup {gcs[g].depth} ELSE scratch)
  PROVE  depth \in {Nil, gcs[g].depth}
<1> DEFINE d == gcs[g].depth
           made == IF NeedsScratch(g) THEN scratch \cup {d} ELSE scratch
<1>1. CASE WindowsOf(d) # {}
  <2>1. PICK w \in WindowsOf(d) : depth = DepthOf(w)
    BY <1>1 DEF Fallbacks
  <2>2. w \in Tracked(windows) /\ windows[w].depth = d /\ w \in Windows /\ w # Root
    BY <2>1, RootAssumption, DrawablesAssumption DEF WindowsOf, Tracked, ReplayInv, TrackerOK, TypeOK
  <2>3. windows[w].real = d
    <3>1. windows[w] \in Window
      BY <2>2 DEF Tracked, ReplayInv, TrackerOK, TypeOK
    <3> QED
      BY <2>2, <3>1 DEF Window
  <2> QED
    BY <2>1, <2>2, <2>3 DEF DepthOf, RealDepth
<1>2. CASE WindowsOf(d) = {} /\ (PixmapsOf(d) # {} \/ d \in made)
  <2>1. depth \in {DepthOf(x) : x \in PixmapsOf(d)} \cup {ScratchOf(x) : x \in made \cap {d}}
    BY <1>2 DEF Fallbacks
  <2>2. ASSUME NEW p \in PixmapsOf(d) PROVE DepthOf(p) \in {Nil, d}
    <3>1. p \in Tracked(pixmaps) /\ pixmaps[p].depth = d /\ p \notin Windows /\ p # Root
      BY RootAssumption, DrawablesAssumption DEF PixmapsOf, Tracked, ReplayInv, TrackerOK, TypeOK
    <3> QED
      BY <3>1 DEF DepthOf, RealDepth
  <2>3. ScratchOf(d) \in {Nil, d}
    BY DEF ScratchOf
  <2> QED
    BY <2>1, <2>2, <2>3
<1>3. CASE WindowsOf(d) = {} /\ PixmapsOf(d) = {} /\ d \notin made
  <2>1. Tracked(windows) = {}
    BY <1>3 DEF NeedsScratch, ReplayInv, GcsInv
  <2>2. depth = DepthOf(gcs[g].drawable)
    BY <1>3, <2>1 DEF Fallbacks
  <2>3. gcs[g].drawable # Root
    BY DEF Tracked, ReplayInv, TrackerOK, TypeOK, GC
  <2>4. ~Displayed(gcs[g].drawable)
    BY <2>3 DEF Displayed, Known, ReplayInv, WindowsInv, PixmapsInv, Restorable
  <2> QED
    BY <2>2, <2>4 DEF DepthOf
<1> QED
  BY <1>1, <1>2, <1>3

\* Until the GCs are replayed none is on the display; replaying one changes no other.
LEMMA DepthsStep ==
  ASSUME ReplayInv, DepthInv, [Next]_vars
  PROVE  DepthInv'
<1>1. CASE AppStep
  <2>1. \A g \in Gcs : dGcs'[g] = Nil
    BY <1>1 DEF AppStep, display, DepthInv
  <2>2. TypeOK'
    BY TrackerStep DEF TrackerOK
  <2>3. Tracked(gcs)' \subseteq Gcs
    BY <2>2 DEF Tracked, TypeOK
  <2> QED
    BY <2>1, <2>3 DEF DepthInv, GcDepthKept
<1>2. ASSUME NEW g \in Gcs, ReplayGC(g) PROVE DepthInv'
  <2>1. g \in Tracked(gcs) /\ phase = "gcs" /\ phase' = "gcs" /\ UNCHANGED tables
    BY <1>2 DEF ReplayGC, ReplayInv, GcsInv
  <2>2. dGcs \in [Gcs -> Depths \cup {Nil}] /\ Tracked(gcs) \subseteq Gcs
    BY DEF ReplayInv, GcsInv, Tracked, TrackerOK, TypeOK
  <2>3. ASSUME WindowsOf(0) = {}, ~Known(gcs[g].drawable), gcs[g].depth # 0
        PROVE  dGcs'[g] \in {Nil, gcs[g].depth}
    <3>1. PICK depth \in Fallbacks(g, IF NeedsScratch(g) THEN scratch \cup {gcs[g].depth}
                                                         ELSE scratch) :
            dGcs' = [dGcs EXCEPT ![g] = MadeOn(g, depth)]
      BY <1>2, <2>3 DEF ReplayGC
    <3>2. depth \in {Nil, gcs[g].depth}
      BY <2>1, <2>3, <3>1, FallbackOfDepth
    <3> QED
      BY <2>2, <3>1, <3>2 DEF MadeOn
  <2>4. \A h \in Gcs \ {g} : dGcs'[h] = dGcs[h]
    BY <1>2, <2>2 DEF ReplayGC
  <2>5. GcDepthKept'
    BY <2>1, <2>2, <2>3, <2>4 DEF DepthInv, GcDepthKept, tables, Tracked, Known, WindowsOf
  <2> QED
    BY <2>1, <2>5 DEF DepthInv
<1>3. ASSUME UNCHANGED tables, UNCHANGED dGcs,
             phase' \in {"app", "windows", "pixmaps"} => phase \in {"app", "windows", "pixmaps"}
      PROVE  DepthInv'
  BY <1>3 DEF DepthInv, GcDepthKept, tables, Tracked, Known, WindowsOf
<1>4. CASE \/ Start \/ FinishWindows \/ ReplayFontsAndCursors
           \/ \E w \in Windows : ReplayWindow(w)
           \/ \E p \in Pixmaps : ReplayPixmap(p)
           \/ ReplayPictures \/ ReplayRenderCursors \/ MapWindows
  BY <1>3, <1>4 DEF Start, FinishWindows, ReplayFontsAndCursors, ReplayWindow, ReplayPixmap,
                    ReplayPictures, ReplayRenderCursors, MapWindows, Enter, display
<1>5. CASE UNCHANGED vars
  BY <1>3, <1>5 DEF vars, display
<1> QED
  BY <1>1, <1>2, <1>4, <1>5 DEF Next, Replay

\* A GC whose drawable is gone comes back with its depth, if every window's depth
\* is known.
THEOREM GcDepthsComeBack == Spec => []GcDepthKept
<1>1. Init => DepthInv
  BY DEF Init, TrackerInit, DepthInv, GcDepthKept, Tracked
<1>2. ReplayInv /\ DepthInv /\ [Next]_vars => DepthInv'
  BY DepthsStep
<1>3. DepthInv => GcDepthKept
  BY DEF DepthInv
<1> QED
  BY <1>1, <1>2, <1>3, ReplayInvariant, PTL DEF Spec
=============================================================================
