------------------------------ MODULE Synthesis ------------------------------
(***************************************************************************)
(* synthesiseAppConn (internal/server/synthesis.go): after a reconnection    *)
(* the tracked resources are replayed, kind by kind, on a display that has   *)
(* none of them.  The display (external) executes a request if everything    *)
(* it names exists.                                                         *)
(*                                                                         *)
(* The resources of a kind come in the random order of a Go map.  The        *)
(* application is quiet during the replay: what happens when it is not is    *)
(* the subject of Server.                                                    *)
(***************************************************************************)
EXTENDS AppConn

VARIABLES
  phase,     \* "app": the application runs; then the kind being replayed
  todo,      \* resources of this kind not yet replayed
  anyWin,    \* the window scratch pixmaps are created from
  scratch,   \* depths a scratch pixmap was requested for
  dWindows, dMapped, dPixmaps, dFonts, dPictures, dCursors,  \* on the new display
  dGcs       \* dGcs[g]: g's depth on the new display

display == <<dWindows, dMapped, dPixmaps, dFonts, dPictures, dCursors, dGcs>>
vars == <<tables, phase, todo, anyWin, scratch, display>>

Init ==
  /\ TrackerInit
  /\ phase = "app" /\ todo = {} /\ anyWin = Nil /\ scratch = {}
  /\ dWindows = {} /\ dMapped = {} /\ dPixmaps = {} /\ dFonts = {}
  /\ dPictures = {} /\ dCursors = {}
  /\ dGcs = [g \in Gcs |-> Nil]

AppStep == phase = "app" /\ ProcessRequest /\ UNCHANGED <<phase, todo, anyWin, scratch, display>>

Enter(p, work) == phase' = p /\ todo' = work

Start ==
  /\ phase = "app"
  /\ Enter("windows", Tracked(windows))
  /\ UNCHANGED <<tables, anyWin, scratch, display>>

Displayed(d) == d \in dWindows \cup dPixmaps \cup {Root}

\* Windows, parents first from the roots (findRoots, synthesiseWindowCreate).  The
\* background and border pixmaps stay in the request (sanitizeCreateWindow strips
\* the colormap and the cursor), and no pixmap is on the display yet.
AnyOrder(w) == TRUE  \* mutant: no order
ParentFirst(w) == windows[w].parent \notin todo
ReplayWindow(w) ==
  /\ phase = "windows" /\ w \in todo
  /\ ParentFirst(w)
  /\ todo' = todo \ {w}
  /\ dWindows' = IF Displayed(windows[w].parent) /\ windows[w].uses \subseteq dPixmaps
                   THEN dWindows \cup {w} ELSE dWindows
  /\ UNCHANGED <<tables, phase, anyWin, scratch, dMapped, dPixmaps, dFonts, dPictures, dCursors, dGcs>>

FinishWindows ==
  /\ phase = "windows" /\ todo = {}
  /\ Enter("pixmaps", Tracked(pixmaps))
  /\ UNCHANGED <<tables, anyWin, scratch, display>>

\* A pixmap is created from the drawable the application named.
ReplayPixmap(p) ==
  /\ phase = "pixmaps" /\ p \in todo
  /\ todo' = todo \ {p}
  /\ dPixmaps' = IF Displayed(pixmaps[p].drawable) THEN dPixmaps \cup {p} ELSE dPixmaps
  /\ UNCHANGED <<tables, phase, anyWin, scratch, dWindows, dMapped, dFonts, dPictures, dCursors, dGcs>>

\* A closed font is reopened for the cursor by its name, which the tracker
\* keeps; a pixmap that was freed is not recreated.
CoreCursorReplayed(c) ==
  CASE cursors[c].kind = "glyph" -> TRUE
    [] cursors[c].kind = "core" -> cursors[c].src \in dPixmaps /\ OfDepth(cursors[c].src, BitmapDepth)
    [] OTHER -> FALSE

ReplayFontsAndCursors ==
  /\ phase = "pixmaps" /\ todo = {}
  /\ anyWin' \in IF Tracked(windows) = {} THEN {Nil} ELSE Tracked(windows)
  /\ dFonts' = fonts
  /\ dCursors' = {c \in Tracked(cursors) : CoreCursorReplayed(c)}
  /\ Enter("gcs", Tracked(gcs))
  /\ UNCHANGED <<tables, scratch, dWindows, dMapped, dPixmaps, dPictures, dGcs>>

-----------------------------------------------------------------------------
(* Graphics contexts: a drawable that is gone is replaced *)

WindowsOf(d) == {w \in Tracked(windows) : windows[w].depth = d}
PixmapsOf(d) == {p \in Tracked(pixmaps) : pixmaps[p].depth = d}

\* (Mutant) A pixmap is made only if there is no window at all.
NeedsScratchUnlessWindow(g) ==
  /\ ~Known(gcs[g].drawable) /\ gcs[g].depth # 0 /\ Tracked(windows) = {}
  /\ gcs[g].depth \notin scratch

\* ensureScratchPixmap: no drawable of the depth is tracked.
NeedsScratch(g) ==
  LET d == gcs[g].depth IN
    /\ ~Known(gcs[g].drawable) /\ d # 0 /\ anyWin # Nil
    /\ WindowsOf(d) = {} /\ PixmapsOf(d) = {} /\ d \notin scratch

\* The drawables sanitizeGCDrawable may choose, as depths on the new display: a
\* window of the GC's depth, else one of depth 0, else a pixmap, else any
\* window; Nil if the drawable chosen is not there.
DepthOf(d) == IF Displayed(d) THEN RealDepth(d) ELSE Nil
ScratchOf(d) == IF anyWin \in dWindows THEN d ELSE Nil
Fallbacks(g, scratched) ==
  LET d == gcs[g].depth
      exact == IF d = 0 THEN Tracked(windows) ELSE WindowsOf(d)
      depths(D) == {DepthOf(x) : x \in D}
  IN CASE exact # {} -> depths(exact)
       [] exact = {} /\ WindowsOf(0) # {} -> depths(WindowsOf(0))
       [] exact \cup WindowsOf(0) = {} /\ (PixmapsOf(d) # {} \/ d \in scratched) ->
            depths(PixmapsOf(d)) \cup {ScratchOf(x) : x \in scratched \cap {d}}
       [] OTHER -> depths(IF Tracked(windows) # {} THEN Tracked(windows) ELSE {gcs[g].drawable})

\* sanitizeGCFont: a font that is closed is left out of the request.
FontAsCreated(g) == gcs[g].font  \* mutant: not sanitised
FontOf(g) == IF gcs[g].font \in fonts THEN gcs[g].font ELSE Nil

\* sanitizeGCDrawable strips the tile if it replaces the drawable, and
\* sanitizeGCPixmapAttrs a tile or a stipple that is freed.  A freed clip mask
\* stays in the request.
Substituted(g) ==
  ~Known(gcs[g].drawable) /\ (Tracked(windows) # {} \/ PixmapsOf(gcs[g].depth) # {})
IfTracked(p) == IF p \in Tracked(pixmaps) THEN p ELSE Nil
TileOf(g) == IF Substituted(g) THEN Nil ELSE IfTracked(gcs[g].tile)
StippleOf(g) == IfTracked(gcs[g].stipple)

Accepts(p, depth) == p = Nil \/ (p \in dPixmaps /\ pixmaps[p].depth = depth)
MadeOn(g, depth) ==
  IF /\ FontOf(g) \in dFonts \cup {Nil}
     /\ Accepts(TileOf(g), depth)
     /\ Accepts(StippleOf(g), BitmapDepth) /\ Accepts(gcs[g].clip, BitmapDepth)
    THEN depth ELSE Nil

ReplayGC(g) ==
  /\ phase = "gcs" /\ g \in todo
  /\ todo' = todo \ {g}
  /\ scratch' = IF NeedsScratch(g) THEN scratch \cup {gcs[g].depth} ELSE scratch
  /\ \E depth \in IF Known(gcs[g].drawable) THEN {DepthOf(gcs[g].drawable)}
                                             ELSE Fallbacks(g, scratch') :
       dGcs' = [dGcs EXCEPT ![g] = MadeOn(g, depth)]
  /\ UNCHANGED <<tables, phase, anyWin, dWindows, dMapped, dPixmaps, dFonts, dPictures, dCursors>>

-----------------------------------------------------------------------------
(* Pictures, the cursors made of them, and mapping *)

ReplayPictures ==
  /\ phase = "gcs" /\ todo = {}
  /\ dPictures' = {r \in Tracked(pictures) : pictures[r] = "solid" \/ Displayed(pictures[r])}
  /\ Enter("cursors", {})
  /\ UNCHANGED <<tables, anyWin, scratch, dWindows, dMapped, dPixmaps, dFonts, dCursors, dGcs>>

\* From the picture if it is tracked; else the picture is recreated for the
\* cursor, or replaced by a glyph cursor if its drawable is gone.
NoGlyphFallback(c) == cursors[c].saved = "solid" \/ Displayed(cursors[c].saved)  \* mutant
PictureRecreated(c) ==
  LET saved == cursors[c].saved IN
    saved = "solid" \/ ~Known(saved) \/ Displayed(saved)
RenderCursorReplayed(c) ==
  /\ cursors[c].kind = "render"
  /\ IF cursors[c].src \in Tracked(pictures)
       THEN cursors[c].src \in dPictures
       ELSE PictureRecreated(c)

ReplayRenderCursors ==
  /\ phase = "cursors"
  /\ dCursors' = dCursors \cup {c \in Tracked(cursors) : RenderCursorReplayed(c)}
  /\ Enter("map", {})
  /\ UNCHANGED <<tables, anyWin, scratch, dWindows, dMapped, dPixmaps, dFonts, dPictures, dGcs>>

MapWindows ==
  /\ phase = "map"
  /\ dMapped' = {w \in dWindows : windows[w].mapped}
  /\ Enter("done", {})
  /\ UNCHANGED <<tables, anyWin, scratch, dWindows, dPixmaps, dFonts, dPictures, dCursors, dGcs>>

Replay ==
  \/ Start
  \/ \E w \in Windows : ReplayWindow(w)
  \/ FinishWindows
  \/ \E p \in Pixmaps : ReplayPixmap(p)
  \/ ReplayFontsAndCursors
  \/ \E g \in Gcs : ReplayGC(g)
  \/ ReplayPictures \/ ReplayRenderCursors \/ MapWindows

Next == AppStep \/ Replay
Spec == Init /\ [][Next]_vars

-----------------------------------------------------------------------------
(* What is on the display after the replay *)

\* The windows that can be: not those created with a background or border
\* pixmap, nor their descendants.
Restorable == Tracked(windows) \ Subtrees({w \in Tracked(windows) : windows[w].uses # {}})

\* Every one of these is, and no other: none is created before its parent, and no
\* destroyed parent leaves a child behind.  It is mapped as the application left it,
\* unless UnmapSubwindows hid it (synthesis.go:70-75, 362-418, 520-522).
WindowsRestored ==
  phase = "done" =>
    /\ dWindows = Restorable /\ dMapped \subseteq dWindows
    /\ \A w \in dWindows : /\ windows[w].view = "mapped" => w \in dMapped
                          /\ windows[w].view = "unmapped" => w \notin dMapped

\* A pixmap is, if it was created from the root window or from a window that is: its
\* depth and size need no drawable, but the replay does (synthesis.go:77-85).
PixmapsRestored ==
  phase = "done" =>
    \A p \in Tracked(pixmaps) :
      pixmaps[p].drawable \in Restorable \cup {Root} => p \in dPixmaps

\* A pixmap named by the request for g, or its drawable, was freed and created again
\* with another depth.
Mismatched(g) ==
  LET now == gcs[g] IN
    \/ Exists(now.drawable) /\ now.tile \in Tracked(pixmaps)
                            /\ ~OfDepth(now.tile, RealDepth(now.drawable))
    \/ \E p \in {now.stipple, now.clip} \cap Tracked(pixmaps) : ~OfDepth(p, BitmapDepth)

\* If no window or pixmap was lost, every GC is, whatever drawable, font, tile or
\* stipple was freed after it was created, unless its clip mask was freed, there is
\* no window to replace its drawable, or an identifier was used again for a pixmap
\* of another depth (synthesis.go:166-256, 650).
GcsRestored ==
  phase = "done" /\ Restorable = Tracked(windows) /\ Tracked(pixmaps) \subseteq dPixmaps =>
    \A g \in Tracked(gcs) :
      \/ dGcs[g] # Nil
      \/ ~Exists(gcs[g].drawable) /\ Tracked(windows) = {}
      \/ gcs[g].clip \notin Tracked(pixmaps) \cup {Nil}
      \/ Mismatched(g)

\* Every cursor is, whatever was freed after it was created, except from a pixmap
\* that is freed or used again, or from a tracked drawable or picture that was lost
\* (synthesis.go:119-164, 287-342).
CursorsRestored ==
  phase = "done" =>
    \A c \in Tracked(cursors) \ dCursors :
      \/ /\ cursors[c].kind = "core"
         /\ ~(cursors[c].src \in dPixmaps /\ OfDepth(cursors[c].src, BitmapDepth))
      \/ /\ cursors[c].kind = "render"
         /\ \/ cursors[c].src \in Tracked(pictures) \ dPictures
            \/ Known(cursors[c].saved) /\ ~Displayed(cursors[c].saved)

\* A GC whose drawable is gone, and whose depth the tracker knows, keeps that depth
\* on the drawable it gets instead (synthesis.go:213-216: "This preserves the GC's
\* depth property"), as long as no window of unknown depth is tracked:
\* sanitizeGCDrawable prefers one to the scratch pixmap.
GcDepthKept ==
  WindowsOf(0) = {} =>
    \A g \in Tracked(gcs) :
      ~Known(gcs[g].drawable) /\ gcs[g].depth # 0 => dGcs[g] \in {Nil, gcs[g].depth}
=============================================================================
