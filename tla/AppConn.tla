------------------------------- MODULE AppConn -------------------------------
(***************************************************************************)
(* The tracker of one application connection (internal/x11/state.go): the   *)
(* tables ProcessRequest keeps of the application's resources, and the      *)
(* requests that change them.                                               *)
(*                                                                         *)
(* Requests are legal: an identifier is free when it is created and names   *)
(* something when it is used.  Of each resource the tables keep what the    *)
(* replay after a reconnection depends on: what it was created from, and    *)
(* its depth.  Depth 0 is CopyFromParent, or unknown.  UnmapSubwindows,     *)
(* CopyGC, SetDashes and SetClipRectangles are not tracked: the last three   *)
(* change nothing kept here and are left to Contents.                       *)
(***************************************************************************)
EXTENDS Naturals

CONSTANTS Windows, Pixmaps, Gcs, Fonts, Pictures, Cursors,  \* identifiers
          Root,         \* the root window, which the tracker does not know
          Depths,       \* depths of drawables: 1 and those of windows
          RootDepth,
          Nil,          \* no resource
          MaxRequests   \* bound: requests of the application

ASSUME RootAssumption == Root \notin Windows \cup Pixmaps
ASSUME DrawablesAssumption == Windows \cap Pixmaps = {}
ASSUME NilAssumption ==
  /\ Nil \notin Windows \cup Pixmaps \cup Fonts \cup {Root, "solid"}
  /\ Nil \notin Depths
  /\ "solid" \notin Windows \cup Pixmaps \cup {Root}
ASSUME DepthsAssumption ==
  Depths \subseteq Nat \ {0} /\ 1 \in Depths /\ RootDepth \in Depths \ {1}
ASSUME MaxRequestsAssumption == MaxRequests \in Nat

VARIABLES windows, pixmaps, gcs, fonts, pictures, cursors, seqNum

tables == <<windows, pixmaps, gcs, fonts, pictures, cursors, seqNum>>

Drawables == Windows \cup Pixmaps \cup {Root}

BitmapDepth == 1
WindowDepths == Depths \ {BitmapDepth}

\* uses: the pixmaps named by CWBackPixmap and CWBorderPixmap.  History: real is
\* the depth the display gives the window, which the tracker does not know of a
\* window created with depth 0; view is how the application left it, "hidden" by
\* UnmapSubwindows, which the tracker does not see.
Window ==
  {w \in [parent : Windows \cup {Root}, depth : WindowDepths \cup {0}, mapped : BOOLEAN,
          uses : SUBSET Pixmaps, real : WindowDepths, view : {"mapped", "unmapped", "hidden"}] :
     w.depth \in {0, w.real} /\ w.mapped = (w.view # "unmapped")}
Pixmap == [drawable : Drawables, depth : Depths]
ASSUME NoWindowAssumption == Nil \notin Window

\* The depth of a GC made on the root window is not known.
GC ==
  {g \in [drawable : Drawables, depth : Depths \cup {0}, font : Fonts \cup {Nil},
          tile : Pixmaps \cup {Nil}, stipple : Pixmaps \cup {Nil}, clip : Pixmaps \cup {Nil}] :
     g.drawable = Root => g.depth = 0}

\* A picture is its drawable, or a solid fill or gradient.
Picture == Drawables \cup {"solid"}

\* A cursor's source is a font, a pixmap or a picture; saved is the picture's
\* own create request (renderPicReq).
Cursor == [kind : {"glyph"}, src : Fonts]
          \cup [kind : {"core"}, src : Pixmaps]
          \cup [kind : {"render"}, src : Pictures, saved : Picture]

TypeOK ==
  /\ windows \in [Windows -> Window \cup {Nil}]
  /\ pixmaps \in [Pixmaps -> Pixmap \cup {Nil}]
  /\ gcs \in [Gcs -> GC \cup {Nil}]
  /\ fonts \subseteq Fonts
  /\ pictures \in [Pictures -> Picture \cup {Nil}]
  /\ cursors \in [Cursors -> Cursor \cup {Nil}]
  /\ seqNum \in Nat

TrackerInit ==
  /\ windows = [w \in Windows |-> Nil]
  /\ pixmaps = [p \in Pixmaps |-> Nil]
  /\ gcs = [g \in Gcs |-> Nil]
  /\ fonts = {}
  /\ pictures = [r \in Pictures |-> Nil]
  /\ cursors = [c \in Cursors |-> Nil]
  /\ seqNum = 0

-----------------------------------------------------------------------------
Tracked(table) == {x \in DOMAIN table : table[x] # Nil}
Known(d) == d \in Tracked(windows) \cup Tracked(pixmaps)
Exists(d) == d = Root \/ Known(d)

RealDepth(d) == IF d = Root THEN RootDepth
                ELSE IF d \in Windows THEN windows[d].real ELSE pixmaps[d].depth

\* DrawableDepth: unknown for the root window.
DrawableDepth(d) == IF d \in Tracked(pixmaps) THEN pixmaps[d].depth
                    ELSE IF d \in Tracked(windows) THEN windows[d].depth ELSE 0

OfDepth(p, depth) == p \in Tracked(pixmaps) /\ pixmaps[p].depth = depth

Children(w) == {v \in Tracked(windows) : windows[v].parent = w}

\* The windows of W and their descendants (destroyWindowTree).
JustThese(W) == W  \* mutant: no cascade
Subtrees(W) ==
  {v \in Tracked(windows) :
     \A S \in SUBSET Windows : W \subseteq S /\ (\A u \in S : Children(u) \subseteq S) => v \in S}

-----------------------------------------------------------------------------
(* Requests *)

Request == seqNum < MaxRequests /\ seqNum' = seqNum + 1

CreateWindow(w, parent, depth, uses) ==
  LET real == IF depth = 0 THEN RealDepth(parent) ELSE depth IN
  /\ Request
  /\ windows[w] = Nil
  /\ parent = Root \/ parent \in Tracked(windows)
  /\ \A p \in uses : OfDepth(p, real)
  /\ windows' = [windows EXCEPT ![w] =
       [parent |-> parent, depth |-> depth, mapped |-> FALSE, uses |-> uses, real |-> real,
        view |-> "unmapped"]]
  /\ UNCHANGED <<pixmaps, gcs, fonts, pictures, cursors>>

SetView(W, view) ==
  /\ windows' = [w \in Windows |->
                   IF w \in W THEN [windows[w] EXCEPT !.mapped = (view # "unmapped"), !.view = view]
                              ELSE windows[w]]
  /\ UNCHANGED <<pixmaps, gcs, fonts, pictures, cursors>>

MapWindow(w) == Request /\ w \in Tracked(windows) /\ SetView({w}, "mapped")
UnmapWindow(w) == Request /\ w \in Tracked(windows) /\ SetView({w}, "unmapped")
MapSubwindows(w) == Request /\ w \in Tracked(windows) /\ SetView(Children(w), "mapped")

\* UnmapSubwindows is not tracked: the windows it unmaps stay mapped in the tables.
UnmapSubwindows(w) ==
  /\ Request
  /\ w \in Tracked(windows)
  /\ SetView({v \in Children(w) : windows[v].view = "mapped"}, "hidden")

Destroy(W) ==
  /\ windows' = [w \in Windows |-> IF w \in Subtrees(W) THEN Nil ELSE windows[w]]
  /\ UNCHANGED <<pixmaps, gcs, fonts, pictures, cursors>>

DestroyWindow(w) == Request /\ w \in Tracked(windows) /\ Destroy({w})
DestroySubwindows(w) == Request /\ w \in Tracked(windows) /\ Destroy(Children(w))

CreatePixmap(p, drawable, depth) ==
  /\ Request
  /\ pixmaps[p] = Nil
  /\ Exists(drawable)
  /\ pixmaps' = [pixmaps EXCEPT ![p] = [drawable |-> drawable, depth |-> depth]]
  /\ UNCHANGED <<windows, gcs, fonts, pictures, cursors>>

FreePixmap(p) ==
  /\ Request
  /\ p \in Tracked(pixmaps)
  /\ pixmaps' = [pixmaps EXCEPT ![p] = Nil]
  /\ UNCHANGED <<windows, gcs, fonts, pictures, cursors>>

OpenFont(f) ==
  /\ Request
  /\ f \notin fonts
  /\ fonts' = fonts \cup {f}
  /\ UNCHANGED <<windows, pixmaps, gcs, pictures, cursors>>

CloseFont(f) ==
  /\ Request
  /\ f \in fonts
  /\ fonts' = fonts \ {f}
  /\ UNCHANGED <<windows, pixmaps, gcs, pictures, cursors>>

\* A tile is of the drawable's depth; a stipple and a clip mask are bitmaps.
CreateGC(g, drawable, font, tile, stipple, clip) ==
  /\ Request
  /\ gcs[g] = Nil
  /\ Exists(drawable)
  /\ font \in fonts \cup {Nil}
  /\ tile # Nil => OfDepth(tile, RealDepth(drawable))
  /\ \A p \in {stipple, clip} \ {Nil} : OfDepth(p, BitmapDepth)
  /\ gcs' = [gcs EXCEPT ![g] =
       [drawable |-> drawable, depth |-> DrawableDepth(drawable), font |-> font,
        tile |-> tile, stipple |-> stipple, clip |-> clip]]
  /\ UNCHANGED <<windows, pixmaps, fonts, pictures, cursors>>

FreeGC(g) ==
  /\ Request
  /\ g \in Tracked(gcs)
  /\ gcs' = [gcs EXCEPT ![g] = Nil]
  /\ UNCHANGED <<windows, pixmaps, fonts, pictures, cursors>>

\* RenderCreatePicture, or a solid fill or gradient.
CreatePicture(r, source) ==
  /\ Request
  /\ pictures[r] = Nil
  /\ source = "solid" \/ Exists(source)
  /\ pictures' = [pictures EXCEPT ![r] = source]
  /\ UNCHANGED <<windows, pixmaps, gcs, fonts, cursors>>

FreePicture(r) ==
  /\ Request
  /\ r \in Tracked(pictures)
  /\ pictures' = [pictures EXCEPT ![r] = Nil]
  /\ UNCHANGED <<windows, pixmaps, gcs, fonts, cursors>>

CreateCursor(c, cursor) ==
  /\ Request
  /\ cursors[c] = Nil
  /\ cursors' = [cursors EXCEPT ![c] = cursor]
  /\ UNCHANGED <<windows, pixmaps, gcs, fonts, pictures>>

CreateGlyphCursor(c, f) == f \in fonts /\ CreateCursor(c, [kind |-> "glyph", src |-> f])
CreateCoreCursor(c, p) == OfDepth(p, BitmapDepth) /\ CreateCursor(c, [kind |-> "core", src |-> p])

\* The display frees the pictures of a window it destroys.
RenderCreateCursor(c, r) ==
  /\ r \in Tracked(pictures)
  /\ pictures[r] \in Windows => pictures[r] \in Tracked(windows)
  /\ CreateCursor(c, [kind |-> "render", src |-> r, saved |-> pictures[r]])

FreeCursor(c) ==
  /\ Request
  /\ c \in Tracked(cursors)
  /\ cursors' = [cursors EXCEPT ![c] = Nil]
  /\ UNCHANGED <<windows, pixmaps, gcs, fonts, pictures>>

ProcessRequest ==
  \/ \E w \in Windows :
       \/ \E parent \in Windows \cup {Root}, d \in WindowDepths \cup {0}, uses \in SUBSET Pixmaps :
            CreateWindow(w, parent, d, uses)
       \/ MapWindow(w) \/ UnmapWindow(w) \/ MapSubwindows(w) \/ UnmapSubwindows(w)
       \/ DestroyWindow(w) \/ DestroySubwindows(w)
  \/ \E p \in Pixmaps :
       \/ \E drawable \in Drawables, d \in Depths : CreatePixmap(p, drawable, d)
       \/ FreePixmap(p)
  \/ \E f \in Fonts : OpenFont(f) \/ CloseFont(f)
  \/ \E g \in Gcs :
       \/ \E drawable \in Drawables, f \in Fonts \cup {Nil}, tile, stipple, clip \in Pixmaps \cup {Nil} :
            CreateGC(g, drawable, f, tile, stipple, clip)
       \/ FreeGC(g)
  \/ \E r \in Pictures :
       \/ \E source \in Picture : CreatePicture(r, source)
       \/ FreePicture(r)
  \/ \E c \in Cursors :
       \/ \E f \in Fonts : CreateGlyphCursor(c, f)
       \/ \E p \in Pixmaps : CreateCoreCursor(c, p)
       \/ \E r \in Pictures : RenderCreateCursor(c, r)
       \/ FreeCursor(c)

-----------------------------------------------------------------------------
\* Every tracked window's parent is tracked: no orphan is left for findRoots to
\* take for a root (destroyWindowTree, state.go:463-467).
ParentsTracked ==
  \A w \in Tracked(windows) : windows[w].parent \in Tracked(windows) \cup {Root}
TrackerOK == TypeOK /\ ParentsTracked
=============================================================================
