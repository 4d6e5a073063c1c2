------------------------------ MODULE Contents ------------------------------
(***************************************************************************)
(* What the replay brings back of what the tracker keeps as logs of requests  *)
(* (internal/x11/state.go, internal/server/synthesis.go): the contents of    *)
(* pixmaps, drawn again with the graphics contexts as they are by then,      *)
(* graphics contexts, a property of a window; and pixmaps in shared memory.   *)
(*                                                                         *)
(* The application goes on during the replay.  Its requests reach the        *)
(* tracker but no display, so each kind of resource is replayed as of the    *)
(* moment its own snapshot is taken.  The display (external) executes a       *)
(* request if everything it names exists, and one of a kind at a time.       *)
(*                                                                         *)
(* A depth is not part of this: an identifier is used with one only, and     *)
(* there is a window for a GC whose drawable is gone.  The windows name no   *)
(* pixmaps.  Synthesis has both.                                            *)
(***************************************************************************)
EXTENDS Naturals, SequencesExt

CONSTANTS Pixmaps, Gcs, Segments, Windows, Colours,
          Values,       \* what is written to the property
          Top,          \* a window the application keeps, with the property
          Root,         \* the root window, which the tracker does not know
          Nil,
          MaxRequests,  \* bound: requests of the application,
          MaxEarly, MaxLate  \* bounds: before the replay, and during it

ASSUME WindowsAssumption == ({Root} \cup Windows) \cap Pixmaps = {} /\ Root \notin Windows
ASSUME IdsAssumption == Pixmaps \cap Gcs = {} /\ Pixmaps \cap Colours = {}
ASSUME NilAssumption ==
  Nil \notin Pixmaps \cup Segments \cup Colours \cup Gcs \cup {"default", "freed", "astray"}
ASSUME AstrayAssumption == {"freed", "astray"} \cap (Pixmaps \cup Colours) = {}
ASSUME BoundsAssumption == {MaxRequests, MaxEarly, MaxLate} \subseteq Nat

VARIABLES
  pixmaps,     \* [drawable, seg, log]: the segment it lies in, and the third word of
               \* the draw requests logged
  gcs,         \* [drawable, made, changes]: what it was created with, and the ChangeCmds
  windows,
  shmSegs,     \* attached
  propertyCmds,  \* [mode, value]: Top's
  early, late, \* requests before the replay, and during it
  phase,       \* "app", then the kind to be replayed next
  unsent,      \* of the snapshot of propertyCmds, what synthesiseWindowCreate has yet to send
  oldPixmaps, oldGcs,  \* the snapshots draws are replayed from
  dSegs, dWindows, dPixmaps, dGcs, dShown,  \* on the new display: dShown[p] was painted last
  dValue,
  badDraws,    \* draws replayed that the display refused: <<pixmap, GC>>
  value,       \* of Top's property, on the display the application believes in (history)
  unlogged,    \* whether the log no longer says so (history)
  had,         \* the values of the property since that snapshot, if the log said so then, and
               \* no replacement has had more than one request to overwrite (history)
  stable,      \* identifiers no request created, changed or freed since Start (history)
  painting,    \* painting[g]: what g paints with on the display the application believes
               \* in: "freed", a tile since freed; "astray", what the tracker has not
               \* seen (history)
  kept         \* kept[p]: [gc, colour], what p was last painted with there, if by a logged
               \* request before the pixmaps were replayed, with a plain colour and all
               \* over, by a GC that is not changed since (history)

replayed == <<unsent, had>>
logged == <<propertyCmds, value, unlogged>>
property == <<logged, replayed>>
resources == <<pixmaps, gcs, shmSegs, windows, painting, kept>>
display == <<dSegs, dWindows, dPixmaps, dGcs, dShown, dValue, badDraws>>
bounds == <<early, late>>
tracker == <<logged, resources, bounds>>
vars == <<tracker, replayed, phase, oldPixmaps, oldGcs, display, stable>>

Ids == Pixmaps \cup Gcs \cup Segments \cup Windows \cup {Top}
Drawables == Pixmaps \cup Windows \cup {Root}
Paints == Colours \cup Pixmaps  \* a foreground, or a tile
Pixmap == [drawable : Drawables, seg : Segments \cup {Nil}, log : Seq(Gcs \cup Pixmaps)]
PropertyCmd == [mode : {"replace", "append", "prepend"}, value : Values]
ASSUME NoPixmapAssumption == Nil \notin Pixmap
\* What a request gives a GC to paint with.  A clip mask is the pixmap of a request
\* that the replay sends as it is; a stipple is as a tile, and fonts are Synthesis's.
Setting == [paint : Paints, clip : Pixmaps \cup {Nil}]
GC == [drawable : Drawables, made : Setting, changes : Seq(Setting)]
Kept == [gc : Gcs, colour : Colours]
ASSUME NoGCAssumption == Nil \notin GC \cup Kept

\* The last of log that is in S, of those it holds.
LastIn(log, S) ==
  log[CHOOSE i \in DOMAIN log : log[i] \in S /\ \A j \in (i + 1)..Len(log) : log[j] \notin S]

None(S) == [x \in S |-> Nil]
Tracked(table) == {x \in DOMAIN table : table[x] # Nil}

Init ==
  /\ pixmaps = None(Pixmaps) /\ gcs = None(Gcs) /\ shmSegs = {} /\ windows = Windows
  /\ early = 0 /\ late = 0 /\ painting = None(Gcs) /\ kept = None(Pixmaps)
  /\ propertyCmds = <<>> /\ value = <<>> /\ unlogged = FALSE /\ dValue = <<>>
  /\ unsent = <<>> /\ had = {}
  /\ phase = "app" /\ oldPixmaps = None(Pixmaps) /\ oldGcs = None(Gcs)
  /\ dSegs = {} /\ dWindows = {} /\ dPixmaps = {} /\ dGcs = None(Gcs) /\ dShown = None(Pixmaps)
  /\ badDraws = {} /\ stable = {}

-----------------------------------------------------------------------------
(* Requests of the application *)

Request(touched) ==
  /\ phase # "done" /\ early + late < MaxRequests
  /\ IF phase = "app"
       THEN early < MaxEarly /\ early' = early + 1 /\ UNCHANGED late
       ELSE late < MaxLate /\ late' = late + 1 /\ UNCHANGED early
  /\ stable' = stable \ touched
  /\ UNCHANGED <<phase, oldPixmaps, oldGcs, display>>

ResourceRequest(touched) == Request(touched) /\ UNCHANGED property
PropertyRequest == Request({Top}) /\ UNCHANGED resources

\* What p shows is no longer what a logged request painted.
Forget(P) == kept' = [p \in Pixmaps |-> IF p \in P THEN Nil ELSE kept[p]]
PaintedWith(g) == {p \in Tracked(kept) : kept[p].gc = g}

\* A window made, or destroyed, whatever is made on it.
CreateWindow(w) ==
  /\ ResourceRequest({w})
  /\ w \notin windows
  /\ windows' = windows \cup {w}
  /\ UNCHANGED <<pixmaps, gcs, shmSegs, painting, kept>>

DestroyWindow(w) ==
  /\ ResourceRequest({w})
  /\ w \in windows
  /\ windows' = windows \ {w}
  /\ UNCHANGED <<pixmaps, gcs, shmSegs, painting, kept>>

Present == Tracked(pixmaps) \cup windows \cup {Root}

NewPixmap(p, drawable, seg) ==
  /\ ResourceRequest({p})
  /\ pixmaps[p] = Nil /\ drawable \in Present
  /\ pixmaps' = [pixmaps EXCEPT ![p] = [drawable |-> drawable, seg |-> seg, log |-> <<>>]]
  /\ UNCHANGED <<gcs, shmSegs, windows, painting, kept>>
CreatePixmap(p, drawable) == NewPixmap(p, drawable, Nil)
ShmCreatePixmap(p, drawable, s) == s \in shmSegs /\ NewPixmap(p, drawable, s)

\* A GC goes on painting with a tile that is freed.
FreePixmap(p) ==
  /\ ResourceRequest({p})
  /\ p \in Tracked(pixmaps)
  /\ pixmaps' = [pixmaps EXCEPT ![p] = Nil]
  /\ painting' = [g \in Gcs |-> IF painting[g] = p THEN "freed" ELSE painting[g]]
  /\ Forget({p})
  /\ UNCHANGED <<gcs, shmSegs, windows>>

ShmAttach(s) ==
  /\ ResourceRequest({s})
  /\ s \notin shmSegs
  /\ shmSegs' = shmSegs \cup {s}
  /\ UNCHANGED <<pixmaps, gcs, windows, painting, kept>>

ShmDetach(s) ==
  /\ ResourceRequest({s})
  /\ s \in shmSegs
  /\ shmSegs' = shmSegs \ {s}
  /\ UNCHANGED <<pixmaps, gcs, windows, painting, kept>>

CanSet(set) ==
  set.paint \in Colours \cup Tracked(pixmaps) /\ set.clip \in Tracked(pixmaps) \cup {Nil}

CreateGC(g, drawable, set) ==
  /\ ResourceRequest({g})
  /\ gcs[g] = Nil
  /\ drawable \in Present /\ CanSet(set)
  /\ gcs' = [gcs EXCEPT ![g] = [drawable |-> drawable, made |-> set, changes |-> <<>>]]
  /\ painting' = [painting EXCEPT ![g] = set.paint]
  /\ UNCHANGED <<pixmaps, shmSegs, windows, kept>>

ChangeGC(g, set) ==
  /\ ResourceRequest({g})
  /\ g \in Tracked(gcs) /\ CanSet(set)
  /\ gcs' = [gcs EXCEPT ![g].changes = Append(@, set)]
  /\ painting' = [painting EXCEPT ![g] = IF @ = "astray" THEN @ ELSE set.paint]
  /\ Forget(PaintedWith(g))
  /\ UNCHANGED <<pixmaps, shmSegs, windows>>

\* CopyGC, SetDashes or SetClipRectangles, which the tracker does not look at.
AlterGC(g) ==
  /\ ResourceRequest({})
  /\ g \in Tracked(gcs)
  /\ painting' = [painting EXCEPT ![g] = "astray"]
  /\ UNCHANGED <<pixmaps, gcs, shmSegs, windows, kept>>

FreeGC(g) ==
  /\ ResourceRequest({g})
  /\ g \in Tracked(gcs)
  /\ gcs' = [gcs EXCEPT ![g] = Nil]
  /\ painting' = [painting EXCEPT ![g] = Nil]
  /\ Forget(PaintedWith(g))
  /\ UNCHANGED <<pixmaps, shmSegs, windows>>

\* maybeTrackDrawCmd: requests are logged in the order they come.
LogFirst(p, word) == [pixmaps EXCEPT ![p].log = <<word>> \o @]  \* mutant
Logged(p, word) == [pixmaps EXCEPT ![p].log = Append(@, word)]

Unclipped(gc) == \A set \in {gc.made} \cup ToSet(gc.changes) : set.clip = Nil
Keeps(g) ==
  /\ phase \in {"app", "segments", "windows", "property", "pixmaps"}
  /\ painting[g] \in Colours /\ Unclipped(gcs[g])

Draw(p, g) ==
  /\ ResourceRequest({})
  /\ p \in Tracked(pixmaps) /\ g \in Tracked(gcs)
  /\ pixmaps' = Logged(p, g)
  /\ kept' = [kept EXCEPT ![p] = IF Keeps(g) THEN [gc |-> g, colour |-> painting[g]] ELSE Nil]
  /\ UNCHANGED <<gcs, shmSegs, windows, painting>>

\* CopyArea and CopyPlane name the source, under which they are logged, where
\* other requests have the drawable, and the destination where these have the GC.
CopyArea(src, dst) ==
  /\ ResourceRequest({})
  /\ {src, dst} \subseteq Tracked(pixmaps) /\ Tracked(gcs) # {}
  /\ pixmaps' = Logged(src, dst)
  /\ Forget({dst})
  /\ UNCHANGED <<gcs, shmSegs, windows, painting>>

\* A RENDER request or ShmPutImage, which is not logged.
RenderDraw(p) ==
  /\ ResourceRequest({})
  /\ p \in Tracked(pixmaps)
  /\ Forget({p})
  /\ UNCHANGED <<pixmaps, gcs, shmSegs, windows, painting>>

-----------------------------------------------------------------------------
Written(old, mode, v) ==
  CASE mode = "replace" -> <<v>>
    [] mode = "append" -> Append(old, v)
    [] mode = "prepend" -> <<v>> \o old

\* handleChangeProperty: a replacement overwrites the first entry of the property.
\* What was appended after it stays in the log.
FirstOverwritten(log, cmd) == IF log # <<>> THEN [log EXCEPT ![1] = cmd] ELSE <<cmd>>  \* mutant
Recorded(log, cmd) ==
  IF cmd.mode = "replace" /\ log # <<>> THEN [log EXCEPT ![1] = cmd] ELSE Append(log, cmd)

\* Windows copies the struct of a window, and with it the log but not the array it
\* lies in, which is the tracker's own until an append needs a longer one: what
\* replaces the first request may replace one that is about to be sent.
MayReplaceUnsent(cmd) ==
  \/ UNCHANGED unsent
  \/ cmd.mode = "replace" /\ unsent # <<>> /\ dValue = <<>> /\ unsent' = [unsent EXCEPT ![1] = cmd]

ChangeProperty(mode, v) ==
  LET cmd == [mode |-> mode, value |-> v]
      mixed == mode = "replace" /\ Len(propertyCmds) > 1
  IN /\ PropertyRequest
     /\ propertyCmds' = Recorded(propertyCmds, cmd)
     /\ MayReplaceUnsent(cmd)
     /\ value' = Written(value, mode, v)
     /\ unlogged' = IF mode = "replace" THEN mixed ELSE unlogged
     /\ had' = IF mixed \/ had = {} THEN {} ELSE had \cup {value'}

\* The tracker does not look at DeleteProperty.
DeleteProperty ==
  /\ PropertyRequest
  /\ value' = <<>>
  /\ unlogged' = (propertyCmds # <<>>)
  /\ had' = IF had = {} THEN {} ELSE had \cup {<<>>}
  /\ UNCHANGED <<propertyCmds, unsent>>

ProcessRequest ==
  \/ \E p \in Pixmaps :
       \/ FreePixmap(p) \/ RenderDraw(p)
       \/ \E d \in Drawables :
            CreatePixmap(p, d) \/ \E s \in Segments : ShmCreatePixmap(p, d, s)
       \/ \E g \in Gcs : Draw(p, g)
       \/ \E q \in Pixmaps : CopyArea(p, q)
  \/ \E s \in Segments : ShmAttach(s) \/ ShmDetach(s)
  \/ \E w \in Windows : CreateWindow(w) \/ DestroyWindow(w)
  \/ \E g \in Gcs, set \in Setting :
       ChangeGC(g, set) \/ \E d \in Drawables : CreateGC(g, d, set)
  \/ \E g \in Gcs : FreeGC(g) \/ AlterGC(g)
  \/ \E mode \in {"replace", "append", "prepend"}, v \in Values : ChangeProperty(mode, v)
  \/ DeleteProperty

-----------------------------------------------------------------------------
(* The replay *)

Step(from, to) == phase = from /\ phase' = to

Start ==
  /\ Step("app", "segments")
  /\ stable' = Ids
  /\ UNCHANGED <<tracker, replayed, oldPixmaps, oldGcs, display>>

ReplaySegments ==
  /\ Step("segments", "windows")
  /\ dSegs' = shmSegs
  /\ UNCHANGED <<tracker, replayed, oldPixmaps, oldGcs, dWindows, dPixmaps, dGcs, dShown, dValue, badDraws, stable>>

\* Top is created without the property, then sent its PropertyCmds one by one.
ReplayWindow ==
  /\ Step("windows", "property")
  /\ unsent' = propertyCmds
  /\ had' = IF unlogged THEN {} ELSE {value}
  /\ dWindows' = windows
  /\ UNCHANGED <<tracker, oldPixmaps, oldGcs, dSegs, dPixmaps, dGcs, dShown, dValue, badDraws, stable>>

ReplayProperty ==
  /\ phase = "property" /\ unsent # <<>>
  /\ dValue' = Written(dValue, Head(unsent).mode, Head(unsent).value)
  /\ unsent' = Tail(unsent)
  /\ UNCHANGED <<tracker, had, phase, oldPixmaps, oldGcs, dSegs, dWindows, dPixmaps, dGcs, dShown, badDraws, stable>>

WindowsReplayed ==
  /\ Step("property", "pixmaps") /\ unsent = <<>>
  /\ UNCHANGED <<tracker, replayed, oldPixmaps, oldGcs, display, stable>>

\* Pixmaps are created in the order of a map: one made on another is lost if that
\* comes later, or is not there at all.
Outcomes(P) ==
  {D \in SUBSET P : \E turn \in [P -> 1..Cardinality(P)] : \A p \in P :
     p \in D <=> LET on == pixmaps[p].drawable
                IN on \in dWindows \cup {Root} \cup dPixmaps \/ (on \in D /\ turn[on] < turn[p])}

\* A pixmap in shared memory is in the table, but without a create request.
Plain(p) == pixmaps[p].seg = Nil
ReplayPixmaps ==
  /\ Step("pixmaps", "shmPixmaps")
  /\ oldPixmaps' = pixmaps
  /\ dPixmaps' \in Outcomes({p \in Tracked(pixmaps) : Plain(p)})
  /\ UNCHANGED <<tracker, replayed, oldGcs, dSegs, dWindows, dGcs, dShown, dValue, badDraws, stable>>

\* shmPixmaps as it is now, in segments as they were.
NoShmPixmaps(segs) == {}  \* mutant: not replayed
ShmPixmapsIn(segs) == {p \in Tracked(pixmaps) : pixmaps[p].seg \in segs}
ReplayShmPixmaps ==
  /\ Step("shmPixmaps", "gcs")
  /\ \E D \in Outcomes(ShmPixmapsIn(dSegs)) : dPixmaps' = dPixmaps \cup D
  /\ UNCHANGED <<tracker, replayed, oldPixmaps, oldGcs, dSegs, dWindows, dGcs, dShown, dValue,
                 badDraws, stable>>

Lost == Tracked(oldPixmaps) \ dPixmaps  \* tracked when the pixmaps were replayed

\* sanitizeGCDrawable, sanitizeGCPixmapAttrs: a drawable that is not in the snapshots
\* is replaced by a window, and then, or if it is not in the snapshot itself, the
\* tile is stripped; "default" is the paint of a GC created without.
Remade(drawable) == drawable \in Tracked(oldPixmaps) \cup dWindows
MadeWith(gc) ==
  IF gc.made.paint \in Colours \/ (Remade(gc.drawable) /\ gc.made.paint \in Tracked(oldPixmaps))
    THEN gc.made.paint ELSE "default"

\* What the display can set.  The clip mask of a request is left to it.
Usable == [paint : Colours \cup dPixmaps \cup {"default"}, clip : dPixmaps \cup {Nil}]
FirstSetting(gc) == [paint |-> MadeWith(gc), clip |-> gc.made.clip]
Created(gc) == gc.drawable \notin Lost /\ FirstSetting(gc) \in Usable

\* The ChangeCmds follow the create request; those that name a pixmap which is not
\* there fail.
AsCreated(gc) == MadeWith(gc)  \* mutant: no ChangeCmds
Repainted(gc) == LastIn(<<FirstSetting(gc)>> \o gc.changes, Usable).paint

ReplayGCs ==
  /\ Step("gcs", "draws")
  /\ oldGcs' = gcs
  /\ dGcs' = [g \in Gcs |-> IF g \in Tracked(gcs) /\ Created(gcs[g]) THEN Repainted(gcs[g]) ELSE Nil]
  /\ UNCHANGED <<tracker, replayed, oldPixmaps, dSegs, dWindows, dPixmaps, dShown, dValue, badDraws, stable>>

\* The third word of a request is looked up among the GCs, to skip it if it is not
\* there: a GC that was freed, or the destination of a copy.
AllSent(p) == ToSet(oldPixmaps[p].log) \cap Gcs  \* mutant: no check
Sent(p) == ToSet(oldPixmaps[p].log) \cap Tracked(oldGcs)
Executed(p) == {g \in Sent(p) : p \in dPixmaps /\ dGcs[g] # Nil}

ReplayDraws ==
  /\ Step("draws", "done")
  /\ dShown' = [p \in Pixmaps |->
                  IF p \in Tracked(oldPixmaps) /\ Executed(p) # {}
                    THEN dGcs[LastIn(oldPixmaps[p].log, Executed(p))] ELSE Nil]
  /\ badDraws' = UNION {{<<p, g>> : g \in Sent(p) \ Executed(p)} :
                          p \in Tracked(oldPixmaps)}
  /\ UNCHANGED <<tracker, replayed, oldPixmaps, oldGcs, dSegs, dWindows, dPixmaps, dGcs, dValue, stable>>

Replay ==
  \/ Start \/ ReplaySegments \/ ReplayWindow \/ ReplayProperty \/ WindowsReplayed
  \/ ReplayPixmaps \/ ReplayShmPixmaps \/ ReplayGCs \/ ReplayDraws

Next == ProcessRequest \/ Replay
Spec == Init /\ [][Next]_vars

-----------------------------------------------------------------------------
TypeOK ==
  /\ pixmaps \in [Pixmaps -> Pixmap \cup {Nil}] /\ oldPixmaps \in [Pixmaps -> Pixmap \cup {Nil}]
  /\ gcs \in [Gcs -> GC \cup {Nil}] /\ oldGcs \in [Gcs -> GC \cup {Nil}]
  /\ shmSegs \cup dSegs \subseteq Segments /\ windows \cup dWindows \subseteq Windows
  /\ propertyCmds \in Seq(PropertyCmd) /\ unsent \in Seq(PropertyCmd)
  /\ {value, dValue} \cup had \subseteq Seq(Values) /\ unlogged \in BOOLEAN
  /\ early \in 0..MaxEarly /\ late \in 0..MaxLate
  /\ phase \in {"app", "segments", "windows", "property", "pixmaps", "shmPixmaps", "gcs",
                "draws", "done"}
  /\ dPixmaps \subseteq Pixmaps
  /\ dGcs \in [Gcs -> Paints \cup {"default", Nil}]
  /\ dShown \in [Pixmaps -> Paints \cup {"default", Nil}]
  /\ badDraws \subseteq Pixmaps \X Gcs /\ stable \subseteq Ids
  /\ painting \in [Gcs -> Paints \cup {"freed", "astray", Nil}]
  /\ kept \in [Pixmaps -> Kept \cup {Nil}]

LastSetting(gc) == IF gc.changes = <<>> THEN gc.made ELSE Last(gc.changes)

\* What a pixmap was last painted with, when it is kept, is what the last draw in its
\* log names, a GC that has that colour still (state.go:614-625).
KeptLogged ==
  \A p \in Tracked(kept) :
    LET g == kept[p].gc
    IN /\ p \in Tracked(pixmaps) /\ g \in Tracked(gcs)
       /\ g \in ToSet(pixmaps[p].log) /\ LastIn(pixmaps[p].log, Gcs) = g
       /\ LastSetting(gcs[g]) = [paint |-> kept[p].colour, clip |-> Nil]
LogsOK == TypeOK /\ KeptLogged

\* The display has the pixmaps the application has, and no other, of those it has
\* not touched since the replay began; but one in a segment that is detached,
\* which an application may do as soon as the pixmap is made, one made on a window
\* destroyed, or on another pixmap, may not come back
\* (synthesis.go:48-53, 77-108).
PixmapsReplayed ==
  phase = "done" =>
    /\ stable \cap dPixmaps \subseteq Tracked(pixmaps)
    /\ \A p \in stable \cap Tracked(pixmaps) :
         /\ Plain(p) \/ pixmaps[p].seg \in stable \cap shmSegs
         /\ pixmaps[p].drawable \in (stable \cap windows) \cup {Root}
         => p \in dPixmaps

\* A GC untouched since the replay began paints as it does on the display the
\* application believes in, whatever it went through, unless with a tile that is
\* freed or lost; unless the tracker has not seen it change (CopyGC, SetDashes,
\* SetClipRectangles; state.go:169-213), its create request names a lost
\* pixmap, that or its last change a clip mask that is not there, or it paints with
\* the tile it was created with on a drawable that is gone
\* (synthesis.go:211-253, 628-660).
GcsReplayed ==
  phase = "done" =>
    \A g \in stable \cap Tracked(gcs) :
      LET gc == gcs[g]
      IN painting[g] \in Colours \cup dPixmaps =>
           \/ dGcs[g] = painting[g]
           \/ {gc.drawable, gc.made.paint} \cap Lost # {}
           \/ ~({gc.made.clip, LastSetting(gc).clip} \subseteq dPixmaps \cup {Nil})
           \/ painting[g] \in Pixmaps /\ gc.changes = <<>> /\ ~Remade(gc.drawable)

\* No draw is replayed with a GC that is not there: "those GCs are gone from the
\* synthesis xconn and would cause BadGC errors" (synthesis.go:344-348), although
\* draws and GCs are snapshots of different moments.  Only a pixmap that was lost,
\* or was freed while the clip mask of a GC, makes the display refuse a draw, on it or with
\* a GC created with it.
DrawsAccepted ==
  \A p \in Pixmaps, g \in Gcs : <<p, g>> \in badDraws =>
    \/ p \in Lost
    \/ /\ g \in Tracked(oldGcs)
       /\ \/ {oldGcs[g].drawable, oldGcs[g].made.paint} \cap Lost # {}
          \/ oldGcs[g].made.clip \notin dPixmaps \cup {Nil}

\* A pixmap the application last painted by a logged request shows the colour it gave
\* it, if both the pixmap and the GC came back, which has not changed since: nothing is
\* replayed over it, requests that name other things than a GC in their third
\* word do no harm, and what the GC was changed to in between is not seen
\* (synthesis.go:344-361, state.go:614-625).
ContentsRestored ==
  phase = "done" =>
    \A p \in dPixmaps :
      kept[p] # Nil /\ dGcs[kept[p].gc] # Nil => dShown[p] = kept[p].colour

\* A property comes back with a value the application gave it since the snapshot of
\* its window, hence with the one it has if it has not touched it since; unless it was replaced
\* when the log held more than one request, or deleted before the snapshot.  "Replace
\* (mode=0) overwrites same-property entries to avoid stale values" (state.go:389),
\* but only the first, and perhaps while the replay reads it.
PropertyReplayed ==
  phase = "done" =>
    /\ had # {} => dValue \in had
    /\ Top \in stable /\ ~unlogged => dValue = value
=============================================================================
