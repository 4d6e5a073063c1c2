--------------------------- MODULE ContentsProofs ---------------------------
(***************************************************************************)
(* The invariants of run contents for any resources and number of          *)
(* requests.  The snapshots of the kinds are of different moments, but what *)
(* was not touched since the replay began is the same in all of them        *)
(* (Agreed, SnapshotsAgree), and a draw is accepted because its GC is       *)
(* looked up in the very snapshot GCs are replayed from.  KeptEverywhere    *)
(* carries from request to request that a pixmap's last painter is the last *)
(* GC its log names and has its colour, PaintingKnown that what a GC paints   *)
(* with is what the last request about it says, LogInv what a property's log  *)
(* makes of it.                                                              *)
(***************************************************************************)
EXTENDS Contents, SequenceTheorems, WellFoundedInduction, TLAPS

TablesOK ==
  /\ pixmaps \in [Pixmaps -> Pixmap \cup {Nil}]
  /\ shmSegs \subseteq Segments /\ windows \subseteq Windows
  /\ phase \in {"app", "segments", "windows", "property", "pixmaps", "shmPixmaps",
                "gcs", "draws", "done"}

After(phases) == phase \in phases \cup {"gcs", "draws", "done"}

SegmentsAgree ==
  After({"windows", "property", "pixmaps", "shmPixmaps"}) =>
    \A s \in Segments : s \in stable => (s \in dSegs <=> s \in shmSegs)

WindowsAgree ==
  After({"property", "pixmaps", "shmPixmaps"}) =>
    \A w \in Windows : w \in stable => (w \in dWindows <=> w \in windows)

\* p is made on what the application has not touched since the replay began.
Based(p) == pixmaps[p].drawable \in (stable \cap windows) \cup {Root}

PixmapsAgree ==
  /\ phase \in {"app", "segments", "windows", "property", "pixmaps"} => dPixmaps = {}
  /\ dPixmaps \subseteq Pixmaps
  /\ After({"shmPixmaps"}) =>
       \A p \in Pixmaps : p \in stable =>
         /\ p \in dPixmaps => pixmaps[p] # Nil
         /\ pixmaps[p] # Nil /\ pixmaps[p].seg = Nil /\ Based(p) => p \in dPixmaps
  /\ After({}) =>
       \A p \in Pixmaps :
         /\ p \in stable /\ pixmaps[p] # Nil /\ pixmaps[p].seg \in stable \cap shmSegs /\ Based(p)
         => p \in dPixmaps

Agreed == SegmentsAgree /\ WindowsAgree /\ PixmapsAgree
IInv == TablesOK /\ Agreed

-----------------------------------------------------------------------------
\* A request that leaves a pixmap or a segment alone leaves it as it is, and the log
\* of a pixmap says nothing of whether it is there, or where.
LEMMA LoggedKeeps ==
  ASSUME TablesOK, NEW p \in Pixmaps, pixmaps[p] # Nil, NEW word \in Gcs \cup Pixmaps
  PROVE  /\ Logged(p, word) \in [Pixmaps -> Pixmap \cup {Nil}]
         /\ \A q \in Pixmaps :
              /\ Logged(p, word)[q] = Nil <=> pixmaps[q] = Nil
              /\ pixmaps[q] # Nil =>
                   /\ Logged(p, word)[q].seg = pixmaps[q].seg
                   /\ Logged(p, word)[q].drawable = pixmaps[q].drawable
<1>1. pixmaps[p] \in Pixmap BY DEF TablesOK
<1>2. [pixmaps[p] EXCEPT !.log = Append(@, word)] \in Pixmap BY <1>1 DEF Pixmap
<1>3. [pixmaps[p] EXCEPT !.log = Append(@, word)] # Nil BY <1>2, NoPixmapAssumption
<1>4. /\ [pixmaps[p] EXCEPT !.log = Append(@, word)].seg = pixmaps[p].seg
      /\ [pixmaps[p] EXCEPT !.log = Append(@, word)].drawable = pixmaps[p].drawable
  BY <1>1 DEF Pixmap
<1> QED BY <1>1, <1>2, <1>3, <1>4 DEF Logged, TablesOK

\* The pixmaps, segments and windows a request may change are those it touches.
Untouched ==
  /\ UNCHANGED <<phase, dSegs, dWindows, dPixmaps>>
  /\ stable' \subseteq stable
  /\ \A p \in Pixmaps : p \in stable' =>
       /\ pixmaps'[p] = Nil <=> pixmaps[p] = Nil
       /\ pixmaps[p] # Nil => /\ pixmaps'[p].seg = pixmaps[p].seg
                              /\ pixmaps'[p].drawable = pixmaps[p].drawable
  /\ \A s \in Segments : s \in stable' => (s \in shmSegs' <=> s \in shmSegs)
  /\ \A w \in Windows : w \in stable' => (w \in windows' <=> w \in windows)
  /\ shmSegs' \subseteq Segments /\ windows' \subseteq Windows
  /\ pixmaps' \in [Pixmaps -> Pixmap \cup {Nil}]

LEMMA RequestsTouch == IInv /\ ProcessRequest => Untouched
<1> SUFFICES ASSUME IInv, ProcessRequest PROVE Untouched
  OBVIOUS
<1> USE DEF IInv, TablesOK, Untouched, Request, ResourceRequest, PropertyRequest, display, Ids
<1>1. ASSUME NEW p \in Pixmaps, NEW d \in Drawables, NEW seg \in Segments \cup {Nil},
             NewPixmap(p, d, seg)
      PROVE  Untouched
  <2>1. [drawable |-> d, seg |-> seg, log |-> <<>>] \in Pixmap BY DEF Pixmap
  <2> QED BY <1>1, <2>1 DEF NewPixmap
<1>2. ASSUME NEW p \in Pixmaps, FreePixmap(p) PROVE Untouched
  BY <1>2 DEF FreePixmap
<1>3. ASSUME NEW p \in Pixmaps, RenderDraw(p) PROVE Untouched
  BY <1>3 DEF RenderDraw
<1>4. ASSUME NEW p \in Pixmaps, NEW g \in Gcs, Draw(p, g) PROVE Untouched
  BY <1>4, LoggedKeeps DEF Draw, Tracked
<1>5. ASSUME NEW p \in Pixmaps, NEW q \in Pixmaps, CopyArea(p, q) PROVE Untouched
  BY <1>5, LoggedKeeps DEF CopyArea, Tracked
<1>6. ASSUME NEW s \in Segments, ShmAttach(s) \/ ShmDetach(s) PROVE Untouched
  BY <1>6 DEF ShmAttach, ShmDetach
<1>7. ASSUME NEW g \in Gcs, NEW set \in Setting, NEW d \in Drawables,
             ChangeGC(g, set) \/ CreateGC(g, d, set)
      PROVE  Untouched
  BY <1>7 DEF ChangeGC, CreateGC
<1>8. ASSUME NEW mode, NEW v, ChangeProperty(mode, v) PROVE Untouched
  BY <1>8 DEF ChangeProperty, resources
<1>9. CASE DeleteProperty
  BY <1>9 DEF DeleteProperty, resources
<1>10. CASE \E g \in Gcs, set \in Setting : ChangeGC(g, set)
  BY <1>10 DEF ChangeGC
<1>11. CASE \E g \in Gcs : FreeGC(g) \/ AlterGC(g)
  BY <1>11 DEF FreeGC, AlterGC
<1>12. ASSUME NEW w \in Windows, CreateWindow(w) \/ DestroyWindow(w) PROVE Untouched
  BY <1>12 DEF CreateWindow, DestroyWindow
<1> QED
  BY <1>1, <1>2, <1>3, <1>4, <1>5, <1>6, <1>7, <1>8, <1>9, <1>10, <1>11, <1>12
  DEF ProcessRequest, CreatePixmap, ShmCreatePixmap

LEMMA RequestStep == IInv /\ ProcessRequest => IInv'
<1> SUFFICES ASSUME IInv, ProcessRequest PROVE IInv'
  OBVIOUS
<1>1. Untouched BY RequestsTouch
<1>2. TablesOK' BY <1>1 DEF Untouched, IInv, TablesOK
<1>3. SegmentsAgree' BY <1>1 DEF Untouched, IInv, Agreed, SegmentsAgree, After
<1>4. WindowsAgree' BY <1>1 DEF Untouched, IInv, Agreed, WindowsAgree, After
<1>5. \A p \in Pixmaps : p \in stable' /\ pixmaps[p] # Nil /\ Based(p)' => Based(p)
  <2> SUFFICES ASSUME NEW p \in Pixmaps, p \in stable', pixmaps[p] # Nil, Based(p)' PROVE Based(p)
    OBVIOUS
  <2>1. pixmaps'[p].drawable = pixmaps[p].drawable /\ stable' \subseteq stable BY <1>1 DEF Untouched
  <2>2. windows' \cap stable' \subseteq windows BY <1>1 DEF Untouched
  <2> QED BY <2>1, <2>2 DEF Based
<1>6. PixmapsAgree' BY <1>1, <1>5 DEF Untouched, IInv, Agreed, PixmapsAgree, After, TablesOK
<1> QED BY <1>2, <1>3, <1>4, <1>6 DEF IInv, Agreed

\* What is made on a window that is there comes back, whatever the order.
LEMMA OutcomeHas ==
  ASSUME NEW P, NEW D \in Outcomes(P)
  PROVE  D \subseteq P /\ \A p \in P : pixmaps[p].drawable \in dWindows \cup {Root} => p \in D
BY DEF Outcomes

LEMMA ReplayStep == IInv /\ Replay => IInv'
<1> SUFFICES ASSUME IInv, Replay PROVE IInv'
  OBVIOUS
<1> USE DEF IInv, Agreed, Step, After, tracker, resources, property, logged, replayed, Tracked
<1>1. TablesOK' /\ UNCHANGED <<pixmaps, shmSegs, windows>>
  BY DEF Replay, Start, ReplaySegments, ReplayWindow, ReplayProperty, WindowsReplayed,
         ReplayPixmaps, ReplayShmPixmaps, ReplayGCs, ReplayDraws, TablesOK
<1>b. UNCHANGED stable => \A p : Based(p)' = Based(p) BY <1>1 DEF Based
<1> USE DEF SegmentsAgree, WindowsAgree, PixmapsAgree
<1>2. CASE Start
  BY <1>1, <1>2 DEF Start, display
<1>3. CASE ReplaySegments
  BY <1>1, <1>3 DEF ReplaySegments
<1>4. CASE ReplayWindow \/ ReplayProperty \/ WindowsReplayed
  BY <1>1, <1>4 DEF ReplayWindow, ReplayProperty, WindowsReplayed, display
<1>a. phase \in {"pixmaps", "shmPixmaps"} =>
        \A p \in Pixmaps : Based(p) => pixmaps[p].drawable \in dWindows \cup {Root}
  BY DEF Based, TablesOK
<1>5. CASE ReplayPixmaps
  <2> DEFINE P == {p \in Pixmaps : pixmaps[p] # Nil /\ pixmaps[p].seg = Nil}
  <2>1. dPixmaps' \in Outcomes(P) BY <1>5 DEF ReplayPixmaps, Plain, TablesOK
  <2>2. dPixmaps' \subseteq P /\ \A p \in P : Based(p) => p \in dPixmaps'
    BY <1>5, <1>a, <2>1, OutcomeHas DEF ReplayPixmaps
  <2> HIDE DEF Based
  <2> QED BY <1>1, <1>5, <1>b, <2>2 DEF ReplayPixmaps
<1>6. CASE ReplayShmPixmaps
  <2> DEFINE P == {p \in Pixmaps : pixmaps[p] # Nil /\ pixmaps[p].seg \in dSegs}
  <2>1. PICK D \in Outcomes(P) : dPixmaps' = dPixmaps \cup D
    BY <1>6 DEF ReplayShmPixmaps, ShmPixmapsIn, TablesOK
  <2>2. D \subseteq P /\ \A p \in P : Based(p) => p \in D
    BY <1>6, <1>a, <2>1, OutcomeHas DEF ReplayShmPixmaps
  <2>3. SegmentsAgree' /\ WindowsAgree' BY <1>1, <1>6 DEF ReplayShmPixmaps
  <2>4. PixmapsAgree' BY <1>1, <1>6, <1>b, <2>1, <2>2 DEF ReplayShmPixmaps, TablesOK
  <2> QED BY <1>1, <2>3, <2>4
<1>7. CASE ReplayGCs
  BY <1>1, <1>7, <1>b DEF ReplayGCs
<1>8. CASE ReplayDraws
  BY <1>1, <1>8, <1>b DEF ReplayDraws
<1> QED BY <1>2, <1>3, <1>4, <1>5, <1>6, <1>7, <1>8 DEF Replay

-----------------------------------------------------------------------------
(* Graphics contexts and contents *)

Snapped == phase \in {"shmPixmaps", "gcs", "draws", "done"}
GcsSnapped == phase \in {"draws", "done"}

\* g is the GC of the last draw in log.
LastDraw(log, g) ==
  \E i \in DOMAIN log : log[i] = g /\ \A j \in (i + 1)..Len(log) : log[j] \notin Gcs

Tables ==
  /\ gcs \in [Gcs -> GC \cup {Nil}]
  /\ kept \in [Pixmaps -> Kept \cup {Nil}]
  /\ painting \in [Gcs -> Paints \cup {"freed", "astray", Nil}]
  /\ oldPixmaps \in [Pixmaps -> Pixmap \cup {Nil}]
  /\ oldGcs \in [Gcs -> GC \cup {Nil}]

\* gc gives what it paints a colour, all over.
Plainly(gc, colour) ==
  LastSetting(gc) = [paint |-> colour, clip |-> Nil] /\ gc.made.clip = Nil

\* What is kept of a pixmap is kept in the snapshots as well.
KeptOf(p, g, colour) ==
  /\ pixmaps[p] # Nil /\ gcs[g] # Nil
  /\ LastDraw(pixmaps[p].log, g) /\ Plainly(gcs[g], colour)
  /\ Snapped => oldPixmaps[p] # Nil /\ LastDraw(oldPixmaps[p].log, g)
  /\ GcsSnapped => oldGcs[g] # Nil /\ Plainly(oldGcs[g], colour)
KeptEverywhere == \A p \in Pixmaps : kept[p] # Nil => KeptOf(p, kept[p].gc, kept[p].colour)

\* What a GC paints with is what the last request about it says, if the tracker has
\* seen that; and a tile is there.
PaintingOf(g) ==
  /\ painting[g] = LastSetting(gcs[g]).paint
  /\ painting[g] \in Pixmaps =>
       /\ pixmaps[painting[g]] # Nil
       /\ Snapped /\ g \in stable => oldPixmaps[painting[g]] # Nil
PaintingKnown == \A g \in Gcs : gcs[g] # Nil /\ painting[g] \in Paints => PaintingOf(g)

SnapshotsAgree ==
  /\ Snapped => \A p \in Pixmaps : p \in stable => (oldPixmaps[p] = Nil <=> pixmaps[p] = Nil)
  /\ GcsSnapped => \A g \in Gcs : g \in stable => oldGcs[g] = gcs[g]

GcsOf(snapshot) ==
  [g \in Gcs |-> IF g \in Tracked(snapshot) /\ Created(snapshot[g]) THEN Repainted(snapshot[g]) ELSE Nil]

ShownOf(p) ==
  IF p \in Tracked(oldPixmaps) /\ Executed(p) # {}
    THEN dGcs[LastIn(oldPixmaps[p].log, Executed(p))] ELSE Nil
Shown == [p \in Pixmaps |-> ShownOf(p)]
Refused == UNION {{<<p, g>> : g \in Sent(p) \ Executed(p)} : p \in Tracked(oldPixmaps)}

Results ==
  /\ GcsSnapped => dGcs = GcsOf(oldGcs)
  /\ phase # "done" => badDraws = {}
  /\ phase = "done" => dShown = Shown /\ badDraws = Refused

CInv == Tables /\ KeptEverywhere /\ PaintingKnown /\ SnapshotsAgree /\ Results

-----------------------------------------------------------------------------
\* The choice in LastIn is that of the last index with a value in S.
LEMMA LastInIs ==
  ASSUME NEW W, NEW log \in Seq(W), NEW S, NEW i \in DOMAIN log, log[i] \in S,
         \A j \in (i + 1)..Len(log) : log[j] \notin S
  PROVE  LastIn(log, S) = log[i]
<1> DEFINE P(k) == log[k] \in S /\ \A j \in (k + 1)..Len(log) : log[j] \notin S
<1>1. \A k \in DOMAIN log : P(k) => k = i
  <2> SUFFICES ASSUME NEW k \in DOMAIN log, P(k) PROVE k = i
    OBVIOUS
  <2>1. ~(k < i) BY DEF P
  <2>2. ~(i < k) BY DEF P
  <2> QED BY <2>1, <2>2
<1>2. P(i) OBVIOUS
<1>3. (CHOOSE k \in DOMAIN log : P(k)) = i BY <1>1, <1>2
<1> QED BY <1>3 DEF LastIn

\* If any value of a log is in S, one is the last.
LEMMA LastExists ==
  ASSUME NEW W, NEW log \in Seq(W), NEW S, NEW k \in DOMAIN log, log[k] \in S
  PROVE  \E i \in DOMAIN log : log[i] \in S /\ \A j \in (i + 1)..Len(log) : log[j] \notin S
<1> DEFINE T == {n \in Nat : n < Len(log) /\ log[Len(log) - n] \in S}
<1>1. Len(log) - k \in T BY DEF T
<1>2. PICK n \in T : \A m \in T : ~(<<m, n>> \in OpToRel(<, Nat))
  BY <1>1, WFMin, NatLessThanWellFounded
<1>3. \A m \in T : ~(m < n) BY <1>2 DEF OpToRel
<1>4. \A j \in (Len(log) - n + 1)..Len(log) : log[j] \notin S
  <2> SUFFICES ASSUME NEW j \in (Len(log) - n + 1)..Len(log), log[j] \in S PROVE FALSE
    OBVIOUS
  <2>1. Len(log) - j \in T /\ Len(log) - j < n BY DEF T
  <2> QED BY <2>1, <1>3
<1>5. Len(log) - n \in DOMAIN log /\ log[Len(log) - n] \in S BY DEF T
<1> QED BY <1>4, <1>5

LEMMA LastInMember ==
  ASSUME NEW W, NEW log \in Seq(W), NEW S, NEW k \in DOMAIN log, log[k] \in S
  PROVE  LastIn(log, S) \in S
BY LastExists, LastInIs

-----------------------------------------------------------------------------
LEMMA DrawIsLast ==
  ASSUME NEW log \in Seq(Gcs \cup Pixmaps), NEW g \in Gcs
  PROVE  LastDraw(Append(log, g), g)
BY DEF LastDraw

LEMMA CopyIsNoDraw ==
  ASSUME NEW log \in Seq(Gcs \cup Pixmaps), NEW q \in Pixmaps, NEW g \in Gcs, LastDraw(log, g)
  PROVE  LastDraw(Append(log, q), g)
<1>1. PICK i \in DOMAIN log : log[i] = g /\ \A j \in (i + 1)..Len(log) : log[j] \notin Gcs
  BY DEF LastDraw
<1>2. i \in DOMAIN Append(log, q) /\ Append(log, q)[i] = g BY <1>1
<1>3. \A j \in (i + 1)..Len(Append(log, q)) : Append(log, q)[j] \notin Gcs
  BY <1>1, IdsAssumption
<1> QED BY <1>2, <1>3 DEF LastDraw

\* A request that leaves the snapshots and the display as they are.
Resting == UNCHANGED <<phase, oldPixmaps, oldGcs, display>> /\ stable' \subseteq stable

LEMMA ResultsRest == Results /\ Resting => Results'
<1> SUFFICES ASSUME Results, Resting PROVE Results'
  OBVIOUS
<1>1. UNCHANGED <<phase, oldPixmaps, oldGcs, dWindows, dPixmaps, dGcs, dShown, badDraws>>
  BY DEF Resting, display
<1>2. UNCHANGED <<Lost, Usable, Tracked(oldPixmaps), Tracked(oldGcs)>>
  BY <1>1 DEF Lost, Usable, Tracked
<1>3. UNCHANGED GcsOf(oldGcs)
  BY <1>1, <1>2 DEF GcsOf, Created, Repainted, FirstSetting, MadeWith, Remade
<1>4. \A p \in Pixmaps : ShownOf(p)' = ShownOf(p)
  BY <1>1, <1>2 DEF ShownOf, Executed, Sent
<1>5. UNCHANGED Shown BY <1>4 DEF Shown
<1>6. UNCHANGED Refused BY <1>1, <1>2 DEF Refused, Executed, Sent
<1> QED BY <1>1, <1>3, <1>5, <1>6 DEF Results, GcsSnapped

\* What is kept of a pixmap and its GC is left as it is, unless it is forgotten.
KeptRests ==
  \A p \in Pixmaps : kept'[p] # Nil =>
    /\ kept'[p] = kept[p] /\ gcs'[kept[p].gc] = gcs[kept[p].gc]
    /\ pixmaps[p] # Nil => pixmaps'[p] # Nil
    /\ LastDraw(pixmaps[p].log, kept[p].gc) => LastDraw(pixmaps'[p].log, kept[p].gc)

LEMMA KeptStays ==
  KeptEverywhere /\ KeptRests /\ UNCHANGED <<phase, oldPixmaps, oldGcs>> => KeptEverywhere'
<1> SUFFICES ASSUME KeptEverywhere, KeptRests, UNCHANGED <<phase, oldPixmaps, oldGcs>>,
                    NEW p \in Pixmaps, kept'[p] # Nil
             PROVE  KeptOf(p, kept[p].gc, kept[p].colour)' /\ kept'[p] = kept[p]
  BY DEF KeptEverywhere
<1> DEFINE g == kept[p].gc
           c == kept[p].colour
<1>1. /\ kept'[p] = kept[p] /\ gcs'[g] = gcs[g]
      /\ pixmaps[p] # Nil => pixmaps'[p] # Nil
      /\ LastDraw(pixmaps[p].log, g) => LastDraw(pixmaps'[p].log, g)
  BY DEF KeptRests
<1>2. KeptOf(p, g, c) BY <1>1 DEF KeptEverywhere
<1> QED BY <1>1, <1>2 DEF KeptOf, Snapped, GcsSnapped

\* What a GC paints with is left as it is, with the GC and the tile.
PaintingRests(g) ==
  gcs'[g] # Nil /\ painting'[g] \in Paints =>
    /\ gcs'[g] = gcs[g] /\ painting'[g] = painting[g]
    /\ painting[g] \in Pixmaps /\ pixmaps[painting[g]] # Nil => pixmaps'[painting[g]] # Nil

LEMMA PaintingStays ==
  ASSUME PaintingKnown, Resting, NEW g \in Gcs, PaintingRests(g),
         gcs'[g] # Nil, painting'[g] \in Paints
  PROVE  PaintingOf(g)'
<1>1. gcs'[g] = gcs[g] /\ painting'[g] = painting[g] BY DEF PaintingRests
<1>2. PaintingOf(g) BY <1>1 DEF PaintingKnown
<1> QED BY <1>1, <1>2 DEF PaintingOf, PaintingRests, Resting, Snapped

\* The tile of what a GC is made or changed with is there.
LEMMA PaintingSet ==
  ASSUME NEW g \in Gcs, NEW set \in Setting, CanSet(set), g \notin stable',
         LastSetting(gcs'[g]) = set, painting'[g] = set.paint, TablesOK, UNCHANGED pixmaps
  PROVE  PaintingOf(g)'
<1>1. set.paint \in Pixmaps => pixmaps[set.paint] # Nil
  BY IdsAssumption DEF CanSet, Tracked, TablesOK
<1> QED BY <1>1 DEF PaintingOf

LEMMA PlainlyDrawn ==
  ASSUME NEW g \in Gcs, gcs[g] \in GC, PaintingKnown, gcs[g] # Nil, Keeps(g)
  PROVE  Plainly(gcs[g], painting[g])
<1> DEFINE last == LastSetting(gcs[g])
<1>1. gcs[g].made \in Setting /\ gcs[g].changes \in Seq(Setting) BY DEF GC
<1>2. last \in {gcs[g].made} \cup ToSet(gcs[g].changes) /\ last \in Setting
  <2>1. CASE gcs[g].changes = <<>> BY <1>1, <2>1 DEF LastSetting
  <2>2. CASE gcs[g].changes # <<>>
    <3>1. Len(gcs[g].changes) \in DOMAIN gcs[g].changes BY <1>1, <2>2
    <3> QED BY <1>1, <2>2, <3>1 DEF LastSetting, Last, ToSet
  <2> QED BY <2>1, <2>2
<1>3. last.clip = Nil /\ gcs[g].made.clip = Nil BY <1>2 DEF Keeps, Unclipped
<1>4. last.paint = painting[g] BY DEF PaintingKnown, PaintingOf, Keeps, Paints
<1>5. last = [paint |-> painting[g], clip |-> Nil] BY <1>2, <1>3, <1>4 DEF Setting
<1> QED BY <1>3, <1>5 DEF Plainly

Remembered == Tables' /\ KeptEverywhere' /\ PaintingKnown'

\* Each request keeps the tables typed, agrees with the snapshots on what it does
\* not touch, and forgets what was painted where it no longer holds.
LEMMA PixmapsKeep ==
  ASSUME IInv, CInv, NEW p \in Pixmaps,
         \/ \E d \in Drawables, seg \in Segments \cup {Nil} : NewPixmap(p, d, seg)
         \/ FreePixmap(p) \/ RenderDraw(p)
         \/ \E g \in Gcs : Draw(p, g)
         \/ \E q \in Pixmaps : CopyArea(p, q)
  PROVE  Remembered /\ SnapshotsAgree' /\ Resting
<1> DEFINE Goal == Remembered /\ SnapshotsAgree' /\ Resting
<1> USE DEF Request, ResourceRequest, Resting
<1>t. TablesOK /\ Tables /\ KeptEverywhere /\ PaintingKnown /\ SnapshotsAgree BY DEF IInv, CInv
<1>u. \A q \in Pixmaps : pixmaps[q] # Nil => pixmaps[q].log \in Seq(Gcs \cup Pixmaps)
  BY <1>t DEF TablesOK, Pixmap
<1>1. ASSUME NEW d \in Drawables, NEW seg \in Segments \cup {Nil}, NewPixmap(p, d, seg) PROVE Goal
  <2>0. /\ pixmaps[p] = Nil /\ UNCHANGED <<gcs, painting, kept>>
        /\ \A q \in Pixmaps \ {p} : pixmaps'[q] = pixmaps[q]
    BY <1>1, <1>t DEF NewPixmap, TablesOK
  <2>1. Tables' BY <1>1, <1>t DEF NewPixmap, Tables
  <2>2. KeptRests BY <1>t, <2>0 DEF KeptRests, KeptEverywhere, KeptOf
  <2>3. \A g \in Gcs : PaintingRests(g) BY <2>0 DEF PaintingRests
  <2>4. SnapshotsAgree'
    BY <1>1, <1>t DEF NewPixmap, SnapshotsAgree, Snapped, GcsSnapped, TablesOK
  <2>5. Resting BY <1>1 DEF NewPixmap
  <2>6. KeptEverywhere' BY <1>t, <2>2, <2>5, KeptStays
  <2>7. PaintingKnown' BY <1>t, <2>3, <2>5, PaintingStays DEF PaintingKnown
  <2> QED BY <2>1, <2>4, <2>5, <2>6, <2>7 DEF Remembered
<1>2. ASSUME FreePixmap(p) PROVE Goal
  <2>0. /\ UNCHANGED gcs /\ kept' = [q \in Pixmaps |-> IF q \in {p} THEN Nil ELSE kept[q]]
        /\ painting' = [g \in Gcs |-> IF painting[g] = p THEN "freed" ELSE painting[g]]
        /\ \A q \in Pixmaps \ {p} : pixmaps'[q] = pixmaps[q]
    BY <1>2, <1>t DEF FreePixmap, Forget, TablesOK
  <2>1. Tables' BY <1>2, <1>t, <2>0 DEF FreePixmap, Tables
  <2>2. KeptRests BY <2>0 DEF KeptRests
  <2>3. \A g \in Gcs : PaintingRests(g) BY <2>0, AstrayAssumption DEF PaintingRests, Paints
  <2>4. SnapshotsAgree'
    BY <1>2, <1>t DEF FreePixmap, SnapshotsAgree, Snapped, GcsSnapped, TablesOK
  <2>5. Resting BY <1>2 DEF FreePixmap
  <2>6. KeptEverywhere' BY <1>t, <2>2, <2>5, KeptStays
  <2>7. PaintingKnown' BY <1>t, <2>3, <2>5, PaintingStays DEF PaintingKnown
  <2> QED BY <2>1, <2>4, <2>5, <2>6, <2>7 DEF Remembered
<1>3. ASSUME RenderDraw(p) PROVE Goal
  <2>0. /\ UNCHANGED <<pixmaps, gcs, painting>>
        /\ kept' = [q \in Pixmaps |-> IF q \in {p} THEN Nil ELSE kept[q]]
    BY <1>3 DEF RenderDraw, Forget
  <2>1. Tables' BY <1>3, <1>t, <2>0 DEF RenderDraw, Tables
  <2>2. KeptRests BY <2>0 DEF KeptRests
  <2>3. \A g \in Gcs : PaintingRests(g) BY <2>0 DEF PaintingRests
  <2>4. SnapshotsAgree' BY <1>3, <1>t DEF RenderDraw, SnapshotsAgree, Snapped, GcsSnapped
  <2>5. Resting BY <1>3 DEF RenderDraw
  <2>6. KeptEverywhere' BY <1>t, <2>2, <2>5, KeptStays
  <2>7. PaintingKnown' BY <1>t, <2>3, <2>5, PaintingStays DEF PaintingKnown
  <2> QED BY <2>1, <2>4, <2>5, <2>6, <2>7 DEF Remembered
<1>4. ASSUME NEW g \in Gcs, Draw(p, g) PROVE Goal
  <2>0. /\ pixmaps[p] # Nil /\ gcs[g] # Nil /\ pixmaps' = Logged(p, g)
        /\ pixmaps[p] \in Pixmap /\ gcs[g] \in GC /\ UNCHANGED <<gcs, painting>>
        /\ kept' = [kept EXCEPT ![p] = IF Keeps(g) THEN [gc |-> g, colour |-> painting[g]] ELSE Nil]
    BY <1>4, <1>t DEF Draw, Tracked, TablesOK, Tables
  <2>a. Keeps(g) => painting[g] \in Colours BY DEF Keeps
  <2>b. kept' \in [Pixmaps -> Kept \cup {Nil}]
    <3>1. Keeps(g) => [gc |-> g, colour |-> painting[g]] \in Kept BY <2>a DEF Kept
    <3>2. kept \in [Pixmaps -> Kept \cup {Nil}] BY <1>t DEF Tables
    <3> HIDE DEF Keeps
    <3> QED BY <2>0, <3>1, <3>2
  <2>1. Tables' BY <1>4, <1>t, <2>0, <2>b DEF Draw, Tables
  <2>2. \A q \in Pixmaps : pixmaps'[q] = Nil <=> pixmaps[q] = Nil
    BY <2>0, <1>t, LoggedKeeps
  <2>3. /\ pixmaps'[p].log = Append(pixmaps[p].log, g)
        /\ \A q \in Pixmaps \ {p} : pixmaps'[q] = pixmaps[q]
    BY <2>0, <1>t DEF Logged, TablesOK, Pixmap
  <2>4. LastDraw(pixmaps'[p].log, g) BY <2>0, <2>3, <1>u, DrawIsLast
  <2>5. Resting BY <1>4 DEF Draw
  <2>6. KeptEverywhere'
    <3> SUFFICES ASSUME NEW q \in Pixmaps, kept'[q] # Nil
                 PROVE  KeptOf(q, kept[q].gc, kept[q].colour)'
      BY DEF KeptEverywhere
    <3>1. CASE q = p
      <4>1. Keeps(g) /\ kept'[q].gc = g /\ kept'[q].colour = painting[g]
        <5> HIDE DEF Keeps
        <5> QED BY <1>t, <2>0, <3>1 DEF Tables
      <4>2. ~Snapped' /\ ~GcsSnapped' BY <2>5, <4>1 DEF Keeps, Snapped, GcsSnapped
      <4>3. Plainly(gcs[g], painting[g]) BY <1>t, <2>0, <4>1, PlainlyDrawn
      <4>4. Plainly(gcs'[kept'[q].gc], kept'[q].colour) BY <2>0, <4>1, <4>3
      <4>5. /\ pixmaps'[q] # Nil /\ gcs'[kept'[q].gc] # Nil
            /\ LastDraw(pixmaps'[q].log, kept'[q].gc)
        BY <2>0, <2>2, <2>4, <3>1, <4>1
      <4> QED BY <4>2, <4>4, <4>5 DEF KeptOf
    <3>2. CASE q # p
      <4>1. kept'[q] = kept[q] /\ pixmaps'[q] = pixmaps[q] BY <1>t, <2>0, <2>3, <3>2 DEF Tables
      <4>2. KeptOf(q, kept[q].gc, kept[q].colour) BY <1>t, <4>1 DEF KeptEverywhere
      <4> QED BY <2>0, <2>5, <4>1, <4>2 DEF KeptOf, Snapped, GcsSnapped
    <3> QED BY <3>1, <3>2
  <2>7. \A h \in Gcs : PaintingRests(h) BY <2>0, <2>2 DEF PaintingRests
  <2>8. PaintingKnown' BY <1>t, <2>5, <2>7, PaintingStays DEF PaintingKnown
  <2>9. SnapshotsAgree' BY <1>4, <2>2, <1>t DEF Draw, SnapshotsAgree, Snapped, GcsSnapped
  <2> QED BY <2>1, <2>5, <2>6, <2>8, <2>9 DEF Remembered
<1>5. ASSUME NEW q \in Pixmaps, CopyArea(p, q) PROVE Goal
  <2>0. /\ pixmaps[p] # Nil /\ pixmaps' = Logged(p, q)
        /\ pixmaps[p] \in Pixmap /\ UNCHANGED <<gcs, painting>>
        /\ kept' = [r \in Pixmaps |-> IF r \in {q} THEN Nil ELSE kept[r]]
    BY <1>5, <1>t DEF CopyArea, Tracked, TablesOK, Forget
  <2>1. Tables' BY <1>5, <1>t, <2>0 DEF CopyArea, Tables
  <2>2. \A r \in Pixmaps : pixmaps'[r] = Nil <=> pixmaps[r] = Nil
    BY <2>0, <1>t, LoggedKeeps
  <2>3. /\ pixmaps'[p].log = Append(pixmaps[p].log, q)
        /\ \A r \in Pixmaps \ {p} : pixmaps'[r] = pixmaps[r]
    BY <2>0, <1>t DEF Logged, TablesOK, Pixmap
  <2>4. \A g \in Gcs : LastDraw(pixmaps[p].log, g) => LastDraw(pixmaps'[p].log, g)
    BY <2>0, <2>3, <1>u, CopyIsNoDraw
  <2>5. KeptRests
    <3>1. \A r \in Pixmaps : kept[r] # Nil => kept[r].gc \in Gcs BY <1>t DEF Tables, Kept
    <3> QED BY <2>0, <2>2, <2>3, <2>4, <3>1 DEF KeptRests
  <2>6. \A h \in Gcs : PaintingRests(h) BY <2>0, <2>2 DEF PaintingRests
  <2>7. Resting BY <1>5 DEF CopyArea
  <2>8. KeptEverywhere' BY <1>t, <2>5, <2>7, KeptStays
  <2>9. PaintingKnown' BY <1>t, <2>6, <2>7, PaintingStays DEF PaintingKnown
  <2>10. SnapshotsAgree' BY <1>5, <2>2, <1>t DEF CopyArea, SnapshotsAgree, Snapped, GcsSnapped
  <2> QED BY <2>1, <2>7, <2>8, <2>9, <2>10 DEF Remembered
<1> QED BY <1>1, <1>2, <1>3, <1>4, <1>5

LEMMA GcsKeep ==
  ASSUME IInv, CInv, NEW g \in Gcs,
         \/ \E d \in Drawables, set \in Setting : CreateGC(g, d, set)
         \/ \E set \in Setting : ChangeGC(g, set)
         \/ AlterGC(g) \/ FreeGC(g)
  PROVE  Remembered /\ SnapshotsAgree' /\ Resting
<1> DEFINE Goal == Remembered /\ SnapshotsAgree' /\ Resting
<1> USE DEF Request, ResourceRequest, Resting
<1>t. TablesOK /\ Tables /\ KeptEverywhere /\ PaintingKnown /\ SnapshotsAgree BY DEF IInv, CInv
<1>u. \A p \in Pixmaps : kept[p] # Nil => kept[p].gc \in Gcs BY <1>t DEF Tables, Kept
<1>v. /\ DOMAIN kept = Pixmaps /\ "astray" \notin Paints /\ Nil \notin Paints
      /\ \A set \in Setting : set.paint \in Paints
  BY <1>t, AstrayAssumption, NilAssumption DEF Tables, Paints, Setting
<1>1. ASSUME NEW d \in Drawables, NEW set \in Setting, CreateGC(g, d, set) PROVE Goal
  <2> DEFINE gc == [drawable |-> d, made |-> set, changes |-> <<>>]
  <2>a. <<>> \in Seq(Setting) OBVIOUS
  <2>0. gc \in GC BY <2>a DEF GC
  <2>1. /\ gcs[g] = Nil /\ UNCHANGED <<pixmaps, kept>> /\ CanSet(set)
        /\ gcs' = [gcs EXCEPT ![g] = gc] /\ painting' = [painting EXCEPT ![g] = set.paint]
        /\ stable' = stable \ {g}
    BY <1>1 DEF CreateGC
  <2>2. Resting BY <1>1 DEF CreateGC
  <2>3. LastSetting(gc) = set BY DEF LastSetting
  <2> HIDE DEF gc
  <2>4. Tables' BY <1>t, <1>v, <2>0, <2>1, <2>2 DEF Tables
  <2>5. KeptRests BY <1>t, <1>u, <2>1 DEF KeptRests, KeptEverywhere, KeptOf, Tables
  <2>6. KeptEverywhere' BY <1>t, <2>2, <2>5, KeptStays
  <2>7. PaintingKnown'
    <3> SUFFICES ASSUME NEW h \in Gcs, gcs'[h] # Nil, painting'[h] \in Paints PROVE PaintingOf(h)'
      BY DEF PaintingKnown
    <3>1. CASE h = g
      <4>1. LastSetting(gcs'[h]) = set /\ painting'[h] = set.paint /\ h \notin stable'
        BY <1>t, <2>1, <2>3, <3>1 DEF Tables
      <4> QED BY <1>t, <2>1, <3>1, <4>1, PaintingSet
    <3>2. CASE h # g
      <4>1. PaintingRests(h) BY <1>t, <2>1, <3>2 DEF PaintingRests, Tables
      <4> QED BY <1>t, <2>2, <4>1, PaintingStays
    <3> QED BY <3>1, <3>2
  <2>8. SnapshotsAgree' BY <1>t, <2>1, <2>2 DEF SnapshotsAgree, Snapped, GcsSnapped, Tables
  <2> QED BY <2>2, <2>4, <2>6, <2>7, <2>8 DEF Remembered
<1>2. ASSUME NEW set \in Setting, ChangeGC(g, set) PROVE Goal
  <2> DEFINE gc == [gcs[g] EXCEPT !.changes = Append(@, set)]
  <2>0. gcs[g] \in GC BY <1>2, <1>t DEF ChangeGC, Tracked, Tables
  <2>a. gc \in GC BY <2>0 DEF GC
  <2>1. /\ UNCHANGED pixmaps /\ CanSet(set) /\ gcs' = [gcs EXCEPT ![g] = gc]
        /\ painting' = [painting EXCEPT ![g] = IF painting[g] = "astray" THEN "astray" ELSE set.paint]
        /\ stable' = stable \ {g}
        /\ kept' = [p \in Pixmaps |-> IF p \in PaintedWith(g) THEN Nil ELSE kept[p]]
    BY <1>2 DEF ChangeGC, Forget
  <2>2. Resting BY <1>2 DEF ChangeGC
  <2>3. LastSetting(gc) = set
    <3>1. gcs[g].changes \in Seq(Setting) BY <2>0 DEF GC
    <3>2. gc.changes = Append(gcs[g].changes, set) BY <2>0 DEF GC
    <3>3. Append(gcs[g].changes, set) # <<>> /\ Last(Append(gcs[g].changes, set)) = set
      BY <3>1 DEF Last
    <3> QED BY <3>2, <3>3 DEF LastSetting
  <2> HIDE DEF gc
  <2>4. Tables' BY <1>t, <1>v, <2>a, <2>1, <2>2 DEF Tables
  <2>5. KeptRests BY <1>t, <1>u, <1>v, <2>1 DEF KeptRests, PaintedWith, Tracked, Tables
  <2>6. KeptEverywhere' BY <1>t, <2>2, <2>5, KeptStays
  <2>7. PaintingKnown'
    <3> SUFFICES ASSUME NEW h \in Gcs, gcs'[h] # Nil, painting'[h] \in Paints PROVE PaintingOf(h)'
      BY DEF PaintingKnown
    <3>1. CASE h = g
      <4>1. LastSetting(gcs'[h]) = set /\ painting'[h] = set.paint /\ h \notin stable'
        BY <1>t, <1>v, <2>1, <2>3, <3>1 DEF Tables
      <4> QED BY <1>t, <2>1, <3>1, <4>1, PaintingSet
    <3>2. CASE h # g
      <4>1. PaintingRests(h) BY <1>t, <2>1, <3>2 DEF PaintingRests, Tables
      <4> QED BY <1>t, <2>2, <4>1, PaintingStays
    <3> QED BY <3>1, <3>2
  <2>8. SnapshotsAgree' BY <1>t, <2>1, <2>2 DEF SnapshotsAgree, Snapped, GcsSnapped, Tables
  <2> QED BY <2>2, <2>4, <2>6, <2>7, <2>8 DEF Remembered
<1>3. ASSUME AlterGC(g) PROVE Goal
  <2>1. /\ UNCHANGED <<pixmaps, gcs, kept>> /\ painting' = [painting EXCEPT ![g] = "astray"]
    BY <1>3 DEF AlterGC
  <2>2. Resting BY <1>3 DEF AlterGC
  <2>4. Tables' BY <1>t, <2>1, <2>2 DEF Tables
  <2>5. KeptRests BY <2>1 DEF KeptRests
  <2>6. KeptEverywhere' BY <1>t, <2>2, <2>5, KeptStays
  <2>7. \A h \in Gcs : PaintingRests(h) BY <1>t, <1>v, <2>1 DEF PaintingRests, Tables
  <2>8. PaintingKnown' BY <1>t, <2>2, <2>7, PaintingStays DEF PaintingKnown
  <2>9. SnapshotsAgree' BY <1>t, <2>1, <2>2 DEF SnapshotsAgree, Snapped, GcsSnapped
  <2> QED BY <2>2, <2>4, <2>6, <2>8, <2>9 DEF Remembered
<1>4. ASSUME FreeGC(g) PROVE Goal
  <2>1. /\ UNCHANGED pixmaps /\ gcs' = [gcs EXCEPT ![g] = Nil]
        /\ painting' = [painting EXCEPT ![g] = Nil] /\ stable' = stable \ {g}
        /\ kept' = [p \in Pixmaps |-> IF p \in PaintedWith(g) THEN Nil ELSE kept[p]]
    BY <1>4 DEF FreeGC, Forget
  <2>2. Resting BY <1>4 DEF FreeGC
  <2>4. Tables' BY <1>t, <2>1, <2>2 DEF Tables
  <2>5. KeptRests BY <1>t, <1>u, <1>v, <2>1 DEF KeptRests, PaintedWith, Tracked, Tables
  <2>6. KeptEverywhere' BY <1>t, <2>2, <2>5, KeptStays
  <2>7. \A h \in Gcs : PaintingRests(h) BY <1>t, <1>v, <2>1 DEF PaintingRests, Tables
  <2>8. PaintingKnown' BY <1>t, <2>2, <2>7, PaintingStays DEF PaintingKnown
  <2>9. SnapshotsAgree' BY <1>t, <2>1, <2>2 DEF SnapshotsAgree, Snapped, GcsSnapped, Tables
  <2> QED BY <2>2, <2>4, <2>6, <2>8, <2>9 DEF Remembered
<1> QED BY <1>1, <1>2, <1>3, <1>4

\* Requests about anything else.
LEMMA OthersKeep ==
  ASSUME CInv, Resting, UNCHANGED <<pixmaps, gcs, painting, kept>>
  PROVE  Remembered /\ SnapshotsAgree'
<1>t. Tables /\ KeptEverywhere /\ PaintingKnown /\ SnapshotsAgree BY DEF CInv
<1>1. Tables' BY <1>t DEF Tables, Resting
<1>2. KeptEverywhere' BY <1>t, KeptStays DEF KeptRests, Resting
<1>3. PaintingKnown' BY <1>t, PaintingStays DEF PaintingKnown, PaintingRests
<1>4. SnapshotsAgree' BY <1>t DEF SnapshotsAgree, Snapped, GcsSnapped, Resting
<1> QED BY <1>1, <1>2, <1>3, <1>4 DEF Remembered

LEMMA RequestKeeps ==
  IInv /\ CInv /\ ProcessRequest => Remembered /\ SnapshotsAgree' /\ Resting
<1> SUFFICES ASSUME IInv, CInv, ProcessRequest PROVE Remembered /\ SnapshotsAgree' /\ Resting
  OBVIOUS
<1>1. ASSUME \E s \in Segments : ShmAttach(s) \/ ShmDetach(s)
      PROVE  Remembered /\ SnapshotsAgree' /\ Resting
  <2>1. Resting /\ UNCHANGED <<pixmaps, gcs, painting, kept>>
    BY <1>1 DEF ShmAttach, ShmDetach, ResourceRequest, Request, Resting
  <2> QED BY <2>1, OthersKeep
<1>2. ASSUME \E w \in Windows : CreateWindow(w) \/ DestroyWindow(w)
      PROVE  Remembered /\ SnapshotsAgree' /\ Resting
  <2>1. Resting /\ UNCHANGED <<pixmaps, gcs, painting, kept>>
    BY <1>2 DEF CreateWindow, DestroyWindow, ResourceRequest, Request, Resting
  <2> QED BY <2>1, OthersKeep
<1>3. ASSUME PropertyRequest PROVE Remembered /\ SnapshotsAgree' /\ Resting
  <2>1. Resting /\ UNCHANGED <<pixmaps, gcs, painting, kept>>
    BY <1>3 DEF PropertyRequest, Request, Resting, resources
  <2> QED BY <2>1, OthersKeep
<1> QED
  BY <1>1, <1>2, <1>3, PixmapsKeep, GcsKeep
  DEF ProcessRequest, CreatePixmap, ShmCreatePixmap, ChangeProperty, DeleteProperty

\* Each snapshot is of the tables as they are, and what is replayed stays.
LEMMA ReplayKeeps == IInv /\ CInv /\ Replay => CInv'
<1> SUFFICES ASSUME IInv, CInv, Replay PROVE CInv'
  OBVIOUS
<1> USE DEF Step, tracker, resources
<1>t. /\ Tables /\ KeptEverywhere /\ PaintingKnown /\ SnapshotsAgree /\ Results /\ TablesOK
      /\ UNCHANGED <<pixmaps, gcs, painting, kept>>
  BY DEF IInv, CInv, Replay, Start, ReplaySegments, ReplayWindow, ReplayProperty,
         WindowsReplayed, ReplayPixmaps, ReplayShmPixmaps, ReplayGCs, ReplayDraws
<1>p. UNCHANGED <<gcs, pixmaps, painting, oldPixmaps>> /\ (Snapped' <=> Snapped)
      /\ (stable' = stable \/ ~Snapped') => PaintingKnown'
  BY <1>t DEF PaintingKnown, PaintingOf
<1>k. UNCHANGED <<kept, gcs, pixmaps, oldPixmaps, oldGcs>> /\ (Snapped' <=> Snapped)
      /\ (GcsSnapped' <=> GcsSnapped) => KeptEverywhere'
  BY <1>t DEF KeptEverywhere, KeptOf
<1>1. CASE Start \/ ReplaySegments \/ ReplayWindow \/ ReplayProperty \/ WindowsReplayed
  <2>1. /\ UNCHANGED <<oldPixmaps, oldGcs>> /\ ~Snapped /\ ~Snapped'
        /\ ~GcsSnapped /\ ~GcsSnapped'
    BY <1>1 DEF Start, ReplaySegments, ReplayWindow, ReplayProperty, WindowsReplayed, Snapped, GcsSnapped
  <2>2. Tables' BY <1>t, <2>1 DEF Tables
  <2>3. PaintingKnown' /\ KeptEverywhere' BY <1>t, <1>p, <1>k, <2>1
  <2>4. SnapshotsAgree' BY <2>1 DEF SnapshotsAgree
  <2>5. Results'
    BY <1>1, <1>t, <2>1 DEF Start, ReplaySegments, ReplayWindow, ReplayProperty, WindowsReplayed,
       Results, display
  <2> QED BY <2>2, <2>3, <2>4, <2>5 DEF CInv
<1>2. CASE ReplayPixmaps
  <2>1. /\ oldPixmaps' = pixmaps /\ UNCHANGED <<oldGcs, badDraws>> /\ Snapped' /\ ~GcsSnapped'
        /\ phase' # "done" /\ badDraws = {}
    BY <1>2, <1>t DEF ReplayPixmaps, Snapped, GcsSnapped, Results
  <2>2. Tables' BY <1>t, <2>1 DEF Tables, TablesOK
  <2>3. PaintingKnown' BY <1>t, <2>1 DEF PaintingKnown, PaintingOf
  <2>4. KeptEverywhere' BY <1>t, <2>1 DEF KeptEverywhere, KeptOf
  <2>5. SnapshotsAgree' BY <1>t, <2>1 DEF SnapshotsAgree
  <2>6. Results' BY <2>1 DEF Results
  <2> QED BY <2>2, <2>3, <2>4, <2>5, <2>6 DEF CInv
<1>3. CASE ReplayShmPixmaps
  <2>1. /\ UNCHANGED <<oldPixmaps, oldGcs, badDraws, stable>> /\ Snapped /\ Snapped'
        /\ ~GcsSnapped /\ ~GcsSnapped' /\ phase' # "done" /\ badDraws = {}
    BY <1>3, <1>t DEF ReplayShmPixmaps, Snapped, GcsSnapped, Results
  <2>2. Tables' BY <1>t, <2>1 DEF Tables
  <2>3. PaintingKnown' /\ KeptEverywhere' BY <1>t, <1>p, <1>k, <2>1
  <2>4. SnapshotsAgree' BY <1>t, <2>1 DEF SnapshotsAgree
  <2>5. Results' BY <2>1 DEF Results
  <2> QED BY <2>2, <2>3, <2>4, <2>5 DEF CInv
<1>4. CASE ReplayGCs
  <2>1. dGcs' = GcsOf(oldGcs)'
    BY <1>4 DEF ReplayGCs, GcsOf, Tracked, Created, Repainted, FirstSetting, MadeWith, Remade, Usable, Lost
  <2>2. /\ oldGcs' = gcs /\ UNCHANGED <<oldPixmaps, badDraws, stable>>
        /\ Snapped /\ Snapped' /\ GcsSnapped' /\ phase' # "done" /\ badDraws = {}
    BY <1>4, <1>t DEF ReplayGCs, Snapped, GcsSnapped, Results
  <2>3. Tables' BY <1>t, <2>2 DEF Tables
  <2>4. KeptEverywhere' BY <1>t, <2>2 DEF KeptEverywhere, KeptOf
  <2>5. PaintingKnown' BY <1>t, <1>p, <2>2
  <2>6. SnapshotsAgree' BY <1>t, <2>2 DEF SnapshotsAgree
  <2>7. Results' BY <2>1, <2>2 DEF Results
  <2> QED BY <2>3, <2>4, <2>5, <2>6, <2>7 DEF CInv
<1>5. CASE ReplayDraws
  <2>1. UNCHANGED <<oldPixmaps, oldGcs, dWindows, dPixmaps, dGcs, stable>> BY <1>5 DEF ReplayDraws
  <2>2. UNCHANGED <<Lost, Usable, Tracked(oldPixmaps), Tracked(oldGcs)>>
    BY <2>1 DEF Lost, Usable, Tracked
  <2>3. UNCHANGED GcsOf(oldGcs)
    BY <2>1, <2>2 DEF GcsOf, Created, Repainted, FirstSetting, MadeWith, Remade
  <2>4. \A p \in Pixmaps : ShownOf(p)' = ShownOf(p)
    BY <2>1, <2>2 DEF ShownOf, Executed, Sent
  <2>5. UNCHANGED Shown BY <2>4 DEF Shown
  <2>6. UNCHANGED Refused BY <2>1, <2>2 DEF Refused, Executed, Sent
  <2>7. dShown' = Shown /\ badDraws' = Refused
    BY <1>5 DEF ReplayDraws, Shown, ShownOf, Refused
  <2>8. Results' BY <1>5, <1>t, <2>1, <2>3, <2>5, <2>6, <2>7 DEF ReplayDraws, Results, GcsSnapped
  <2>a. Snapped /\ Snapped' /\ GcsSnapped /\ GcsSnapped' BY <1>5 DEF ReplayDraws, Snapped, GcsSnapped
  <2>9. Tables' /\ KeptEverywhere' /\ PaintingKnown' /\ SnapshotsAgree'
    BY <1>t, <1>p, <1>k, <2>1, <2>a DEF Tables, SnapshotsAgree
  <2> QED BY <2>8, <2>9 DEF CInv
<1> QED BY <1>1, <1>2, <1>3, <1>4, <1>5 DEF Replay

LEMMA Invariants == Spec => [](IInv /\ CInv)
<1>1. Init => IInv /\ CInv
  BY DEF Init, None, IInv, TablesOK, Agreed, SegmentsAgree, PixmapsAgree, After, CInv, Tables,
         KeptEverywhere, PaintingKnown, SnapshotsAgree, Results, Snapped, GcsSnapped, WindowsAgree, Tracked
<1>2. IInv /\ CInv /\ [Next]_vars => (IInv /\ CInv)'
  <2> SUFFICES ASSUME IInv, CInv, [Next]_vars PROVE IInv' /\ CInv'
    OBVIOUS
  <2>1. CASE ProcessRequest
    <3>1. Results' BY <2>1, RequestKeeps, ResultsRest DEF CInv
    <3> QED BY <2>1, <3>1, RequestStep, RequestKeeps DEF CInv, Remembered
  <2>2. CASE Replay BY <2>2, ReplayStep, ReplayKeeps
  <2>3. CASE UNCHANGED vars
    <3> USE <2>3 DEF vars, tracker, resources, property, logged, replayed, display
    <3>0. \A p : Based(p)' = Based(p) BY DEF Based
    <3>1. IInv' BY <3>0 DEF IInv, TablesOK, Agreed, SegmentsAgree, WindowsAgree, PixmapsAgree, After
    <3>2. Resting BY DEF Resting
    <3>3. Results' BY <3>2, ResultsRest DEF CInv
    <3>4. Remembered /\ SnapshotsAgree' BY <3>2, OthersKeep
    <3> QED BY <3>1, <3>3, <3>4 DEF CInv, Remembered
  <2> QED BY <2>1, <2>2, <2>3 DEF Next
<1> QED BY <1>1, <1>2, PTL DEF Spec

-----------------------------------------------------------------------------
Stated == [paint : Paints \cup {"default"}, clip : Pixmaps \cup {Nil}]

LEMMA RequestsInOrder ==
  ASSUME NEW gc \in GC
  PROVE  /\ <<FirstSetting(gc)>> \o gc.changes \in Seq(Stated)
         /\ Len(<<FirstSetting(gc)>> \o gc.changes) = Len(gc.changes) + 1
         /\ (<<FirstSetting(gc)>> \o gc.changes)[1] = FirstSetting(gc)
         /\ gc.changes # <<>> =>
              (<<FirstSetting(gc)>> \o gc.changes)[Len(gc.changes) + 1] = Last(gc.changes)
<1>1. FirstSetting(gc) \in Stated BY DEF GC, Setting, Stated, FirstSetting, MadeWith
<1>2. gc.changes \in Seq(Setting) BY DEF GC
<1>3. \A set \in Setting : set \in Stated BY DEF Setting, Stated
<1>4. gc.changes \in Seq(Stated) BY <1>2, <1>3
<1> QED BY <1>1, <1>4 DEF Last

\* The last change decides, or the create request if there is none.
LEMMA LastChangeDecides ==
  ASSUME NEW gc \in GC, gc.changes # <<>>, Last(gc.changes) \in Usable
  PROVE  Repainted(gc) = Last(gc.changes).paint
<1> DEFINE log == <<FirstSetting(gc)>> \o gc.changes
<1>1. /\ log \in Seq(Stated) /\ Len(log) = Len(gc.changes) + 1
      /\ log[Len(log)] = Last(gc.changes)
  BY RequestsInOrder
<1>0. Len(gc.changes) \in Nat BY DEF GC
<1> HIDE DEF log
<1>2. Len(log) \in DOMAIN log /\ \A j \in (Len(log) + 1)..Len(log) : log[j] \notin Usable
  BY <1>0, <1>1
<1>3. LastIn(log, Usable) = log[Len(log)] BY <1>1, <1>2, LastInIs
<1> QED BY <1>1, <1>3 DEF Repainted, log

LEMMA CreationDecides ==
  ASSUME NEW gc \in GC, gc.changes = <<>>, FirstSetting(gc) \in Usable
  PROVE  Repainted(gc) = MadeWith(gc)
<1> DEFINE log == <<FirstSetting(gc)>> \o gc.changes
<1>0. Len(gc.changes) = 0 OBVIOUS
<1>1. log \in Seq(Stated) BY RequestsInOrder
<1>2. Len(log) = Len(gc.changes) + 1 BY RequestsInOrder
<1>3. log[1] = FirstSetting(gc) BY RequestsInOrder
<1> HIDE DEF log
<1>4. 1 \in DOMAIN log /\ \A j \in (1 + 1)..Len(log) : log[j] \notin Usable
  BY <1>0, <1>1, <1>2
<1>5. LastIn(log, Usable) = log[1] BY <1>1, <1>3, <1>4, LastInIs
<1> QED BY <1>3, <1>5 DEF Repainted, FirstSetting, log

LEMMA RepaintedUsable ==
  ASSUME NEW gc \in GC, FirstSetting(gc) \in Usable
  PROVE  Repainted(gc) \in Colours \cup dPixmaps \cup {"default"}
<1> DEFINE log == <<FirstSetting(gc)>> \o gc.changes
<1>0. Len(gc.changes) \in Nat BY DEF GC
<1>1. log \in Seq(Stated) BY RequestsInOrder
<1>2. Len(log) = Len(gc.changes) + 1 BY RequestsInOrder
<1>3. log[1] = FirstSetting(gc) BY RequestsInOrder
<1> HIDE DEF log
<1>4. 1 \in DOMAIN log BY <1>0, <1>1, <1>2
<1>5. LastIn(log, Usable) \in Usable BY <1>1, <1>3, <1>4, LastInMember
<1> QED BY <1>5 DEF Repainted, Usable, log

\* A GC is refused only for a pixmap that was lost, or a clip mask that was freed.
LEMMA CreatedUnlessLost ==
  ASSUME NEW gc \in GC, {gc.drawable, gc.made.paint} \cap Lost = {},
         gc.made.clip \in dPixmaps \cup {Nil}
  PROVE  Created(gc)
<1>1. gc.made.paint \in Colours \cup Pixmaps BY DEF GC, Setting, Paints
<1>2. MadeWith(gc) \in Colours \cup dPixmaps \cup {"default"} BY <1>1 DEF MadeWith, Lost
<1> QED BY <1>2 DEF Created, FirstSetting, Usable

-----------------------------------------------------------------------------
\* What the application has not touched since the replay began, and is made on what
\* it has not touched, is on the display as it is in the tracker, whenever the
\* snapshots were taken and in whatever order it was sent (synthesis.go:48-108).
THEOREM PixmapsComeBack == Spec => []PixmapsReplayed
<1>1. IInv => PixmapsReplayed
  BY DEF IInv, Agreed, TablesOK, PixmapsAgree, After, PixmapsReplayed, Plain, Tracked, Based
<1> QED BY <1>1, Invariants, PTL

\* A GC untouched since the replay began comes back with what it paints with on the
\* application's own display, by the last of the requests that made it what it is
\* (synthesis.go:211-253).
THEOREM GcsComeBack == Spec => []GcsReplayed
<1>1. IInv /\ CInv => GcsReplayed
  <2> SUFFICES ASSUME IInv, CInv, phase = "done",
                      NEW g \in stable \cap Tracked(gcs),
                      painting[g] \in Colours \cup dPixmaps,
                      {gcs[g].drawable, gcs[g].made.paint} \cap Lost = {},
                      {gcs[g].made.clip, LastSetting(gcs[g]).clip} \subseteq dPixmaps \cup {Nil},
                      painting[g] \in Pixmaps =>
                        gcs[g].changes # <<>> \/ Remade(gcs[g].drawable)
               PROVE  dGcs[g] = painting[g]
    BY DEF GcsReplayed
  <2> DEFINE gc == gcs[g]
  <2>1. g \in Gcs /\ gc \in GC /\ gc # Nil BY DEF CInv, Tables, Tracked
  <2>2. Created(gc) BY <2>1, CreatedUnlessLost
  <2>3. dGcs[g] = Repainted(gc)
    BY <2>1, <2>2 DEF CInv, Results, GcsSnapped, GcsOf, SnapshotsAgree, Tracked, Tables
  <2>4. painting[g] \in Paints BY DEF IInv, Agreed, PixmapsAgree, Paints
  <2>5. PaintingOf(g) BY <2>1, <2>4 DEF CInv, PaintingKnown
  <2>6. painting[g] = LastSetting(gc).paint BY <2>5 DEF PaintingOf
  <2>7. CASE gc.changes # <<>>
    <3>1. LastSetting(gc) = Last(gc.changes) BY <2>7 DEF LastSetting
    <3>2. Last(gc.changes) \in Setting
      <4>1. gc.changes \in Seq(Setting) BY <2>1 DEF GC
      <4> QED BY <2>7, <4>1 DEF Last
    <3>3. Last(gc.changes) \in Usable
      <4> DEFINE last == Last(gc.changes)
      <4>1. last.paint \in Colours \cup dPixmaps /\ last.clip \in dPixmaps \cup {Nil}
        BY <2>6, <3>1
      <4>2. last = [paint |-> last.paint, clip |-> last.clip] BY <3>2 DEF Setting
      <4> HIDE DEF last
      <4>3. last \in Usable BY <4>1, <4>2 DEF Usable
      <4> QED BY <4>3 DEF last
    <3> QED BY <2>1, <2>3, <2>6, <2>7, <3>1, <3>3, LastChangeDecides
  <2>8. CASE gc.changes = <<>>
    <3>1. painting[g] = gc.made.paint BY <2>6, <2>8 DEF LastSetting
    <3>2. MadeWith(gc) = gc.made.paint
      <4>1. CASE gc.made.paint \in Colours BY <4>1 DEF MadeWith
      <4>2. CASE gc.made.paint \in Pixmaps
        <5>1. oldPixmaps[gc.made.paint] # Nil
          BY <2>5, <3>1, <4>2 DEF PaintingOf, Snapped
        <5>2. gc.made.paint \in Tracked(oldPixmaps) BY <4>2, <5>1 DEF Tracked, CInv, Tables
        <5> QED BY <2>8, <3>1, <4>2, <5>2 DEF MadeWith
      <4> QED BY <2>4, <3>1, <4>1, <4>2 DEF Paints
    <3> QED BY <2>1, <2>2, <2>3, <2>8, <3>1, <3>2, CreationDecides DEF Created
  <2> QED BY <2>7, <2>8
<1> QED BY <1>1, Invariants, PTL

\* No draw is replayed with a GC that is not there, although draws and GCs are
\* snapshots of different moments (synthesis.go:344-361), but for lost pixmaps and
\* the clip mask a GC was created with (synthesis.go:650).
THEOREM DrawsNameGcs == Spec => []DrawsAccepted
<1>1. IInv /\ CInv => DrawsAccepted
  <2> SUFFICES ASSUME IInv, CInv, NEW p \in Pixmaps, NEW g \in Gcs, <<p, g>> \in badDraws,
                      p \notin Lost
               PROVE  /\ g \in Tracked(oldGcs)
                      /\ \/ {oldGcs[g].drawable, oldGcs[g].made.paint} \cap Lost # {}
                         \/ oldGcs[g].made.clip \notin dPixmaps \cup {Nil}
    BY DEF DrawsAccepted
  <2>1. phase = "done" /\ <<p, g>> \in Refused BY DEF CInv, Results
  <2>2. p \in Tracked(oldPixmaps) /\ g \in Sent(p) \ Executed(p) BY <2>1 DEF Refused
  <2>3. g \in Tracked(oldGcs) /\ oldGcs[g] \in GC BY <2>2 DEF Sent, Tracked, CInv, Tables
  <2>4. dGcs[g] = Nil BY <2>2 DEF Executed, Lost
  <2>5. ~Created(oldGcs[g])
    <3> SUFFICES ASSUME Created(oldGcs[g]) PROVE FALSE
      OBVIOUS
    <3>1. dGcs[g] = Repainted(oldGcs[g]) BY <2>1, <2>3 DEF CInv, Results, GcsSnapped, GcsOf
    <3>2. Repainted(oldGcs[g]) \in Colours \cup dPixmaps \cup {"default"}
      BY <2>3, RepaintedUsable DEF Created
    <3>3. Nil \notin Colours \cup dPixmaps \cup {"default"}
      BY NilAssumption DEF IInv, Agreed, PixmapsAgree
    <3> QED BY <2>4, <3>1, <3>2, <3>3
  <2> QED BY <2>3, <2>5, CreatedUnlessLost
<1> QED BY <1>1, Invariants, PTL

\* A GC that painted a colour all over, and is created, has that colour again.
LEMMA PlainlyRepainted ==
  ASSUME NEW gc \in GC, NEW c \in Colours, Plainly(gc, c), Created(gc)
  PROVE  Repainted(gc) = c
<1>1. CASE gc.changes # <<>>
  <2>1. Last(gc.changes) = [paint |-> c, clip |-> Nil] BY <1>1 DEF Plainly, LastSetting
  <2>2. Last(gc.changes) \in Usable /\ Last(gc.changes).paint = c BY <2>1 DEF Usable
  <2> QED BY <1>1, <2>2, LastChangeDecides
<1>2. CASE gc.changes = <<>>
  <2>1. gc.made.paint = c BY <1>2 DEF Plainly, LastSetting
  <2>2. MadeWith(gc) = c BY <2>1 DEF MadeWith
  <2> QED BY <1>2, <2>2, CreationDecides DEF Created
<1> QED BY <1>1, <1>2

\* What a pixmap shows is what the application last painted it with: the last draw in
\* the log as it was when the pixmaps were replayed, by a GC that was there and had
\* the same colour (synthesis.go:349-361).
THEOREM ContentsComeBack == Spec => []ContentsRestored
<1>1. IInv /\ CInv => ContentsRestored
  <2> SUFFICES ASSUME IInv, CInv, phase = "done", NEW p \in dPixmaps, kept[p] # Nil,
                      dGcs[kept[p].gc] # Nil
               PROVE  dShown[p] = kept[p].colour
    BY DEF ContentsRestored
  <2> DEFINE g == kept[p].gc
             c == kept[p].colour
             log == oldPixmaps[p].log
  <2>1. p \in Pixmaps /\ g \in Gcs /\ c \in Colours
    BY DEF IInv, Agreed, PixmapsAgree, CInv, Tables, Kept
  <2>2. oldPixmaps[p] # Nil /\ LastDraw(log, g) /\ oldGcs[g] # Nil /\ Plainly(oldGcs[g], c)
    BY <2>1 DEF CInv, KeptEverywhere, KeptOf, Snapped, GcsSnapped
  <2>3. /\ p \in Tracked(oldPixmaps) /\ g \in Tracked(oldGcs) /\ log \in Seq(Gcs \cup Pixmaps)
        /\ oldGcs[g] \in GC
    BY <2>1, <2>2 DEF Tracked, CInv, Tables, Pixmap
  <2>4. PICK i \in DOMAIN log : log[i] = g /\ \A j \in (i + 1)..Len(log) : log[j] \notin Gcs
    BY <2>2 DEF LastDraw
  <2>5. g \in Executed(p) BY <2>3, <2>4 DEF Executed, Sent, ToSet
  <2>6. Executed(p) \subseteq Gcs BY DEF Executed, Sent, Tracked, CInv, Tables
  <2>7. LastIn(log, Executed(p)) = g BY <2>3, <2>4, <2>5, <2>6, LastInIs
  <2>8. dShown[p] = dGcs[g] BY <2>1, <2>3, <2>5, <2>7 DEF CInv, Results, Shown, ShownOf
  <2>9. dGcs[g] = IF Created(oldGcs[g]) THEN Repainted(oldGcs[g]) ELSE Nil
    BY <2>1, <2>3 DEF CInv, Results, GcsSnapped, GcsOf
  <2>10. dGcs[g] = c BY <2>1, <2>2, <2>3, <2>9, PlainlyRepainted
  <2> QED BY <2>8, <2>10
<1> QED BY <1>1, Invariants, PTL

-----------------------------------------------------------------------------
(* A property.  Gives says what a log makes of a value, by the values in     *)
(* between, so that what was sent and what is yet to be sent add up.         *)

Gives(start, log, result) ==
  \E vs \in [0..Len(log) -> Seq(Values)] :
    /\ vs[0] = start /\ vs[Len(log)] = result
    /\ \A i \in 1..Len(log) : vs[i] = Written(vs[i - 1], log[i].mode, log[i].value)

LogTypes ==
  /\ propertyCmds \in Seq(PropertyCmd) /\ unsent \in Seq(PropertyCmd)
  /\ value \in Seq(Values) /\ dValue \in Seq(Values) /\ had \in SUBSET Seq(Values)
  /\ unlogged \in BOOLEAN

\* The log gives the value, what is unsent makes of what was sent a value it had.
LogInv ==
  /\ LogTypes
  /\ unlogged \/ Gives(<<>>, propertyCmds, value)
  /\ phase \in {"app", "segments", "windows"} => dValue = <<>> /\ had = {}
  /\ phase # "property" => unsent = <<>>
  /\ Len(unsent) <= Len(propertyCmds)
  /\ had # {} => \E v \in had : Gives(dValue, unsent, v)
  /\ phase \notin {"app", "segments", "windows"} /\ Top \in stable /\ ~unlogged => had = {value}

LEMMA WrittenType ==
  ASSUME NEW old \in Seq(Values), NEW cmd \in PropertyCmd
  PROVE  Written(old, cmd.mode, cmd.value) \in Seq(Values)
<1>1. cmd.mode \in {"replace", "append", "prepend"} /\ cmd.value \in Values BY DEF PropertyCmd
<1>2. <<cmd.value>> \in Seq(Values) BY <1>1
<1> QED BY <1>1, <1>2 DEF Written

LEMMA GivesNothing ==
  ASSUME NEW v \in Seq(Values), NEW w
  PROVE  Gives(v, <<>>, w) <=> w = v
<1>1. Gives(v, <<>>, w) => w = v BY DEF Gives
<1>2. Gives(v, <<>>, v)
  <2> DEFINE vs == [i \in 0..0 |-> v]
  <2>1. vs \in [0..Len(<<>>) -> Seq(Values)] /\ vs[0] = v /\ vs[Len(<<>>)] = v OBVIOUS
  <2>2. 1..Len(<<>>) = {} OBVIOUS
  <2> HIDE DEF vs
  <2> QED BY <2>1, <2>2 DEF Gives
<1> QED BY <1>1, <1>2

LEMMA GivesAppend ==
  ASSUME NEW v \in Seq(Values), NEW w \in Seq(Values), NEW log \in Seq(PropertyCmd),
         NEW cmd \in PropertyCmd, Gives(v, log, w)
  PROVE  Gives(v, Append(log, cmd), Written(w, cmd.mode, cmd.value))
<1> DEFINE new == Append(log, cmd)
           r == Written(w, cmd.mode, cmd.value)
<1>1. PICK vs \in [0..Len(log) -> Seq(Values)] :
        /\ vs[0] = v /\ vs[Len(log)] = w
        /\ \A i \in 1..Len(log) : vs[i] = Written(vs[i - 1], log[i].mode, log[i].value)
  BY DEF Gives
<1>2. r \in Seq(Values) BY WrittenType
<1>3. /\ Len(new) = Len(log) + 1 /\ Len(log) \in Nat /\ new[Len(log) + 1] = cmd
      /\ \A i \in 1..Len(log) : new[i] = log[i]
  OBVIOUS
<1> HIDE DEF new, r
<1> DEFINE ws == [i \in 0..Len(new) |-> IF i \in 0..Len(log) THEN vs[i] ELSE r]
<1>4. ws \in [0..Len(new) -> Seq(Values)] BY <1>1, <1>2
<1>5. ws[0] = v /\ ws[Len(new)] = r BY <1>1, <1>3
<1>6. ASSUME NEW i \in 1..Len(new) PROVE ws[i] = Written(ws[i - 1], new[i].mode, new[i].value)
  <2>1. CASE i \in 1..Len(log)
    <3>1. ws[i] = vs[i] /\ ws[i - 1] = vs[i - 1] /\ new[i] = log[i] BY <1>3, <2>1
    <3> HIDE DEF ws
    <3> QED BY <1>1, <2>1, <3>1
  <2>2. CASE i = Len(log) + 1
    <3>1. ws[i] = r /\ ws[i - 1] = w /\ new[i] = cmd BY <1>1, <1>3, <2>2
    <3> HIDE DEF ws
    <3> QED BY <3>1 DEF r
  <2>3. i \in 1..Len(log) \/ i = Len(log) + 1 BY <1>3
  <2> QED BY <2>1, <2>2, <2>3
<1> HIDE DEF ws
<1>7. Gives(v, new, r) BY <1>4, <1>5, <1>6 DEF Gives
<1> QED BY <1>7 DEF new, r

LEMMA GivesTail ==
  ASSUME NEW v \in Seq(Values), NEW w, NEW log \in Seq(PropertyCmd), log # <<>>, Gives(v, log, w)
  PROVE  Gives(Written(v, Head(log).mode, Head(log).value), Tail(log), w)
<1> DEFINE new == Tail(log)
           s == Written(v, Head(log).mode, Head(log).value)
<1>1. PICK vs \in [0..Len(log) -> Seq(Values)] :
        /\ vs[0] = v /\ vs[Len(log)] = w
        /\ \A i \in 1..Len(log) : vs[i] = Written(vs[i - 1], log[i].mode, log[i].value)
  BY DEF Gives
<1>2. /\ Len(new) = Len(log) - 1 /\ Len(log) \in Nat \ {0} /\ Head(log) = log[1]
      /\ \A i \in 1..Len(new) : new[i] = log[i + 1]
  OBVIOUS
<1>3. s = vs[1] BY <1>1, <1>2
<1> HIDE DEF new, s
<1> DEFINE ws == [i \in 0..Len(new) |-> vs[i + 1]]
<1>4. ws \in [0..Len(new) -> Seq(Values)] BY <1>1, <1>2
<1>5. ws[0] = s /\ ws[Len(new)] = w BY <1>1, <1>2, <1>3
<1>6. ASSUME NEW i \in 1..Len(new) PROVE ws[i] = Written(ws[i - 1], new[i].mode, new[i].value)
  <2>1. ws[i] = vs[i + 1] /\ ws[i - 1] = vs[i] /\ new[i] = log[i + 1] BY <1>2
  <2>2. i + 1 \in 1..Len(log) /\ (i + 1) - 1 = i BY <1>2
  <2>3. vs[i + 1] = Written(vs[i], log[i + 1].mode, log[i + 1].value) BY <1>1, <2>2
  <2> QED BY <2>1, <2>3
<1> HIDE DEF ws
<1>7. Gives(s, new, w) BY <1>4, <1>5, <1>6 DEF Gives
<1> QED BY <1>7 DEF new, s

\* What a replacement makes of a log of one request at most.
LEMMA OneReplaced ==
  ASSUME NEW S, NEW log \in Seq(S), NEW x \in S
  PROVE  /\ log = <<>> => Append(log, x) = <<x>>
         /\ Len(log) = 1 => [log EXCEPT ![1] = x] = <<x>>
         /\ log # <<>> => Len(log) > 0 /\ [log EXCEPT ![1] = x] \in Seq(S)
                         /\ Len([log EXCEPT ![1] = x]) = Len(log)
         /\ log = <<>> => Len(log) = 0
         /\ Len(log) \in Nat
<1>1. Len(log) \in Nat /\ (log = <<>> <=> Len(log) = 0) BY EmptySeq
<1>2. log = <<>> => Append(log, x) = <<x>> OBVIOUS
<1>3. log # <<>> => [log EXCEPT ![1] = x] \in Seq(S) /\ Len([log EXCEPT ![1] = x]) = Len(log)
  BY <1>1, ExceptSeq
<1>4. ASSUME Len(log) = 1 PROVE [log EXCEPT ![1] = x] = <<x>>
  <2> DEFINE s == [log EXCEPT ![1] = x]  t == <<x>>
  <2>1. s \in Seq(S) /\ Len(s) = 1 BY <1>1, <1>3, <1>4
  <2>2. t \in Seq(S) /\ Len(t) = 1 /\ t[1] = x OBVIOUS
  <2>3. s[1] = x BY <1>4
  <2> HIDE DEF s, t
  <2>4. s = t BY <2>1, <2>2, <2>3, SeqEqual
  <2> QED BY <2>4 DEF s, t
<1> QED BY <1>1, <1>2, <1>3, <1>4


\* A log whose only request is a replacement gives what it writes.
LEMMA GivesReplacement ==
  ASSUME NEW v \in Seq(Values), NEW cmd \in PropertyCmd, cmd.mode = "replace"
  PROVE  Gives(v, <<cmd>>, <<cmd.value>>)
<1>1. Gives(v, <<>>, v) BY GivesNothing
<1>2. Written(v, cmd.mode, cmd.value) = <<cmd.value>> BY DEF Written
<1>3. Append(<<>>, cmd) = <<cmd>> /\ <<>> \in Seq(PropertyCmd) OBVIOUS
<1> QED BY <1>1, <1>2, <1>3, GivesAppend

LEMMA PropertyChanged ==
  ASSUME LogInv, NEW mode \in {"replace", "append", "prepend"}, NEW v \in Values,
         ChangeProperty(mode, v)
  PROVE  LogInv'
<1> DEFINE cmd == [mode |-> mode, value |-> v]
           mixed == mode = "replace" /\ Len(propertyCmds) > 1
<1>1. /\ UNCHANGED <<phase, dValue>> /\ stable' = stable \ {Top}
      /\ propertyCmds' = Recorded(propertyCmds, cmd)
      /\ MayReplaceUnsent(cmd)
      /\ value' = Written(value, mode, v)
      /\ unlogged' = IF mode = "replace" THEN mixed ELSE unlogged
      /\ had' = IF mixed \/ had = {} THEN {} ELSE had \cup {value'}
  BY DEF ChangeProperty, PropertyRequest, Request, display
<1>2. cmd \in PropertyCmd /\ cmd.mode = mode /\ cmd.value = v BY DEF PropertyCmd
<1>t. LogTypes BY DEF LogInv
<1> HIDE DEF cmd
<1>3. value' \in Seq(Values) BY <1>1, <1>2, <1>t, WrittenType DEF LogTypes
<1>4. propertyCmds' = IF mode = "replace" /\ propertyCmds # <<>>
                         THEN [propertyCmds EXCEPT ![1] = cmd] ELSE Append(propertyCmds, cmd)
  BY <1>1, <1>2 DEF Recorded
<1>5. /\ propertyCmds' \in Seq(PropertyCmd) /\ Len(propertyCmds') >= Len(propertyCmds)
  BY <1>2, <1>4, <1>t DEF LogTypes
<1>6. \/ unsent' = unsent
      \/ mode = "replace" /\ unsent # <<>> /\ dValue = <<>> /\ unsent' = [unsent EXCEPT ![1] = cmd]
  BY <1>1, <1>2 DEF MayReplaceUnsent
<1>7. unsent' \in Seq(PropertyCmd) /\ Len(unsent') = Len(unsent) /\ (unsent = <<>> => unsent' = <<>>)
  BY <1>2, <1>6, <1>t DEF LogTypes
<1>8. LogTypes' BY <1>1, <1>3, <1>5, <1>7, <1>t DEF LogTypes
<1>9. unlogged' \/ Gives(<<>>, propertyCmds', value')
  <2>0. <<>> \in Seq(Values) OBVIOUS
  <2>1. CASE mode # "replace"
    <3>1. unlogged' = unlogged /\ propertyCmds' = Append(propertyCmds, cmd) BY <1>1, <1>4, <2>1
    <3>2. propertyCmds \in Seq(PropertyCmd) /\ value \in Seq(Values) BY <1>t DEF LogTypes
    <3>3. value' = Written(value, cmd.mode, cmd.value) BY <1>1, <1>2
    <3>4. Gives(<<>>, propertyCmds, value) => Gives(<<>>, propertyCmds', value')
      BY <1>2, <2>0, <3>1, <3>2, <3>3, GivesAppend
    <3>5. unlogged \/ Gives(<<>>, propertyCmds, value) BY DEF LogInv
    <3> QED BY <3>1, <3>4, <3>5
  <2>2. CASE mode = "replace" /\ Len(propertyCmds) \in {0, 1}
    <3>0. propertyCmds \in Seq(PropertyCmd) /\ mode = "replace" BY <1>t, <2>2 DEF LogTypes
    <3>a. propertyCmds = <<>> => propertyCmds' = <<cmd>> BY <1>2, <1>4, <3>0, OneReplaced
    <3>b. propertyCmds # <<>> => Len(propertyCmds) = 1 BY <1>2, <2>2, <3>0, OneReplaced
    <3>c. Len(propertyCmds) = 1 => [propertyCmds EXCEPT ![1] = cmd] = <<cmd>>
      BY <1>2, <3>0, OneReplaced
    <3>1. propertyCmds' = <<cmd>> BY <1>4, <3>0, <3>a, <3>b, <3>c
    <3>2. value' = <<v>> BY <1>1, <2>2 DEF Written
    <3> QED BY <1>2, <2>0, <2>2, <3>1, <3>2, GivesReplacement
  <2>3. CASE mode = "replace" /\ Len(propertyCmds) > 1 BY <1>1, <2>3
  <2>4. Len(propertyCmds) \in Nat BY <1>t DEF LogTypes
  <2> QED BY <2>1, <2>2, <2>3, <2>4
<1>10. had' # {} => \E w \in had' : Gives(dValue', unsent', w)
  <2> SUFFICES ASSUME had' # {} PROVE \E w \in had' : Gives(dValue', unsent', w)
    OBVIOUS
  <2>1. ~mixed /\ had # {} /\ had' = had \cup {value'} BY <1>1
  <2>2. PICK w \in had : Gives(dValue, unsent, w) BY <2>1 DEF LogInv
  <2>3. CASE unsent' = unsent BY <1>1, <2>1, <2>2, <2>3
  <2>4. CASE mode = "replace" /\ unsent # <<>> /\ dValue = <<>> /\ unsent' = [unsent EXCEPT ![1] = cmd]
    <3>0. Len(unsent) > 0 /\ Len(unsent) \in Nat /\ Len(propertyCmds) \in Nat
      BY <1>2, <1>t, <2>4, OneReplaced DEF LogTypes
    <3>a. Len(unsent) <= Len(propertyCmds) BY DEF LogInv
    <3>b. ~(Len(propertyCmds) > 1) BY <2>1, <2>4
    <3>1. Len(unsent) = 1
      <4> DEFINE n == Len(unsent)  max == Len(propertyCmds)
      <4>1. n \in Nat /\ n > 0 /\ max \in Nat /\ n <= max /\ ~(max > 1) BY <3>0, <3>a, <3>b
      <4> HIDE DEF n, max
      <4>2. n = 1 BY <4>1
      <4> QED BY <4>2 DEF n
    <3>2. unsent' = <<cmd>> BY <1>2, <1>t, <2>4, <3>1, OneReplaced DEF LogTypes
    <3>3. value' = <<v>> BY <1>1, <2>4 DEF Written
    <3>4. Gives(dValue, <<cmd>>, <<v>>) BY <1>2, <1>t, <2>4, GivesReplacement DEF LogTypes
    <3> QED BY <1>1, <2>1, <3>2, <3>3, <3>4
  <2> QED BY <1>6, <2>3, <2>4
<1>11. Top \notin stable' BY <1>1
<1> QED BY <1>1, <1>5, <1>7, <1>8, <1>9, <1>10, <1>11, <1>t DEF LogInv, LogTypes

LEMMA PropertyDeleted == LogInv /\ DeleteProperty => LogInv'
<1> SUFFICES ASSUME LogInv, DeleteProperty PROVE LogInv'
  OBVIOUS
<1>1. /\ UNCHANGED <<phase, dValue, propertyCmds, unsent>> /\ stable' = stable \ {Top}
      /\ value' = <<>> /\ unlogged' = (propertyCmds # <<>>)
      /\ had' = IF had = {} THEN {} ELSE had \cup {<<>>}
  BY DEF DeleteProperty, PropertyRequest, Request, display
<1>2. <<>> \in Seq(Values) OBVIOUS
<1>3. Gives(<<>>, <<>>, <<>>) BY <1>2, GivesNothing
<1>4. unlogged' \/ Gives(<<>>, propertyCmds', value') BY <1>1, <1>3
<1>5. had' # {} => \E w \in had' : Gives(dValue', unsent', w) BY <1>1 DEF LogInv
<1>6. LogTypes' BY <1>1, <1>2 DEF LogInv, LogTypes
<1> QED BY <1>1, <1>4, <1>5, <1>6 DEF LogInv

LEMMA LogStep == LogInv /\ [Next]_vars => LogInv'
<1> SUFFICES ASSUME LogInv, [Next]_vars PROVE LogInv'
  OBVIOUS
<1> USE DEF tracker, logged, replayed
<1> DEFINE Rests == UNCHANGED <<propertyCmds, value, unlogged, unsent, had, dValue>> /\ stable' \subseteq stable
<1>1. ASSUME UNCHANGED property, Request({}) \/ (\E t : Request(t)) PROVE LogInv'
  <2>1. Rests /\ UNCHANGED phase BY <1>1 DEF property, Request, display
  <2> QED BY <2>1 DEF LogInv, LogTypes
<1>2. CASE ProcessRequest
  <2>1. \/ UNCHANGED property /\ \E t : Request(t)
        \/ \E mode \in {"replace", "append", "prepend"}, v \in Values : ChangeProperty(mode, v)
        \/ DeleteProperty
    BY <1>2 DEF ProcessRequest, CreatePixmap, ShmCreatePixmap, NewPixmap, FreePixmap, RenderDraw,
       Draw, CopyArea, ShmAttach, ShmDetach, ChangeGC, CreateGC, FreeGC, AlterGC, CreateWindow,
       DestroyWindow, ResourceRequest
  <2> QED BY <1>1, <2>1, PropertyChanged, PropertyDeleted
<1>3. CASE Start
  <2>1. UNCHANGED <<propertyCmds, value, unlogged, unsent, had, dValue>> /\ phase = "app"
        /\ phase' = "segments"
    BY <1>3 DEF Start, Step, display
  <2> QED BY <2>1 DEF LogInv, LogTypes
<1>4. CASE ReplaySegments
  <2>1. Rests /\ phase = "segments" /\ phase' = "windows" BY <1>4 DEF ReplaySegments, Step
  <2> QED BY <2>1 DEF LogInv, LogTypes
<1>5. CASE ReplayWindow
  <2>1. /\ UNCHANGED <<propertyCmds, value, unlogged, dValue, stable>>
        /\ phase = "windows" /\ phase' = "property" /\ unsent' = propertyCmds
        /\ had' = (IF unlogged THEN {} ELSE {value})
    BY <1>5 DEF ReplayWindow, Step, display
  <2>2. LogTypes /\ dValue = <<>> /\ (unlogged \/ Gives(<<>>, propertyCmds, value))
    BY <2>1 DEF LogInv
  <2>3. LogTypes' BY <2>1, <2>2 DEF LogTypes
  <2>4. Len(unsent') <= Len(propertyCmds') BY <2>1, <2>2 DEF LogTypes
  <2>5. had' # {} => \E w \in had' : Gives(dValue', unsent', w) BY <2>1, <2>2
  <2>6. unlogged' \/ Gives(<<>>, propertyCmds', value') BY <2>1, <2>2
  <2> QED BY <2>1, <2>3, <2>4, <2>5, <2>6 DEF LogInv
<1>6. CASE ReplayProperty
  <2>1. /\ UNCHANGED <<propertyCmds, value, unlogged, had, stable, phase>> /\ phase = "property"
        /\ unsent # <<>> /\ unsent' = Tail(unsent)
        /\ dValue' = Written(dValue, Head(unsent).mode, Head(unsent).value)
    BY <1>6 DEF ReplayProperty
  <2>2. Head(unsent) \in PropertyCmd /\ unsent' \in Seq(PropertyCmd) /\ Len(unsent') <= Len(propertyCmds)
    BY <2>1 DEF LogInv, LogTypes
  <2>3. dValue' \in Seq(Values) BY <2>1, <2>2, WrittenType DEF LogInv, LogTypes
  <2>4. LogTypes' BY <2>1, <2>2, <2>3 DEF LogInv, LogTypes
  <2>5. had' # {} => \E w \in had' : Gives(dValue', unsent', w)
    <3> SUFFICES ASSUME had # {} PROVE \E w \in had : Gives(dValue', unsent', w)
      BY <2>1
    <3>1. PICK w \in had : Gives(dValue, unsent, w) BY DEF LogInv
    <3>2. Gives(dValue', unsent', w) BY <2>1, <3>1, GivesTail DEF LogInv, LogTypes
    <3> QED BY <3>2
  <2> QED BY <2>1, <2>2, <2>4, <2>5 DEF LogInv
<1>7. CASE WindowsReplayed
  <2>1. Rests /\ unsent = <<>> /\ phase = "property" /\ phase' = "pixmaps"
    BY <1>7 DEF WindowsReplayed, Step, display
  <2> QED BY <2>1 DEF LogInv, LogTypes
<1>8. CASE ReplayPixmaps \/ ReplayShmPixmaps \/ ReplayGCs \/ ReplayDraws
  <2>1. /\ Rests /\ phase \in {"pixmaps", "shmPixmaps", "gcs", "draws"}
        /\ phase' \in {"shmPixmaps", "gcs", "draws", "done"}
    BY <1>8 DEF ReplayPixmaps, ReplayShmPixmaps, ReplayGCs, ReplayDraws, Step
  <2> QED BY <2>1 DEF LogInv, LogTypes
<1>9. CASE UNCHANGED vars
  <2>1. Rests /\ UNCHANGED phase BY <1>9 DEF vars, display
  <2> QED BY <2>1 DEF LogInv, LogTypes
<1> QED BY <1>2, <1>3, <1>4, <1>5, <1>6, <1>7, <1>8, <1>9 DEF Next, Replay

LEMMA LogAlways == Spec => []LogInv
<1>1. Init => LogInv
  <2> SUFFICES ASSUME Init PROVE LogInv
    OBVIOUS
  <2>1. <<>> \in Seq(Values) /\ <<>> \in Seq(PropertyCmd) OBVIOUS
  <2>2. Gives(<<>>, <<>>, <<>>) BY <2>1, GivesNothing
  <2>3. unsent = <<>> /\ propertyCmds = <<>> /\ value = <<>> /\ dValue = <<>> /\ had = {}
        /\ unlogged = FALSE /\ phase = "app"
    BY DEF Init
  <2>4. LogTypes BY <2>1, <2>3 DEF LogTypes
  <2>5. Len(unsent) <= Len(propertyCmds) BY <2>3
  <2> QED BY <2>2, <2>3, <2>4, <2>5 DEF LogInv
<1> QED BY <1>1, LogStep, PTL DEF Spec

\* A property comes back with a value the application gave it since the snapshot of
\* its window, though requests and replay interleave and the log may be written while
\* it is read (state.go:389-400, 646, synthesis.go:397).
THEOREM PropertyComesBack == Spec => []PropertyReplayed
<1>1. LogInv => PropertyReplayed
  <2> SUFFICES ASSUME LogInv, phase = "done"
               PROVE  /\ had # {} => dValue \in had
                      /\ Top \in stable /\ ~unlogged => dValue = value
    BY DEF PropertyReplayed
  <2>1. unsent = <<>> BY DEF LogInv
  <2>2. had # {} => dValue \in had BY <2>1, GivesNothing DEF LogInv, LogTypes
  <2>3. Top \in stable /\ ~unlogged => had = {value} BY DEF LogInv
  <2> QED BY <2>2, <2>3
<1> QED BY <1>1, LogAlways, PTL

-----------------------------------------------------------------------------
(* The types of the other variables, and what the logs hold *)

Shows == Paints \cup {"default", Nil}
RestOK ==
  /\ early \in 0..MaxEarly /\ late \in 0..MaxLate
  /\ stable \subseteq Ids /\ dSegs \subseteq Segments /\ dWindows \subseteq Windows
  /\ dGcs \in [Gcs -> Shows] /\ dShown \in [Pixmaps -> Shows]
  /\ badDraws \subseteq Pixmaps \X Gcs

LEMMA RestStep == IInv /\ CInv /\ RestOK /\ [Next]_vars => RestOK'
<1> SUFFICES ASSUME IInv, CInv, RestOK, [Next]_vars PROVE RestOK'
  OBVIOUS
<1> USE DEF tracker, bounds, display
<1>t. TablesOK /\ Tables /\ dPixmaps \subseteq Pixmaps BY DEF IInv, CInv, Agreed, PixmapsAgree
<1>1. CASE ProcessRequest
  <2>1. \E t : Request(t)
    BY <1>1 DEF ProcessRequest, CreatePixmap, ShmCreatePixmap, NewPixmap, FreePixmap, RenderDraw,
       Draw, CopyArea, ShmAttach, ShmDetach, ChangeGC, CreateGC, FreeGC, AlterGC, CreateWindow,
       DestroyWindow, ResourceRequest, ChangeProperty, DeleteProperty, PropertyRequest
  <2>2. PICK t : Request(t) BY <2>1
  <2>3. early' \in 0..MaxEarly /\ late' \in 0..MaxLate
    BY <2>2, BoundsAssumption DEF Request, RestOK
  <2> QED BY <2>2, <2>3 DEF Request, RestOK
<1>2. CASE Start BY <1>2 DEF Start, RestOK
<1>3. CASE ReplaySegments BY <1>3, <1>t DEF ReplaySegments, RestOK, TablesOK
<1>7. CASE ReplayWindow BY <1>7, <1>t DEF ReplayWindow, RestOK, TablesOK
<1>4. CASE \/ ReplayProperty \/ WindowsReplayed \/ ReplayPixmaps
           \/ ReplayShmPixmaps \/ UNCHANGED vars
  BY <1>4 DEF ReplayProperty, WindowsReplayed, ReplayPixmaps, ReplayShmPixmaps, vars,
              RestOK
<1>5. CASE ReplayGCs
  <2>1. \A g \in Gcs : g \in Tracked(gcs) /\ Created(gcs[g]) => Repainted(gcs[g]) \in Shows
    <3> SUFFICES ASSUME NEW g \in Gcs, g \in Tracked(gcs), Created(gcs[g])
                 PROVE  Repainted(gcs[g]) \in Shows
      OBVIOUS
    <3>1. gcs[g] \in GC /\ FirstSetting(gcs[g]) \in Usable BY <1>t DEF Tracked, Tables, Created
    <3>2. Repainted(gcs[g]) \in Colours \cup dPixmaps \cup {"default"} BY <3>1, RepaintedUsable
    <3> QED BY <3>2, <1>t DEF Shows, Paints
  <2>2. dGcs' \in [Gcs -> Shows] BY <1>5, <2>1 DEF ReplayGCs, Shows
  <2> QED BY <1>5, <2>2 DEF ReplayGCs, RestOK
<1>6. CASE ReplayDraws
  <2>1. \A p \in Pixmaps : p \in Tracked(oldPixmaps) /\ Executed(p) # {} =>
           dGcs[LastIn(oldPixmaps[p].log, Executed(p))] \in Shows
    <3> SUFFICES ASSUME NEW p \in Pixmaps, p \in Tracked(oldPixmaps), Executed(p) # {}
                 PROVE  dGcs[LastIn(oldPixmaps[p].log, Executed(p))] \in Shows
      OBVIOUS
    <3>1. oldPixmaps[p].log \in Seq(Gcs \cup Pixmaps) BY <1>t DEF Tables, Tracked, Pixmap
    <3>2. PICK k \in DOMAIN oldPixmaps[p].log : oldPixmaps[p].log[k] \in Executed(p)
      BY <3>1 DEF Executed, Sent, ToSet
    <3>3. LastIn(oldPixmaps[p].log, Executed(p)) \in Executed(p) BY <3>1, <3>2, LastInMember
    <3>4. Executed(p) \subseteq Gcs BY <1>t DEF Executed, Sent, Tracked, Tables
    <3> QED BY <3>3, <3>4 DEF RestOK
  <2>2. dShown' \in [Pixmaps -> Shows] BY <1>6, <2>1 DEF ReplayDraws, Shows
  <2>3. badDraws' \subseteq Pixmaps \X Gcs
    <3>1. badDraws' = Refused BY <1>6 DEF ReplayDraws, Refused
    <3>2. Refused \subseteq Pixmaps \X Gcs BY <1>t DEF Refused, Sent, Tracked, Tables
    <3> QED BY <3>1, <3>2
  <2> QED BY <1>6, <2>2, <2>3 DEF ReplayDraws, RestOK
<1> QED BY <1>1, <1>2, <1>3, <1>4, <1>5, <1>6, <1>7 DEF Next, Replay

\* Every variable keeps its type, and what a pixmap shows of the last logged request
\* on it is what the last draw in its log names, whatever was freed (state.go:605-624).
THEOREM LogsCorrect == Spec => []LogsOK
<1>1. Init => RestOK BY BoundsAssumption DEF Init, None, RestOK, Shows
<1>2. IInv /\ CInv /\ LogInv /\ RestOK => LogsOK
  <2> SUFFICES ASSUME IInv, CInv, LogInv, RestOK PROVE LogsOK
    OBVIOUS
  <2>t. TablesOK /\ Tables /\ dPixmaps \subseteq Pixmaps BY DEF IInv, CInv, Agreed, PixmapsAgree
  <2>1. TypeOK BY <2>t DEF TypeOK, TablesOK, Tables, LogInv, LogTypes, RestOK, Shows
  <2>2. KeptLogged
    <3> SUFFICES ASSUME NEW p \in Tracked(kept)
                 PROVE  /\ p \in Tracked(pixmaps) /\ kept[p].gc \in Tracked(gcs)
                        /\ kept[p].gc \in ToSet(pixmaps[p].log)
                        /\ LastIn(pixmaps[p].log, Gcs) = kept[p].gc
                        /\ LastSetting(gcs[kept[p].gc]) = [paint |-> kept[p].colour, clip |-> Nil]
      BY DEF KeptLogged
    <3> DEFINE g == kept[p].gc
    <3>0. p \in Pixmaps /\ kept[p] # Nil /\ g \in Gcs BY <2>t DEF Tracked, Tables, Kept
    <3>1. /\ pixmaps[p] # Nil /\ gcs[g] # Nil
          /\ LastDraw(pixmaps[p].log, g)
          /\ LastSetting(gcs[g]) = [paint |-> kept[p].colour, clip |-> Nil]
      BY <3>0 DEF CInv, KeptEverywhere, KeptOf, Plainly
    <3>2. pixmaps[p].log \in Seq(Gcs \cup Pixmaps) BY <2>t, <3>0, <3>1 DEF TablesOK, Pixmap
    <3>3. PICK i \in DOMAIN pixmaps[p].log :
            /\ pixmaps[p].log[i] = g
            /\ \A j \in (i + 1)..Len(pixmaps[p].log) : pixmaps[p].log[j] \notin Gcs
      BY <3>1 DEF LastDraw
    <3>4. LastIn(pixmaps[p].log, Gcs) = g BY <3>0, <3>2, <3>3, LastInIs
    <3>5. g \in ToSet(pixmaps[p].log) BY <3>3 DEF ToSet
    <3> QED BY <2>t, <3>0, <3>1, <3>4, <3>5 DEF Tracked, TablesOK, Tables
  <2> QED BY <2>1, <2>2 DEF LogsOK
<1>3. Spec => []RestOK BY <1>1, RestStep, Invariants, PTL DEF Spec
<1> QED BY <1>2, <1>3, Invariants, LogAlways, PTL
=============================================================================
