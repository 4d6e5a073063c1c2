------------------------------ MODULE IdRemap ------------------------------
(***************************************************************************)
(* Resource identifiers of one application across displays.  The           *)
(* application makes IDs in the range its first display gave it; another   *)
(* display gives the client's connection another range, and the client     *)
(* rewrites requests on their way out and events on their way back         *)
(* (client.go, applyIDRemap and applyEventReverseRemap).  Other IDs are    *)
(* invented below the application's: scratch pixmaps and fonts by the      *)
(* server's replay, colormaps by the client.                               *)
(*                                                                         *)
(* IDs are numbers.  A range has Span of them; `id & ~mask' is RangeOf.    *)
(***************************************************************************)
EXTENDS Integers, Sequences, FiniteSets

CONSTANTS
  Span,       \* size of a client's range: the mask is Span - 1
  OldBase,    \* where the application's range starts
  Bases,      \* where a display may put the range of a connection
  Root,       \* a window of the display itself
  MaxMade,    \* bound: resources the application makes
  MaxScratch, \* bound: scratch resources of a replay
  MaxCmaps,   \* bound: colormaps of a replay
  Masks       \* bound: value masks of requests

ASSUME SpanAssumption == Span \in Nat \ {0}
ASSUME BasesAssumption ==
  /\ OldBase \in Bases
  /\ \A b \in Bases : b \in Nat /\ b > 0 /\ b % Span = 0
ASSUME RootAssumption == Root \in 1..Span - 1
\* The application leaves the top of its range alone, and the ranges of what is
\* invented do not meet.
ASSUME RoomAssumption ==
  /\ MaxMade \in Nat /\ MaxScratch \in Nat /\ MaxCmaps \in Nat
  /\ MaxMade + MaxScratch <= (Span - 1) - (Span - 1) \div 4
  /\ MaxCmaps <= (Span - 1) \div 4

\* Value masks are 32 bits wide.
ASSUME MasksAssumption == \A mask \in Masks : mask \subseteq 0..31

VARIABLES
  base,    \* of the range the current display gave the connection
  remap,   \* the base IDs are mapped to, 0 when no idRemap is installed
  made,    \* how many resources the application has made
  held,    \* IDs this connection has in use on the display
  clash,   \* the display has refused an ID
  asked,   \* the last request, as the application made it
  arrived, \* the same, as the display was sent it
  event,   \* the last event, as the display sent it
  shown    \* the same, as the application was sent it

ids  == <<base, remap, made, held, clash>>
traffic == <<asked, arrived, event, shown>>
vars == <<ids, traffic>>

None == 0
Mask == Span - 1
RangeOf(id) == id - (id % Span)
Own(i) == OldBase + i
-----------------------------------------------------------------------------
(* Mapping one ID. *)

\* Mutant: an ID is mapped back whatever range it is of.
ReverseAny(id) == IF remap # 0 /\ id # None THEN OldBase + (id % Span) ELSE id

Moved(id, from, to) == IF id # None /\ RangeOf(id) = from THEN to + (id % Span) ELSE id

Forward(id, to) == IF to # 0 THEN Moved(id, OldBase, to) ELSE id
Reverse(id)     == IF remap # 0 THEN Moved(id, remap, OldBase) ELSE id
-----------------------------------------------------------------------------
(* Requests.  A body is its words after the first four bytes; one of them may *)
(* be a value mask, a set of attribute bits, with a value for each of them    *)
(* after it.  A request beyond 64K words has its length as an extra word.     *)

Kinds == {"CreateWindow", "ChangeWindowAttributes", "CreateGC", "ChangeGC",
          "Window", "CreatePixmap", "CreateCursor", "ShmPutImage",
          "ShmCreatePixmap", "Composite", "Trapezoids", "CompositeGlyphs",
          "FillRectangles", "Draw", "Coordinates"}

\* Which words applyIDRemap takes for IDs; one name for the requests it treats alike.
Words(kind) ==
  CASE kind \in {"Window", "ChangeWindowAttributes", "ChangeGC"} -> {1}
    [] kind \in {"CreateWindow", "CreateGC", "CreatePixmap", "Draw", "Coordinates"} -> {1, 2}
    [] kind = "CreateCursor"    -> {1, 2, 3}
    [] kind = "ShmPutImage"     -> {1, 2, 8}
    [] kind = "ShmCreatePixmap" -> {1, 2, 5}
    [] kind = "Composite"       -> {2, 3, 4}
    [] kind = "Trapezoids"      -> {2, 3}
    [] kind = "CompositeGlyphs" -> {2, 3, 5}
    [] kind = "FillRectangles"  -> {2}

MaskWord(kind) ==
  CASE kind = "CreateWindow" -> 7
    [] kind = "CreateGC"     -> 3
    [] kind \in {"ChangeWindowAttributes", "ChangeGC"} -> 2
    [] OTHER -> 0

\* Cursor of a window; tile, stipple, font and clip mask of a GC.
Bits(kind) ==
  CASE kind \in {"CreateWindow", "ChangeWindowAttributes"} -> {14}
    [] kind \in {"CreateGC", "ChangeGC"} -> {10, 11, 14, 19}
    [] OTHER -> {}

\* Mutant: the value looked for is counted with those before it.
PlaceAfter(mask, bit) == Cardinality({b \in mask : b <= bit})

\* How many values of a list come before that of a bit.
Place(mask, bit) == Cardinality({b \in mask : b < bit})

\* The words of a body in which applyIDRemap looks for an ID.
IdWords(kind, body, big) ==
  LET s    == IF big THEN 1 ELSE 0
      m    == MaskWord(kind) + s
      list == IF MaskWord(kind) = 0 THEN {}
              ELSE {m + 1 + Place(body[m], b) : b \in Bits(kind) \cap body[m]}
  IN  ({w + s : w \in Words(kind)} \cup list) \cap DOMAIN body

ApplyIDRemap(kind, body, big) ==
  IF remap = 0 THEN body
  ELSE [w \in DOMAIN body |->
          IF w \in IdWords(kind, body, big) THEN Forward(body[w], remap) ELSE body[w]]
-----------------------------------------------------------------------------
(* What the application means by a request (external): ids for the words that *)
(* name resources, attrs for the value list, and something for all the rest,  *)
(* which may look like an ID.                                                 *)

\* Words and attributes that name resources in the X protocol.  "Coordinates" are
\* SetClipRectangles, GetImage and the like, whose second word is a position.
Named(kind) == IF kind = "Coordinates" THEN {1} ELSE Words(kind)
IdBits(kind) ==
  CASE kind \in {"CreateWindow", "ChangeWindowAttributes"} -> {0, 2, 13, 14}
    [] kind \in {"CreateGC", "ChangeGC"} -> {10, 11, 14, 19}
    [] OTHER -> {}

LengthOf(kind) == CHOOSE n \in Words(kind) \cup {MaskWord(kind)} :
                    \A w \in Words(kind) \cup {MaskWord(kind)} : w <= n

Listed(mask) == [n \in 1..Cardinality(mask) |->
                   CHOOSE b \in mask : Cardinality({c \in mask : c < b}) = n - 1]

Body(r) ==
  LET head == [w \in 1..LengthOf(r.kind) |->
                 IF w \in Named(r.kind) THEN r.ids[w]
                 ELSE IF w = MaskWord(r.kind) THEN r.mask ELSE r.other]
      values == [n \in 1..Cardinality(r.mask) |-> r.attrs[Listed(r.mask)[n]]]
  IN  (IF r.big THEN <<r.other>> ELSE <<>>) \o head \o values

\* The same request in the numbering of the display.
Renumbered(r, to) ==
  [r EXCEPT !.ids = [w \in DOMAIN @ |-> Forward(@[w], to)],
            !.attrs = [b \in DOMAIN @ |->
                         IF b \in IdBits(r.kind) THEN Forward(@[b], to) ELSE @[b]]]

Ids == {None, Root, Own(made)}

MasksOf(kind) == IF MaskWord(kind) = 0 THEN {{}} ELSE Masks
-----------------------------------------------------------------------------
(* Events, by the words applyEventReverseRemap takes for IDs. *)

EventWords(type) ==
  CASE type \in {"FocusIn", "Expose", "PropertyNotify"} -> {1}
    [] type \in {"KeyPress", "EnterNotify"} -> {1, 3}
    [] type \in {"MapNotify", "CreateNotify"} -> {1, 2}
    [] type \in {"ConfigureNotify", "ReparentNotify"} -> {1, 2, 3}
    [] type = "XIDeviceEvent" -> {6, 7}
    [] type = "Extension" -> {}

EventTypes == {"FocusIn", "KeyPress", "MapNotify", "ConfigureNotify", "XIDeviceEvent", "Extension"}

ApplyEventReverseRemap(type, body) ==
  [w \in DOMAIN body |-> IF w \in EventWords(type) THEN Reverse(body[w]) ELSE body[w]]
-----------------------------------------------------------------------------
\* The application's own connection to its first display: there is no idRemap.
Init ==
  /\ base = OldBase /\ remap = 0
  /\ made = 0 /\ held = {} /\ clash = FALSE
  /\ asked = <<>> /\ arrived = <<>> /\ event = <<>> /\ shown = <<>>

\* Identifiers are made upwards from the base.
Create ==
  /\ made < MaxMade
  /\ made' = made + 1
  /\ LET id == Forward(Own(made + 1), remap)
     IN  /\ held' = held \cup {id}
         /\ clash' = (clash \/ id \in held \/ RangeOf(id) # base)
  /\ UNCHANGED <<base, remap, traffic>>

\* handleX11Setup installs an idRemap, or removes the one there was.
Installed(b) == IF b # OldBase THEN b ELSE 0

\* Mutant: scratch IDs start at the top of the range.
TopScratch(n) == {OldBase + Mask - k : k \in 0..n - 1}

\* Counting down from below the top quarter of the range, in the application's
\* numbering; and from the top of the connection's own range.
Scratch(n)   == {OldBase + (Mask - Mask \div 4) - k : k \in 0..n - 1}
Colormaps(b, n) == {b + (Mask - k) : k \in 0..n - 1}

\* A client connects with another display: what was made is made again, along with
\* s scratch resources and m colormaps.
Reconnect(b, s, m) ==
  LET inv  == {Forward(id, Installed(b)) : id \in {Own(i) : i \in 1..made} \cup Scratch(s)}
      all  == inv \cup Colormaps(b, m)
  IN  /\ base' = b
      /\ remap' = Installed(b)
      /\ held' = all
      /\ clash' = (clash \/ Cardinality(all) # made + s + m
                         \/ \E id \in all : RangeOf(id) # b)
      /\ UNCHANGED <<made, traffic>>

\* A request goes out.
Send(r) ==
  /\ asked' = <<r>>
  /\ arrived' = ApplyIDRemap(r.kind, Body(r), r.big)
  /\ event' = <<>> /\ shown' = <<>>
  /\ UNCHANGED ids

Requests(kind, mask) ==
  [kind : {kind}, big : BOOLEAN, mask : {mask}, ids : [Named(kind) -> Ids],
   attrs : [mask -> Ids], other : {None, Own(made)}]

\* An event comes in that names what is on the display.
Receive(type, body) ==
  /\ event' = <<[type |-> type, body |-> body]>>
  /\ shown' = ApplyEventReverseRemap(type, body)
  /\ asked' = <<>> /\ arrived' = <<>>
  /\ UNCHANGED ids

\* One message at a time: they change no identifier.
Quiet == asked = <<>> /\ event = <<>>

Passed ==
  /\ ~Quiet
  /\ asked' = <<>> /\ arrived' = <<>> /\ event' = <<>> /\ shown' = <<>>
  /\ UNCHANGED ids

Step ==
  \/ Create
  \/ \E b \in Bases, s \in 0..MaxScratch, m \in 0..MaxCmaps : Reconnect(b, s, m)
  \/ \E kind \in Kinds : \E mask \in MasksOf(kind) : \E r \in Requests(kind, mask) : Send(r)
  \/ \E type \in EventTypes : \E named \in [EventWords(type) -> held \cup {None, Root}] :
       Receive(type, [w \in 1..7 |-> IF w \in EventWords(type) THEN named[w] ELSE base])

Next == (Quiet /\ Step) \/ Passed

Spec == Init /\ [][Next]_vars
-----------------------------------------------------------------------------
\* Ranges, and that what is installed is what the display gave.
TypeOK ==
  /\ base \in Bases
  /\ remap = (IF base = OldBase THEN 0 ELSE base)
  /\ made \in 0..MaxMade
  /\ held \subseteq Nat
  /\ clash \in BOOLEAN

\* However often the application is moved from display to display, and whatever the
\* replay and the client invent there, no display is asked for an ID twice or for one
\* of another client's range, later requests of the application included
\* (synthesis.go:174-178).
NoClash == ~clash

\* No clash, and the client has an idRemap exactly when its display puts the
\* application elsewhere (client.go:573-581).
IdsOK == TypeOK /\ NoClash

Made == {Own(i) : i \in 1..made}

\* applyIDRemap takes a word for an ID that is none, or an ID for none.
Misread(r) ==
  \/ r.kind = "Coordinates" /\ RangeOf(r.other) = OldBase
  \/ \E b \in r.mask \cap (IdBits(r.kind) \ Bits(r.kind)) :
       r.attrs[b] # None /\ RangeOf(r.attrs[b]) = OldBase

\* A display is sent what the application meant: every ID in the display's numbering,
\* wherever the value mask and the length put it, and nothing else changed.  The
\* exceptions are a position of the default case that looks like an ID, and the
\* pixmaps and colormap of a window's attributes, which are not looked for.
RequestsExact ==
  asked # <<>> =>
    LET r == asked[1]
    IN  (remap # 0 /\ Misread(r)) \/ arrived = Body(Renumbered(r, remap))

\* An event names a resource of the application as the application does, the root
\* as it is, and nothing that was invented as something of the application's.
EventsExact ==
  event # <<>> =>
    LET e == event[1] IN
    \A w \in DOMAIN e.body :
      IF w \in EventWords(e.type) /\ \E id \in Made : e.body[w] = Forward(id, remap)
      THEN shown[w] \in Made /\ e.body[w] = Forward(shown[w], remap)
      ELSE IF w \in EventWords(e.type) /\ e.body[w] \notin {None, Root}
           THEN shown[w] \notin Made
           ELSE shown[w] = e.body[w]
=============================================================================
