# proxxxy: a TLA+ model

proxxxy is a resumable X11 proxy:

    X11 app -> fake display -> proxxxy-server -> TCP -> proxxxy-client -> real display

When a proxxxy-client goes away the applications keep their sockets to the fake
display; when another one connects, the server replays ("synthesises") the
state it has tracked onto the new client's display and lets traffic flow again.
This directory holds TLA+ specifications of that program, configurations that
check them with TLC, and theorems about them proved with TLAPS.

## Inventory

| Component | State | Operations | Talks to |
|---|---|---|---|
| Client connections (`server.go` `handleClient`, `readFromClient`, `relayPendingSetups`; `synthesis.go` `runSynthesis`) | `clientConn`, `synthActive`; per goroutine: the connection it serves, the previous one, the AppConns it snapshot | accept, HELLO, register and close the previous client, SESSION_RESUME, synthesise each connection, SESSION_LIVE, reopen the relay, inject events, re-send pending setups, read, deferred clearing and close | clients by TCP; applications' sockets; the tracker |
| Application connections (`server.go` `acceptX11`, `relayAppToClient`, `sendMsgsToClient`; `session.go`) | `appConns`, `appState` | accept, read the setup request, track, forward or discard, fake a reply, untrack, close | the current client, whichever it is |
| Application state tracker (`x11/state.go`) | windows, GCs, pixmaps with draw logs, fonts, cursors, pictures, glyph sets, SHM segments, counters, `seqNum`, `ridBase`, learned extension opcodes | `ProcessRequest`, snapshots, `LearnQueryExtensionReply` | written by the relay, read by synthesis |
| State synthesis (`synthesis.go`) | scratch IDs | replay by kind, sanitising references to freed resources | sends requests to the client |
| Client process (`client/client.go`) | `xConns`, `idRemaps`, `synthDone`, `synthFinalSeqNums`, `connSeqNums`, `connSuppressed` | HELLO, resume loop, live loop, `handleX11Setup`, `handleX11Data`, `synthRelay`, `relayXToServer`, ID remapping | server by TCP; the real display |
| Wire protocol (`wire/wire.go`) | none | framed, typed messages | between server and client |
| Delta compression (`compress/`) | dictionary, templates, region queue; decoder's tables | encode, decode, evict, reset on disconnect | bypassed in `drainRequests` today |
| Expectations of the display (`state.go` `PendingConfigures`, `pendingQueryExt`, `extByOpcode`) | requests to be matched by an event or a reply | count, reset, drain; note, learn, recognise | the relay, `runSynthesis`, `readFromClient` |
| Statistics, programs, test tools | counters | read-only | - |

What is hard here is the server's concurrency: one goroutine per client
connection and one per application, sharing four fields under a mutex that none
of them holds across a write. Clients come, die, and overlap; what a goroutine
looked up may be gone when it uses it; sequence numbers are counted in three
places (application, server, display) that must agree after a resumption.

What must hold of each part:

* *Client connections*: one client is served; the relay is shut exactly while a
  client is resumed, and never for good; what was tracked gets to the new
  display; a client that registers goes live or is dropped.
* *Application connections*: a request reaches a live client with an X
  connection for it, or is discarded; a query is answered once; numbers never
  go backwards; an application gets its setup reply.
* *Tracker and synthesis*: a replayed request names only resources that exist.
* *Client process*: replies carry the application's numbers; suppressed
  extensions stay suppressed; identifiers map one to one.
* *Compression*: decoding gives what was encoded, across disconnects.
* *Expectations*: no window waits for an event nobody will send, no application
  for a reply nobody will send; opcodes are learned under their own names.

`PROJECT.json` lists the places in the code where these can go wrong
("hazards") with the properties that watch them.

## Modules

| Module | What it models |
|---|---|
| `Wire` | TCP links and messages. A client process makes one connection in its life (`cmd/client` exits when `Run` returns), so a member of `Clients` is a process and its connection. |
| `App` | The X11 applications as the server's sockets see them (external): setup request, numbered requests, a query blocks its application until a reply with its number arrives. |
| `Server` | `handleClient` (program counter `hpc`) and `relayAppToClient` (`apc`), one action per region between two points where another goroutine can run. |
| `Client` | `Run`, `handleX11Setup`, `handleX11Data` and the X connections they open; the display answers queries at once. |
| `SynthRelay` | One X connection of the client in detail: the main goroutine that writes and counts requests, and `synthRelay` (phases, barrier, offset, buffered events) or `relayXToServer` (hiding GPU extensions). |
| `AppConn` | The tracker's tables for one application connection and the requests that change them, or that it does not see; what it keeps of a resource is what it was made from (the pixmaps a window or a GC names among it), and its depth. |
| `Synthesis` | `AppConn` and the replay of its tables on a display that has none of the resources and checks every reference (external). |
| `Contents` | What the tracker keeps as logs (draws on pixmaps, changes of GCs, a property), the drawables that pixmaps and GCs were made on, and pixmaps in shared memory, and their replay while the application goes on. |
| `Outage` | What the tracker expects the display to say, while clients come and go: a ConfigureNotify per ConfigureWindow, an opcode per QueryExtension; with the relay's decision to fake a reply, and the toolkit's own count (external). |
| `IdRemap` | Identifiers across displays: the rewriting of requests and events, the IDs the replay and the client invent. |
| `Codec` | The encoder in the server, messages under way, the decoder in the client. |
| `Channel` | What the compressed link promises, abstractly. |
| `Proxxxy` | The composition, and the properties of the whole. |
| `Handover` | What the server promises about client connections, abstractly. |
| `MCProxxxy`, `MCOutage`, `MCIdRemap`, `MCCodec`, `MCContents` | Model values for TLC. |
| `ProxxxyProofs`, `RelayProofs` | Theorems about `Proxxxy`. |
| `SynthesisProofs`, `OutageProofs`, `ContentsProofs` | Theorems about `Synthesis`, `Outage` and `Contents`. |
| `SynthRelayProofs`, `CodecProofs`, `IdRemapProofs` | Theorems about `SynthRelay`, `Codec` and `IdRemap`. |

Correspondence: `clientConn`, `synthActive`, `appConns`, `appState` are the
fields of `Server` (the maps by their key sets); `ridKnown` is `ridBase # 0` and
`seqNum` is `AppConn.seqNum`; `prev`, `states`, `todo`, `hold`, `found`, `dst`
are locals of the goroutines. The labels of `hpc` follow `handleClient`: `hello
-> closePrev -> resume -> snapshot -> synth -> clear -> inject/stamped -> resend
-> read/deliver -> unregister -> close -> done`. Those of `apc` follow
`relayAppToClient`: `accepted -> tracked -> drain -> lookup -> write/dropped ...
-> untrack -> close -> gone`. `map` in `PROJECT.json` gives each definition its
lines. `Proxxxy` adds three histories, which no step reads: `owed`, what was tracked
when a client was registered; `overlapped`, the clients that were being resumed
while another was; `late`, for the current client, the applications whose setup reply
a superseded reader recorded after the synthesis had passed them. A property that
the code breaks in these cases excepts them by name (`InTime`).

`SynthRelay` stands alone: `Client` has an X connection's effect on numbers in one
step, `SynthRelay` the goroutines behind that step. `run` is where `Run` stands
(`close`: the barrier is written, `done` still open), `uncounted` the request
that `handleX11Data` has written and not yet counted, `relay` the phase of
`synthRelay`; `taken`, `sent` and `asked` are histories. The socket, the reader
goroutine and the channel `msgs` are one queue.

`Synthesis` stands alone too: `Server` has the replay's place in the protocol,
`Synthesis` what it sends. An application makes requests (`phase = "app"`), then
the kinds of resources are replayed in the order of `synthesiseAppConn`
(`windows -> pixmaps -> gcs -> cursors -> map -> done`; fonts and core cursors
with the end of `pixmaps`, pictures with the end of `gcs`). Where the order
within a kind matters each resource is a step, in any order that Go's map
iteration can produce; elsewhere the kind is one step. `windows`, `pixmaps`, ...
are the tables of `AppConn`; `d`-prefixed variables are the display's. In a window's
record `uses` are the pixmaps of CWBackPixmap and CWBorderPixmap, which stay in the
request that is replayed; `real` (the depth the display gives it) and `view` (whether
the application has it mapped, unmapped, or hidden by UnmapSubwindows) are
histories: the tracker knows neither.

`Contents` has the same replay from another side: `Synthesis` asks whether what a
request names exists, `Contents` whether what comes back is what was there.
Requests go on in every `phase` before `done`; each phase takes the snapshot of
its kind and sends it (`segments -> windows -> property -> pixmaps -> shmPixmaps ->
gcs -> draws`), a property one request at a time (`unsent`). A pixmap's `log` is its
`DrawCmds`, of which only the third word matters: the GC, or the destination of a
copy. `gcs[g].made` and `gcs[g].changes` are its create request and `ChangeCmds`, each
a `Setting`: what it paints with and its clip mask. `oldPixmaps` and `oldGcs` are the
snapshots held by `synthesiseAppConn`. Histories: `stable`, what no request touched
since the replay began; `value`, `unlogged` and `had`, the property on the display the
application believes in, whether the log says otherwise, and its values since the
snapshot of its window; `painting[g]`, what `g` paints with on that display, set by every
request that changes a GC, whether the tracker sees it or not; `kept[p]`, the GC
and the colour that painted what `p` shows there. `ContentsRestored` and
`GcsReplayed` compare the new display with these and not with itself.

`Outage` follows one application connection. `handler` is where `handleClient`
stands (`resume` before the reset, `synth`, `open` after SESSION_LIVE, `inject`
after the drain, then `read`, `learn`, `write` for each message); `relay` is
where `drainRequests` stands with the request it holds. `total`, `old`,
`stranded` and `lost` are histories: `old` is the toolkit's count at the reset,
`lost` says why a query will get no answer.

`IdRemap` has a request as a sequence of 4-byte words, a value mask as a set of
bits, and `Kinds` names each layout that `applyIDRemap` tells apart. What the
application means (`Body`, `Renumbered`) is written from the X protocol, so that
`RequestsExact` compares two independent accounts. `held` is what the display
has of this connection; messages (`asked`, `event`) come one at a time.

`Codec` has a command as a sequence of bytes; `lru` is the dictionary in order
of use, `templates` the registry, `chan` what is under way; `owed` and `halfway`
are deferred calls of `OnClientDisconnect` that have not begun, or have done the
dictionary only. `Channel` is implemented by `Codec` with `queue` the commands
encoded and not yet decoded.

Abstractions, all deliberate:

* `Outage`: one handler at a time (overlaps are in `Server`); its windows are
  mapped top-level windows; displays agree on opcodes; every query made is in the
  tables of `OpcodeNeedsReply` or `ExtNeedsReply`; one query is waited for at a
  time; numbers that reach the application are exact (`SynthRelay`). A faked
  reply is written in the step that decides on it.
* `IdRemap`: the root window, atoms and visuals are left as they are; the
  display checks only that a new ID is in the connection's range and free;
  resources are not freed. `newMask` is not used by the code. The layouts that
  `applyIDRemap` knows by the opcodes of RENDER, MIT-SHM and XInput are not among
  `Kinds`.
* `Codec`: `Ready` is what a caller of `Encode` would have to see to, as
  production code bypasses the encoder (session.go:96-98): the client connected
  is the one the tables are about. `Encode` and the write of its messages are one
  step. Fingerprints do not collide; lengths fit in 16 bits; the region queue is
  emptied by the call that fills it.

* Requests in `AppConn` are legal: a request that names a resource that does
  not exist changes nothing on a display, while the tracker may record it.
  Input masks, glyph sets, SYNC counters, InputOnly windows, `ReparentWindow` (which
  the tracker ignores), a picture's ChangeCmds and value list (its clip mask and
  alpha map, which are replayed as they are), and the mask of a cursor are left out.
* Requests that change what is tracked without being looked at
  (`ProcessRequest`'s default case) are actions that leave the tables alone:
  `UnmapSubwindows` in `AppConn`, CopyGC, SetDashes and SetClipRectangles as
  `AlterGC` in `Contents`. The last three change neither a GC's existence nor its
  depth, so `AppConn` needs no action for them.
* The application of `Synthesis` is quiet during the replay, so that the
  snapshots of the kinds agree. That of `Contents` is not.
* `Contents`: a pixmap is one area, shown in one paint (a foreground colour or a
  tile), the last one. The code takes a stipple (bit 11) out of a request as it does a
  tile (bit 10), so one of the two is modelled; a clip mask (bit 19) it leaves in,
  and that is `clip`. A tile is compared by its identity: what is drawn on it after
  it was used is not followed, so `ContentsRestored` is about plain colours and
  GCs without a clip mask. PutImage is a draw like the others: its data is in the log.
  An identifier is used with one depth only, and the windows name no pixmaps:
  `Synthesis` has both. Windows are children of the root; the application keeps
  one, `Top`, so a GC whose drawable is gone always gets one instead. There is one
  property, `Top`'s. A pixmap in shared memory is like another but for its segment.
  A write to a property's log while the replay reads it is seen or not; that it may
  be seen in part is left out.

* Requests are numbers; each is a state change (it creates a resource) or a
  query (it needs a reply). What a synthesis recreates is the set of
  state-changing requests processed when the snapshot was taken. The snapshots
  of the kinds of resources of one connection are taken as one.
* The capture of `clientConn` and the write in `WriteToClient` and
  `sendToClient` are one step; in `sendMsgsToClient`, where the value captured
  decides what happens to the request, they are two.
* The numbers of SESSION_LIVE are read as one.
* The ShmCompletion, ConfigureNotify and Expose loops are one injected event per
  connection, read and written in two steps.
* The display answers in the order it is asked; replies drained before
  SESSION_LIVE are dropped. A dial or a handshake with the display succeeds.
* TCP delivers in order and has no back-pressure; a dead peer makes reads and
  writes fail at any later moment. A link that hangs without failing is not
  modelled.
* A closed application is not reported to the client, nor a closed X connection
  to the application: the code does neither.

`Takeover` bounds when a client may connect while the handler of another still
runs: `never`, while that handler is `reading` from its client, or `anytime`. The
code accepts at any time, and the theorems hold for every value. Runs `takeover`
and `handover` have `anytime`; the narrower values keep the state space of the
others small: two requests, an exit and a crash in `reconnect`, liveness in
`liveness`.

## Runs

Two clients suffice for a takeover or a reconnection and one application for
each race between a relay and a handler; three clients are used where handlers
overlap. `MaxReq` bounds an application's requests. `CHECK_DEADLOCK FALSE`
everywhere but in `remap`: when every client process has ended, or the server has
died, there is nothing left to do; in `outage` and `codec` when the bounds on
clients and requests are reached, in `replay` and `contents` when the replay is over.

| Run | Instance | Shows |
|---|---|---|
| `takeover` | 3 clients, no application, `anytime`, all mortal | `SupersededIsClosed`, `GateReopens`; `Proxxxy` implements `Handover` |
| `handover` | 2 clients, 1 application, 2 requests of which a query is the second, `anytime`, both mortal | `NoRequestBeforeLive`, `RidRecorded`, `AnsweredOnce`, `RequestsHaveConnections`, `FreshRepliesExact` |
| `reconnect` | 2 clients, 1 application, 2 requests, `never`, one mortal, the application may exit | `TypeOK`, `NothingForgotten` |
| `liveness` | 2 clients, 1 application, no request, `reading`, one mortal, fair | `SetupAnswered`, `ClientGoesLive` |
| `sequence` | 1 X connection, 1 synthesised request and its colormap, 3 live ones of 5 kinds, 1 event, fair | `NumbersOK`, `NeverBackwards`, `OnlyGpuRewritten`, `LiveAnswered` of `SynthRelay` |
| `replay` | 2 windows, 1 resource of each other kind, depths 1 and 24, 6 requests | `TrackerOK`, `WindowsRestored`, `PixmapsRestored`, `GcsRestored`, `CursorsRestored`, `GcDepthKept` of `Synthesis` |
| `outage` | 1 window, 3 extensions of which the display has 2, numbers modulo 2, 4 requests, 2 clients, fair | `TypeOK`, `ConfiguresCovered`, `ServerKnows`, `ExtQueriesRecognised`, `QueriesEnd` of `Outage` |
| `contents` | 2 pixmaps, 2 GCs, 1 segment, 1 window besides `Top`, 1 colour, 2 values, 5 requests: at most 4 before the replay, 2 during it | `LogsOK`, `PixmapsReplayed`, `GcsReplayed`, `DrawsAccepted`, `ContentsRestored`, `PropertyReplayed` of `Contents` |
| `remap` | ranges of 8 IDs at 3 bases, 4 resources, 2 scratch resources, 1 colormap | `IdsOK`, `RequestsExact`, `EventsExact` of `IdRemap` |
| `codec` | 6 commands, a dictionary of 7 bytes, 2 clients, 4 commands each | `TypeOK`, `NothingUnknown`, `ClientHoldsNoMore`; `Codec` implements `Channel` |

Clients are symmetric in `takeover` and `handover`, where only safety is checked and
a client's name means nothing. In `handover` the constraint `QueryLast` of `MCProxxxy`
keeps, of histories with two requests, those where a state change is followed by a
query: a query alone, or two requests before a client goes live, are in the run,
a request after an answered query and two state changes in a row are not. `reconnect`
has these, and the theorems all.

In `replay` six requests are enough to nest two windows, make a GC or a picture on
one, a cursor of that, and free what they depend on; or to make a pixmap, use it as a
background, a tile or a clip mask, and free it. Depth 1 is that of bitmaps, as
stipples, clip masks and the sources of core cursors have to be; with 24 there are
two to tell a GC's own from another.

In `contents` five requests attach a segment, make a pixmap in it and a GC, draw
and detach; or make a pixmap on the window and a GC on that, and destroy the first two;
or make a pixmap and two GCs and draw with both; or write a property five times.
Four of them before the replay and two during it are enough to have a log, or a GC
and its clip mask, and to change or free it under the replay's eyes. `Bound` of
`MCContents` leaves out histories of both resources and the property, which share
nothing, and requests that name two pixmaps for one GC. A request needs two of a
kind at most: a copy's pixmaps, a GC and the one it is mistaken for; one colour, as a
pixmap is another paint. Identifiers of a kind and values are symmetric, and only
invariants are checked.

In `sequence` numbers are modulo 16 and start at 15, so that the application's
number wraps; the display's does not. When it does, `Late` drops errors that are
not late (client.go:1158) and `LiveAnswered` fails. Among the kinds of requests
are those that pass for setup requests and are not counted (`segment`).

In `outage` numbers wrap at two, so that of three QueryExtension requests two
share a number; four requests make a query before, during and after a session
with a ConfigureWindow between. In `remap` the ranges lie side by side on both
sides of the application's own, so that one ID off the end of a range is in
another's; four resources and two scratch resources fill all but its top
quarter. The masks of `MCIdRemap` put values before, between and after those that
name resources. In `codec` commands are 3, 4 or 8 bytes: the dictionary of 7
holds one of each of the first two sizes, evicts for a second of 4, and passes
the last by; commands of one length differ in one byte, in two, or in none.

The remaining runs each refute one thing the repository says of itself; the
findings in `PROJECT.json` quote it.

| Run | Refutes | What happens |
|---|---|---|
| `late_reply` | `NoPanic` | a reply between the deletions from `appState` and `appConns`: nil dereference |
| `lost_barrier` | `BarrierTaken` | phase 1 drains the barrier's reply, phase 2 takes a live query's for it |

Other departures seen in the models have no run:

* A request processed before the final number is read and relayed after
  SESSION_LIVE is counted twice, in the offset and by the display, contrary to
  synthesis.go:900-902: every later reply's number is one too high.
  `FreshRepliesExact` is about connections without an offset.
* A property that is replaced keeps what was appended after the first entry of
  its log, contrary to state.go:389, and DeleteProperty is not tracked;
  `PropertyReplayed` excepts both. `Windows` does not copy the log, so a
  replacement during the replay is a data race (state.go:395, 646): what is sent
  may begin with the new value and go on with what was appended to the old.
* A window created with a background or border pixmap is refused, with its
  descendants: its request names the pixmap still (sanitizeCreateWindow strips the
  colormap and the cursor, synthesis.go:520-522), and no pixmap has been recreated. What was
  made on these windows is lost in turn. `WindowsRestored` and `PixmapsRestored` are
  about the others (`Restorable`).
* A GC created or last changed with a clip mask that is freed is refused, or keeps
  its older settings: sanitizeGCPixmapAttrs takes tiles and stipples out of a
  request (synthesis.go:650), clip masks it does not. The draws that use such a GC
  fail. `GcsRestored`, `GcsReplayed` and `DrawsAccepted` except it.
* UnmapSubwindows, CopyGC, SetDashes and SetClipRectangles are not tracked
  (state.go:169-213): a window comes back mapped that was not, a GC as it was
  before. `WindowsRestored` and `GcsReplayed` except these.
* A pixmap in shared memory is lost once its segment is detached, which
  applications do early; every draw logged on it then fails, as does a GC made
  with it. One that comes back has its logged draws replayed over the memory it
  shares with the application.
* A GC whose drawable is gone, or that was made on the root, loses the tile it was
  created with though the tile is there (synthesis.go:619).
* Copies are logged on their source (state.go:618) and dropped for want of a GC
  with the destination's ID (synthesis.go:352): what CopyArea, RENDER and
  ShmPutImage painted is not restored. `ContentsRestored` is about the rest.
* Logs are never shortened: they grow with every request until the resource is
  freed.

* The handler of a superseded client clears `synthActive` while its successor is
  being resumed: requests reach the successor before SESSION_LIVE, contrary to
  server.go:334-337. `NoRequestBeforeLive` and `Handover` except clients whose
  resumptions overlapped (`overlapped`).
* A request tracked after its connection's snapshot and discarded because
  synthesis is active reaches no display.
* Setup bytes are sent twice to one X connection; injected events overtake
  earlier replies; queries are lost with their client.
* The GPU extensions' own replies are not always rewritten: `synthRelay` omits
  it and `relayXToServer` may come too early.
* An old reader may deliver a setup reply after the new synthesis skipped the
  connection, whose next request then is the first the new client sees of it.
  `RequestsHaveConnections` and `FreshRepliesExact` except these applications (`late`).
* PolySegment (0x42) and GetScreenSaver (0x6C) requests are taken for setup
  requests and not counted (client.go:809), so that a number registered for
  suppression later hides another query's reply. `OnlyGpuRewritten` excepts replies to
  what follows such a request (`Misnumbered`).
* A GC of a destroyed window may come back on a window of depth 0
  (CopyFromParent), although a scratch pixmap of its depth was made for it
  (synthesis.go:579); `GcDepthKept` excepts replays with such a window.
* ConfigureWindow requests made while no client was connected are forgotten by
  ResetPendingConfigures, so from the second on the toolkit's count stays above
  zero, contrary to synthesis.go:420-428; `ConfiguresCovered` compares with the
  count at the reset.
* A QueryExtension request that was faked or lost stays in `pendingQueryExt`;
  when numbers wrap the reply to another request is taken for its own. The
  properties of learning except such histories (`stranded`).
* A synthesis that ends between the drop of a query and the check for a fake
  leaves it unanswered (`lost = "race"`), as does a query that dies with its
  client (`"wire"`).
* `applyIDRemap` takes positions for IDs in its default case (SetClipRectangles,
  GetImage, ...), and does not look at a window's background and border pixmap
  and colormap, the sibling of ConfigureWindow, GrabPointer's window and cursor,
  the event in SendEvent, ShmGetImage's segment, or glyph sets named inside
  CompositeGlyphs; nor are replies translated back, nor extension events but
  those of XInput devices. `RequestsExact` excepts the first two; the others are not
  among `Kinds`. A client given the application's old range is taken for it.
* A call of `OnClientDisconnect` that comes late marks absent what the new client
  holds: it is sent again and its first copy is never expired (`forgotten`).
  A run of more than 65535 changed bytes does not fit the length of a template's
  parameter (compress.go:155).
* A pixmap made on a window since destroyed, or on a pixmap that is replayed after
  it, is not recreated, nor a picture whose pixmap was freed; `PixmapsRestored`,
  `PixmapsReplayed` and `CursorsRestored` except them.

## Fairness

`FairSpec` assumes weak fairness of each goroutine (`Handler(c)`, `Relay(a)`),
of each client process, and of a client being started. A goroutine's steps are
enabled until it takes one, the Go scheduler runs every runnable goroutine, and
the mutexes are held only for a few assignments. Nothing makes an application
send, or a client crash. In `SynthRelay` it is weak fairness of the relay
goroutine, of the main goroutine's counting and closing, and of the display. In
`Outage` it is weak fairness of the relay's and the handler's steps and, in `Read`,
of a display that answers a live client; no client need come, and a dead one's
handler leaves when it has read what was sent.

## Proofs

The theorems hold for every set of clients and applications, every `MaxReq`, and
whenever clients connect. Assumptions: `NoClientAssumption` (nil is not a
connection), `MaxReqAssumption`, `TakeoverAssumption` (it is one of the three
values), `CompatibleAssumption`.

* `TypeCorrect`: `TypeOK`, action by action.
* `HandlerSteps` and `OtherSteps` sort the steps: six handler actions matter to
  the handover, every other step only moves a handler along (`QuietStep`) or
  leaves the handover alone. The next three theorems use only these.
* `SingleClient`: `SupersededIsClosed` is inductive given `TypeOK`. The third
  disjunct, a handler about to close the connection, carries it from
  registration to `ClosePrev`.
* `RelayUnblocked`: `GateReopens` is inductive given `TypeOK`.
* `HandoverImplemented`: every step maps to a step of `Handover` or a stutter. The
  invariant is `HandoverInv`: of the handlers being resumed one that overlapped no other
  is alone, and is the current client's. Without it, the handler that clears
  `synthActive` need not be the current client's, and with overlaps it is not: hence
  the exception in `Handover`. `OverlapNoted` gives that overlaps are noticed as
  they begin.
* `RidAlwaysRecorded`: `RidRecorded` is not inductive; `RidInv` adds that an
  application makes no request before its setup reply, and that none is
  delivered to it without its `ridBase` having been recorded.
* `NothingBeforeLive`: no client but one that was resumed beside another
  is sent a live request before SESSION_LIVE. The server tests a flag and the
  property is about a queue: `GateInv` connects them. SESSION_LIVE has been
  written (`LiveSent`) to the current client whenever `synthActive` is down, and
  to the client a relay has looked up; every queue is `Gated`. The lemmas
  `GatedTail`, `GatedAppend` and `LiveAppended` say what reading and writing do
  to a queue. `HandoverInv` gives that the handler clearing the flag is the
  current client's.

* `RelayProofs`: what becomes of a request on its way to a client and back.
  `NoSecondAnswer` rests on `OnceInv`: a query is in one of `Places` at most (its
  socket, its relay, the way to a client, the way back, a handler), and while it is
  in any of them it is awaited. `AllComesBack` rests on `KeptInv`: what is tracked
  only grows, and a replay's setup is written to the current client only, after
  `owed` was fixed. `ConnectionsFirst` rests on `OpenInv`: an application with
  a request past its setup has, at the client its relay will write to, an X
  connection or a message under way, ahead of any request, that opens one. That
  connects a handler's loop over the applications (`TrackedOK`, `PreparedOK`), what is
  in the queue and in which order (`PrecededOK`), and who is being resumed
  (`HandoverInv`). Each part is about clients and applications `InTime`, and these only
  become fewer (`TimelyStep`): the handler of a replaced client may record a `ridBase`
  between the new client's replay, which skipped its application, and the loop that
  sends setups again, and `LateNoted` gives that this is the only way.
  `FreshExact` (same exceptions) rests on `FreshInv`. `StreamOK`: what an X connection that is
  no replay's has counted and what is under way to it are the application's requests from the
  first on, each once and in order, and up to the last one the relay is done with if
  that connection is the one the relay writes to. What must be shown is that no
  request is dropped on such a connection: requests are dropped while the next client
  is resumed, and a client that was current then either has a replayed
  connection, with an offset, or learned of the application when it had made no
  request (`RecreatedOK`, `SilentOK`; `GateReopens` ties `synthActive` to the phase). `LastOK`: an
  outstanding query is the application's last request, so the number of the reply is
  the awaited one.

* `TrackerCorrect`, `WindowsComeBack`, `PixmapsComeBack`, `GcsComeBack`,
  `CursorsComeBack` (`SynthesisProofs`): the properties of run `replay`, for any
  resources, depths and number of requests. `ReplayInv` says, phase by phase,
  that what is no longer in `todo` is on the display, if it can be: windows that
  name a pixmap cannot, nor what is under them (`Restorable`; `SubtreeClosed` gives
  that the parent of a restorable window is one). `RequestKeeps` is the
  tracker's half: destroying a window with its descendants orphans none. The
  replay's half leans on the order of kinds: that windows are complete when pixmaps
  are replayed, both when `FallbackThere` chooses a drawable for a GC, which is then
  made unless its clip mask is gone or an identifier was used again (`GcLost`).
  Assumptions: identifiers of windows, pixmaps and the root differ, depths are
  positive and 1 is one of them, the root's another, `Nil` is none of them.

* `GcDepthsComeBack` (`SynthesisProofs`): `GcDepthKept`, from `FallbackOfDepth`:
  what replaces a drawable is a window or pixmap of the GC's depth or the scratch
  pixmap made for it, if no window's depth is unknown.

* `OutageProofs`: the four invariants of run `outage`, for any windows, extensions,
  modulus and bounds. For learning, `IInv`: unless a request was stranded, an entry of
  `pendingQueryExt` belongs to the request under way or unanswered with that
  number (`Matched`; `Single`: there is one query at most), a reply being
  delivered has been learned by the time it is written, and what the application
  knows the server knows. For counting, `CInv` keeps a balance through the
  session's phases: the toolkit's count is at most `old` plus what is still
  pending or drained plus what the display has still to answer. Assumptions:
  names differ, no two extensions have one opcode.

* `ContentsProofs`: the properties of run `contents`, for any resources, paints
  and number of requests. `IInv` (`Agreed`) says that what is untouched since the
  replay began is the same in the tables, the snapshots and on the display:
  `PixmapsComeBack`. `CInv` adds the logs: `KeptEverywhere`, that the GC a pixmap
  was last painted with is the last one its log names and paints its colour all
  over, in the tables and in both snapshots; `PaintingKnown`, that a GC whose paint is
  neither freed nor astray paints with what the last request in its log says;
  `SnapshotsAgree`; and `Results`, what each replay step leaves. `GcsComeBack` takes a
  GC's changes one after another (`LastIn`), `DrawsNameGcs` rests on draws being
  filtered by the snapshot that GCs were replayed from, and `ContentsComeBack` on
  nothing that was drawn after the snapshot of pixmaps
  counting as kept. `LogsCorrect` adds the types. `PropertyComesBack` rests on `LogInv`: what is unsent makes
  of what was sent a value that the property had, where what a log makes of a value (`Gives`) is
  said by the values in between, which a request extends and the replay
  shortens, so no induction over the log is needed. Assumptions: identifiers of
  kinds differ, `Nil` and the paints "default", "freed" and "astray" are none.

* `SynthRelayProofs`: `NumbersOK`, `NeverBackwards` and `OnlyGpuRewritten` of run
  `sequence`, for any modulus and number of requests and events. The code computes
  with 16-bit numbers; the invariant (`Inv`) is said in numbers that do not wrap:
  `QueueOK` and `AnswersOK` tie a request's place in the display's queue, and a
  message's number, to `BarrierNo`, the number the display gives the barrier. From
  the first answer to the barrier or a live request on, what the display says is
  about live requests only (`AfterBarrier`). So `NumbersCorrect` needs no bound:
  however often numbers wrap, the offset maps the display's to the application's.
  `NumbersMonotone` and `GpuOnly` assume `MaxLive < Modulus`: an order of numbers
  means something only until they wrap, and a query of a GPU extension whose reply
  overtakes its registration leaves an entry in `suppressed` for the next request with
  that number, 65536 requests later. `OrderInv` compares distances from `final` with
  distances from the barrier; it also covers a reply other than the barrier's being
  taken for it. `GpuOnly` follows from `CountOK`: what the client registers for
  suppression is the number of the query, unless a request before it was not counted.

* `CodecProofs`: the invariants of run `codec` and the refinement of `Channel`,
  for any commands, capacity, number of commands and clients. The encoder decides by what it
  thinks the client holds, the client acts later by what it does hold, and between
  them there are messages, some of which define or expire entries. `Holds` and
  `HasTemplate` say what the decoder will hold after the first `k` messages under
  way; `Run`, that each of them can be decoded and gives the command it was made
  from; `DictAgrees` and `TemplatesAgree`, that after all of them the decoder holds
  what the encoder counts on; `Gone`, that an entry is expired once at most and
  only after its last use. `AlwaysKnown` and `TypeCorrect` follow, `NoMoreHeld` from
  `AccountedFor`, the other direction. `Refines` maps `Encode` to `Send`, the
  decoding of a command to `Receive`, connecting and disconnecting to
  `NewClient`, and everything else to a stutter; that the right command comes out is
  `LinkOK`. Eviction is reasoned about by `Used`, the bytes of the entries in front of a
  place, which is why it is a function over places.

* `IdRemapProofs`: the invariants of run `remap`, for any size and place of the
  ranges, any number of resources and all value masks. `NoIdTwice` rests on `IdsInv`:
  what is in use are `Numbers` of one range, the application's from below, scratch
  resources under the top quarter, colormaps at the top; that a replay invents as
  many identifiers as it asks for is `Shifted` with the cardinalities of
  `NumbersInRange`. `RequestsMeant` is about the two accounts of a request
  (`ExactRequest`): `Laid` gives where the body has what, `Places` that the values
  stand in the order of the mask's bits, each in one place (a mask's bits and its
  places are equally many), and `LookedAt` that these are the words applyIDRemap
  takes. `EventsMeant` follows from `IdsInv`, since no other identifier is on the display.
  Assumptions: those of `IdRemap`: a range starts at a multiple of its size,
  the root is in no range of a client, masks have 32 bits, and there is room.

Only model-checked: all liveness (under fairness, out of TLAPS's reach), the absence of
deadlock, and the refutations.

## Plan

Done: the core (`Proxxxy`), `SynthRelay`, `Synthesis`, `Codec`, `IdRemap`,
`Outage`, `Contents`, and a theorem for every safety property the runs check. Left:

1. `Contents` extended: glyph sets and their references, input masks, SYNC counters.

## Not modelled

Statistics, programs and test tools (no state of the protocol), byte layouts,
logging, and what `AppConn` and `Contents` leave out of the tracker (input masks, glyph
sets, SYNC counters). `region.go`:
`Encode` adds a command and flushes it at once, so nothing is coalesced, and nobody
calls `Ack`.
`SeqMap` and `AtomMap` in `x11/remap.go` are used nowhere.
