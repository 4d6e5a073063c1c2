------------------------------- MODULE Server -------------------------------
(***************************************************************************)
(* proxxxy-server: internal/server/server.go, with drainRequests of        *)
(* session.go and runSynthesis of synthesis.go.                            *)
(*                                                                         *)
(* One goroutine per client connection runs handleClient, one per          *)
(* application connection runs relayAppToClient.  hpc and apc are their    *)
(* program counters; an action is what a goroutine does between two points *)
(* where another one can run: a region under s.mu, one socket read, one    *)
(* socket write.                                                           *)
(***************************************************************************)
EXTENDS App, FiniteSets

\* When a client may connect while the handler of another still runs: never,
\* while that handler reads from its client, or at any time.
CONSTANT Takeover
ASSUME TakeoverAssumption == Takeover \in {"never", "reading", "anytime"}

CONSTANT Compatible  \* clients that speak this version of the protocol
ASSUME CompatibleAssumption == Compatible \subseteq Clients

VARIABLES
  clientConn,  \* s.clientConn
  synthActive, \* s.synthActive
  appConns,    \* keys of s.appConns
  appState,    \* keys of s.appState
  ridKnown,    \* AppConns whose ridBase is not 0
  seqNum,      \* seqNum[a]: AppConn.seqNum, requests processed
  panicked,    \* a goroutine dereferenced nil: the process is gone
  hpc,         \* handleClient: program counter
  prev,        \* handleClient: local prev
  states,      \* runSynthesis: local states
  todo,        \* what is left of the loop the handler is in
  hold,        \* the message the handler is about to write to an app
  found,       \* readFromClient: which of ac, app is not nil
  apc,         \* relayAppToClient: program counter
  dst          \* sendMsgsToClient: local c

registry == <<clientConn, synthActive>>
tables == <<appConns, appState, ridKnown, seqNum, panicked>>
locals == <<prev, states, todo, hold, found>>
relays == <<apc, dst>>
serverVars == <<registry, tables, hpc, locals, relays>>

HandlerPC == {"idle", "hello", "closePrev", "resume", "snapshot", "synth",
              "clear", "inject", "stamped", "resend", "read", "deliver",
              "unregister", "close", "done"}
RelayPC == {"none", "accepted", "tracked", "drain", "lookup", "write",
            "dropped", "untrack", "close", "gone"}
NoMsg == [conn |-> "none"]

\* Handlers between the assignment of clientConn and its deferred clearing.
Registered == {"closePrev", "resume", "snapshot", "synth", "clear", "inject",
               "stamped", "resend", "read", "deliver", "unregister"}
\* Those that have yet to reset synthActive.
BeforeLive == {"closePrev", "resume", "snapshot", "synth", "clear"}

ServerTypeOK ==
  /\ clientConn \in Clients \cup {NoClient}
  /\ synthActive \in BOOLEAN
  /\ appConns \in SUBSET Apps
  /\ appState \in SUBSET Apps
  /\ ridKnown \in SUBSET Apps
  /\ seqNum \in [Apps -> Nat]
  /\ panicked \in BOOLEAN
  /\ hpc \in [Clients -> HandlerPC]
  /\ prev \in [Clients -> Clients \cup {NoClient}]
  /\ states \in [Clients -> SUBSET Apps]
  /\ todo \in [Clients -> SUBSET Apps]
  /\ hold \in [Clients -> ServerMsg \cup {NoMsg}]
  /\ \A c \in Clients : hpc[c] \in {"stamped", "deliver"} => hold[c] \in ServerMsg
  /\ found \in [Clients -> SUBSET {"ac", "app"}]
  /\ apc \in [Apps -> RelayPC]
  /\ dst \in [Apps -> Clients \cup {NoClient}]

ServerInit ==
  /\ clientConn = NoClient
  /\ synthActive = FALSE
  /\ appConns = {}
  /\ appState = {}
  /\ ridKnown = {}
  /\ seqNum = [a \in Apps |-> 0]
  /\ panicked = FALSE
  /\ hpc = [c \in Clients |-> "idle"]
  /\ prev = [c \in Clients |-> NoClient]
  /\ states = [c \in Clients |-> {}]
  /\ todo = [c \in Clients |-> {}]
  /\ hold = [c \in Clients |-> NoMsg]
  /\ found = [c \in Clients |-> {}]
  /\ apc = [a \in Apps |-> "none"]
  /\ dst = [a \in Apps |-> NoClient]

Goto(c, label) == hpc' = [hpc EXCEPT ![c] = label]
GotoApp(a, label) == apc' = [apc EXCEPT ![a] = label]

\* What the tracker holds for a: the requests processed that create state.
TrackedButLast(a) == {n \in 1..(seqNum[a] - 1) : reqs[a][n] = "state"}  \* mutant
Tracked(a) == {n \in 1..seqNum[a] : reqs[a][n] = "state"}

\* Live requests are not let through.
ShutNoClient == clientConn = NoClient  \* mutant
Shut == clientConn = NoClient \/ synthActive

\* WriteToClient and sendToClient write to whatever connection is current
\* when they run, not to their caller's, and their callers go on whether or
\* not the write succeeds.
WriteUnlessShut(m) == IF Shut THEN UNCHANGED toClient ELSE WriteIgnored(clientConn, m)  \* mutant
WriteToCurrent(m) ==
  IF clientConn = NoClient THEN UNCHANGED toClient ELSE WriteIgnored(clientConn, m)

-----------------------------------------------------------------------------
(* handleClient *)

\* acceptClients.  Takeover says which handlers may still run.
MayStillRun == [never |-> {"idle", "done"},
                reading |-> {"idle", "read", "deliver", "unregister", "close", "done"},
                anytime |-> HandlerPC]

AcceptClient(c) ==
  /\ hpc[c] = "idle"
  /\ \A d \in Clients : hpc[d] \in MayStillRun[Takeover]
  /\ srvOpen' = [srvOpen EXCEPT ![c] = TRUE]
  /\ cliOpen' = [cliOpen EXCEPT ![c] = TRUE]
  /\ Goto(c, "hello")
  /\ UNCHANGED <<toClient, toServer, appVars, registry, tables, locals,
                 relays>>

\* The version check, and the region that makes c the current client.
HelloOk(c) ==
  /\ hpc[c] = "hello"
  /\ c \in Compatible
  /\ clientConn' = c
  /\ prev' = [prev EXCEPT ![c] = clientConn]
  /\ synthActive' = TRUE
  /\ Goto(c, "closePrev")
  /\ UNCHANGED <<wireVars, appVars, tables, states, todo, hold, found,
                 relays>>

\* No HELLO, or one of another version: the handler returns.
HelloRejected(c) ==
  /\ hpc[c] = "hello"
  /\ c \notin Compatible \/ ~cliOpen[c]
  /\ Goto(c, "close")
  /\ UNCHANGED <<wireVars, appVars, registry, tables, locals, relays>>

ClosePrev(c) ==
  /\ hpc[c] = "closePrev"
  /\ srvOpen' = [d \in Clients |-> srvOpen[d] /\ d # prev[c]]
  /\ Goto(c, "resume")
  /\ UNCHANGED <<cliOpen, toClient, toServer, appVars, registry, tables,
                 locals, relays>>

-----------------------------------------------------------------------------
(* runSynthesis *)

SendResume(c) ==
  /\ hpc[c] = "resume"
  /\ WriteToCurrent(SessionResume)
  /\ Goto(c, "snapshot")
  /\ UNCHANGED <<srvOpen, cliOpen, toServer, appVars, registry, tables,
                 locals, relays>>

SnapshotStates(c) ==
  /\ hpc[c] = "snapshot"
  /\ states' = [states EXCEPT ![c] = appState]
  /\ todo' = [todo EXCEPT ![c] = appState]
  /\ Goto(c, "synth")
  /\ UNCHANGED <<wireVars, appVars, registry, tables, prev, hold, found,
                 relays>>

\* synthesiseAppConn: nothing for a connection still waiting for its setup
\* reply.  The snapshots of its resource kinds are taken as one.
SkippedIfEmpty(a) == a \notin ridKnown \/ Tracked(a) = {}  \* mutant
Skipped(a) == a \notin ridKnown

SynthesiseAppConn(c) ==
  /\ hpc[c] = "synth"
  /\ \E a \in todo[c] :
       /\ todo' = [todo EXCEPT ![c] = @ \ {a}]
       /\ IF Skipped(a)
            THEN UNCHANGED toClient
            ELSE WriteToCurrent(X11Setup(a, seqNum[a], Tracked(a)))
  /\ UNCHANGED <<srvOpen, cliOpen, toServer, appVars, registry, tables, hpc,
                 prev, states, hold, found, relays>>

\* The final numbers.  The handler goes on even if the write failed.
ReturnIfGone(c) == IF cliOpen[c] THEN "clear" ELSE "read"  \* mutant
AfterLive(c) == "clear"

SendLive(c) ==
  /\ hpc[c] = "synth"
  /\ todo[c] = {}
  /\ WriteToCurrent(SessionLive(states[c], [a \in Apps |-> IF a \in states[c] THEN seqNum[a] ELSE 0]))
  /\ Goto(c, AfterLive(c))
  /\ UNCHANGED <<srvOpen, cliOpen, toServer, appVars, registry, tables,
                 locals, relays>>

ClearSynthActive(c) ==
  /\ hpc[c] = "clear"
  /\ synthActive' = FALSE
  /\ todo' = [todo EXCEPT ![c] = states[c]]
  /\ Goto(c, "inject")
  /\ UNCHANGED <<wireVars, appVars, clientConn, tables, prev, states, hold,
                 found, relays>>

\* The events injected into an application: the ShmCompletion, ConfigureNotify
\* and Expose loops each look up the socket and read SeqNum, then write.  They
\* stand as one event per connection here; a connection without a mapped
\* window or an attached segment gets none.
ReadStamp(c) ==
  /\ hpc[c] = "inject"
  /\ \E a \in todo[c] \cap appConns :
       /\ hold' = [hold EXCEPT ![c] = XOutput(a, "event", seqNum[a])]
       /\ todo' = [todo EXCEPT ![c] = @ \ {a}]
  /\ Goto(c, "stamped")
  /\ UNCHANGED <<wireVars, appVars, registry, tables, prev, states, found,
                 relays>>

InjectNothing(c) ==
  /\ hpc[c] = "inject"
  /\ \E a \in todo[c] : todo' = [todo EXCEPT ![c] = @ \ {a}]
  /\ UNCHANGED <<wireVars, appVars, registry, tables, hpc, prev, states,
                 hold, found, relays>>

WriteInjected(c) ==
  /\ hpc[c] = "stamped"
  /\ AppWrite(hold[c].conn, "event", hold[c].seq)
  /\ hold' = [hold EXCEPT ![c] = NoMsg]
  /\ Goto(c, "inject")
  /\ UNCHANGED <<wireVars, registry, tables, prev, states, todo, found,
                 relays>>

-----------------------------------------------------------------------------
(* relayPendingSetups, readFromClient, and the deferred calls *)

\* The applications whose setup reply has not been seen.
NonePending == {}  \* mutant
Pending == appState \ ridKnown

CollectPending(c) ==
  /\ hpc[c] = "inject"
  /\ todo[c] = {}
  /\ todo' = [todo EXCEPT ![c] = Pending]
  /\ Goto(c, "resend")
  /\ UNCHANGED <<wireVars, appVars, registry, tables, prev, states, hold,
                 found, relays>>

ResendSetup(c) ==
  /\ hpc[c] = "resend"
  /\ \E a \in todo[c] :
       /\ todo' = [todo EXCEPT ![c] = @ \ {a}]
       /\ WriteToCurrent(X11Data(a, 0, FALSE))
  /\ UNCHANGED <<srvOpen, cliOpen, toServer, appVars, registry, tables, hpc,
                 prev, states, hold, found, relays>>

StartReading(c) ==
  /\ hpc[c] = "resend"
  /\ todo[c] = {}
  /\ Goto(c, "read")
  /\ UNCHANGED <<wireVars, appVars, registry, tables, locals, relays>>

\* One message, and the two lookups under s.mu.
ReadFromClient(c) ==
  /\ hpc[c] = "read"
  /\ srvOpen[c]
  /\ toServer[c] # <<>>
  /\ LET m == Head(toServer[c]) IN
       /\ hold' = [hold EXCEPT ![c] = m]
       /\ found' = [found EXCEPT ![c] =
                      {x \in {"ac", "app"} : IF x = "ac" THEN m.conn \in appState
                                                        ELSE m.conn \in appConns}]
  /\ toServer' = [toServer EXCEPT ![c] = Tail(@)]
  /\ Goto(c, "deliver")
  /\ UNCHANGED <<srvOpen, cliOpen, toClient, appVars, registry, tables, prev,
                 states, todo, relays>>

\* The message is the first data of a tracked connection.
RecordsRidIfCurrent(c) ==  \* mutant
  "ac" \in found[c] /\ hold[c].kind = "setup" /\ clientConn = c
RecordsRid(c) == "ac" \in found[c] /\ hold[c].kind = "setup"

\* With what was looked up: record ridBase, learn the reply, write to the
\* app.  A reply is handed to ac without asking whether ac is nil.
Deliver(c) ==
  /\ hpc[c] = "deliver"
  /\ LET m == hold[c] IN
       /\ ridKnown' = IF RecordsRid(c) THEN ridKnown \cup {m.conn} ELSE ridKnown
       /\ IF "app" \in found[c] /\ "ac" \notin found[c] /\ m.kind # "event"
            THEN panicked' = TRUE /\ UNCHANGED appVars
            ELSE /\ UNCHANGED panicked
                 /\ IF "app" \in found[c]
                      THEN AppWrite(m.conn, m.kind, m.seq)
                      ELSE UNCHANGED appVars
  /\ hold' = [hold EXCEPT ![c] = NoMsg]
  /\ found' = [found EXCEPT ![c] = {}]
  /\ Goto(c, "read")
  /\ UNCHANGED <<wireVars, registry, appConns, appState, seqNum, prev,
                 states, todo, relays>>

\* wire.Read fails: the connection was closed here or the peer is gone (a
\* reset may overtake data already received).
ReadError(c) ==
  /\ hpc[c] = "read"
  /\ ~srvOpen[c] \/ ~cliOpen[c]
  /\ Goto(c, "unregister")
  /\ UNCHANGED <<wireVars, appVars, registry, tables, locals, relays>>

\* The deferred function clears clientConn only if it is still its own.
AlwaysNil(c) == NoClient  \* mutant
AfterUnregister(c) == IF clientConn = c THEN NoClient ELSE clientConn

Unregister(c) ==
  /\ hpc[c] = "unregister"
  /\ clientConn' = AfterUnregister(c)
  /\ Goto(c, "close")
  /\ UNCHANGED <<wireVars, appVars, synthActive, tables, locals, relays>>

CloseConn(c) ==
  /\ hpc[c] = "close"
  /\ srvOpen' = [srvOpen EXCEPT ![c] = FALSE]
  /\ Goto(c, "done")
  /\ UNCHANGED <<cliOpen, toClient, toServer, appVars, registry, tables,
                 locals, relays>>

-----------------------------------------------------------------------------
(* relayAppToClient *)

\* acceptX11.
AcceptApp(a) ==
  /\ apc[a] = "none"
  /\ app[a] = "up"
  /\ appConns' = appConns \cup {a}
  /\ GotoApp(a, "accepted")
  /\ UNCHANGED <<wireVars, appVars, registry, appState, ridKnown, seqNum,
                 panicked, hpc, locals, dst>>

\* parseConnSetup, then the AppConn is published.
TrackApp(a) ==
  /\ apc[a] = "accepted"
  /\ appState' = appState \cup {a}
  /\ GotoApp(a, "tracked")
  /\ UNCHANGED <<wireVars, appVars, registry, appConns, ridKnown, seqNum,
                 panicked, hpc, locals, dst>>

\* parseConnSetup fails: the application left before its setup was read.
SetupUnreadable(a) ==
  /\ apc[a] = "accepted"
  /\ app[a] = "down"
  /\ GotoApp(a, "close")
  /\ UNCHANGED <<wireVars, appVars, registry, tables, hpc, locals, dst>>

\* sendToClient looks at clientConn only: synthActive does not stop it.
SendSetup(a) ==
  /\ apc[a] = "tracked"
  /\ WriteToCurrent(X11Data(a, 0, FALSE))
  /\ GotoApp(a, "drain")
  /\ UNCHANGED <<srvOpen, cliOpen, toServer, appVars, registry, tables, hpc,
                 locals, dst>>

\* drainRequests: read one request, track it.
ReadRequest(a) ==
  /\ apc[a] = "drain"
  /\ seqNum[a] < Len(reqs[a])
  /\ seqNum' = [seqNum EXCEPT ![a] = @ + 1]
  /\ GotoApp(a, "lookup")
  /\ UNCHANGED <<wireVars, appVars, registry, appConns, appState, ridKnown,
                 panicked, hpc, locals, dst>>

\* sendMsgsToClient, the region under s.mu.
LookupClient(a) ==
  /\ apc[a] = "lookup"
  /\ IF Shut
       THEN GotoApp(a, "dropped") /\ UNCHANGED dst
       ELSE GotoApp(a, "write") /\ dst' = [dst EXCEPT ![a] = clientConn]
  /\ UNCHANGED <<wireVars, appVars, registry, tables, hpc, locals>>

\* sendMsgsToClient, the write, which goes to the connection looked up.
IsQuery(a) == reqs[a][seqNum[a]] = "query"

RecheckAfterWrite(a) == IF clientConn = dst[a] THEN "drain" ELSE "dropped"  \* mutant
AfterWrite(a) == "drain"

WriteRequest(a) ==
  /\ apc[a] = "write"
  /\ Write(dst[a], X11Data(a, seqNum[a], IsQuery(a)))
  /\ dst' = [dst EXCEPT ![a] = NoClient]
  /\ GotoApp(a, AfterWrite(a))
  /\ UNCHANGED <<srvOpen, cliOpen, toServer, appVars, registry, tables, hpc,
                 locals>>

WriteRequestFails(a) ==
  /\ apc[a] = "write"
  /\ WriteError(dst[a])
  /\ dst' = [dst EXCEPT ![a] = NoClient]
  /\ GotoApp(a, "dropped")
  /\ UNCHANGED <<srvOpen, cliOpen, toServer, appVars, registry, tables, hpc,
                 locals>>

\* The request was discarded: look again whether to fake its reply.
FakeReply(a) ==
  /\ apc[a] = "dropped"
  /\ IF Shut /\ IsQuery(a)
       THEN AppWrite(a, "reply", seqNum[a])
       ELSE UNCHANGED appVars
  /\ GotoApp(a, "drain")
  /\ UNCHANGED <<wireVars, registry, tables, hpc, locals, dst>>

\* The application closed its socket, or the read failed.
ReadRequestFails(a) ==
  /\ apc[a] = "drain"
  /\ app[a] = "down"
  /\ GotoApp(a, "untrack")
  /\ UNCHANGED <<wireVars, appVars, registry, tables, hpc, locals, dst>>

\* The deferred calls: first the tracker is deleted, then the socket is
\* closed and deleted.
UntrackApp(a) ==
  /\ apc[a] = "untrack"
  /\ appState' = appState \ {a}
  /\ GotoApp(a, "close")
  /\ UNCHANGED <<wireVars, appVars, registry, appConns, ridKnown, seqNum,
                 panicked, hpc, locals, dst>>

CloseApp(a) ==
  /\ apc[a] = "close"
  /\ app' = [app EXCEPT ![a] = "down"]
  /\ appConns' = appConns \ {a}
  /\ GotoApp(a, "gone")
  /\ UNCHANGED <<wireVars, reqs, waiting, setups, registry,
                 appState, ridKnown, seqNum, panicked, hpc, locals, dst>>

-----------------------------------------------------------------------------
Handler(c) ==
  \/ HelloOk(c) \/ HelloRejected(c) \/ ClosePrev(c)
  \/ SendResume(c) \/ SnapshotStates(c) \/ SynthesiseAppConn(c) \/ SendLive(c)
  \/ ClearSynthActive(c) \/ ReadStamp(c) \/ InjectNothing(c) \/ WriteInjected(c)
  \/ CollectPending(c) \/ ResendSetup(c) \/ StartReading(c)
  \/ ReadFromClient(c) \/ Deliver(c) \/ ReadError(c)
  \/ Unregister(c) \/ CloseConn(c)

Relay(a) ==
  \/ AcceptApp(a) \/ TrackApp(a) \/ SetupUnreadable(a) \/ SendSetup(a)
  \/ ReadRequest(a) \/ LookupClient(a) \/ WriteRequest(a) \/ WriteRequestFails(a)
  \/ FakeReply(a) \/ ReadRequestFails(a) \/ UntrackApp(a) \/ CloseApp(a)
=============================================================================
