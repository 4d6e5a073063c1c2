------------------------------- MODULE Proxxxy -------------------------------
(***************************************************************************)
(* The system: the server, its clients, and the applications, joined by    *)
(* the TCP links and the applications' sockets.                            *)
(***************************************************************************)
EXTENDS Server, Client

CONSTANTS Mortal,     \* client processes that may be killed
          Quitters    \* applications that may exit

ASSUME MortalAssumption == Mortal \subseteq Clients
ASSUME QuittersAssumption == Quitters \subseteq Apps

VARIABLES      \* histories, which no step of the program reads:
  owed,        \* owed[c]: the resources tracked when c became the current client
  overlapped,  \* clients resumed while another one was being resumed
  late         \* late[c]: applications whose setup reply another client's reader
               \* recorded when c, the current client, had been resumed past them

history == <<owed, overlapped, late>>
vars == <<wireVars, appVars, serverVars, clientVars, history>>

TypeOK ==
  /\ WireTypeOK /\ AppTypeOK /\ ServerTypeOK /\ ClientTypeOK
  /\ owed \in [Clients -> [Apps -> SUBSET Nat]]
  /\ overlapped \in SUBSET Clients
  /\ late \in [Clients -> SUBSET Apps]

Init ==
  /\ WireInit /\ AppInit /\ ServerInit /\ ClientInit
  /\ owed = [c \in Clients |-> [a \in Apps |-> {}]]
  /\ overlapped = {}
  /\ late = [c \in Clients |-> {}]

\* The state-changing requests of a that the server has processed.
Made(a) == {n \in 1..seqNum[a] : reqs[a][n] = "state"}

\* The clients being resumed, which share synthActive.
Resuming == {c \in Clients : hpc[c] \in BeforeLive}

\* c's handler has passed a in its synthesis.
Passed(c, a) ==
  /\ hpc[c] \in Registered \ {"closePrev", "resume", "snapshot"}
  /\ hpc[c] = "synth" => a \notin todo[c]

History ==
  /\ owed' = [c \in Clients |-> IF hpc[c] = "hello" /\ hpc'[c] = "closePrev"
                                 THEN [a \in Apps |-> Made(a)] ELSE owed[c]]
  /\ overlapped' = overlapped \cup {c \in Resuming' : Resuming' # {c}}
  /\ late' = [c \in Clients |-> IF clientConn = c /\ hpc'[c] = hpc[c]
                  THEN late[c] \cup {a \in ridKnown' \ ridKnown : Passed(c, a)} ELSE late[c]]

ServerStep ==
  /\ ~panicked
  /\ \/ \E c \in Clients : AcceptClient(c) \/ Handler(c)
     \/ \E a \in Apps : Relay(a)
  /\ History
  /\ UNCHANGED clientVars

ClientsStep ==
  /\ \E c \in Clients : ClientStep(c) \/ (c \in Mortal /\ ClientCrash(c))
  /\ UNCHANGED <<appVars, serverVars, history>>

AppsStep ==
  /\ \E a \in Apps : \/ AppConnect(a)
                     \/ \E kind \in ReqKind : AppRequest(a, kind)
                     \/ a \in Quitters /\ AppQuit(a)
  /\ UNCHANGED <<wireVars, serverVars, clientVars, history>>

Next == ServerStep \/ ClientsStep \/ AppsStep

Spec == Init /\ [][Next]_vars

\* Goroutines and client processes run; a user starts every client sooner or
\* later.  Nobody makes an application send, or a client crash.
Fairness ==
  /\ \A c \in Clients : /\ WF_vars(AcceptClient(c) /\ ServerStep)
                        /\ WF_vars(Handler(c) /\ ServerStep)
                        /\ WF_vars(ClientStep(c) /\ ClientsStep)
  /\ \A a \in Apps : WF_vars(Relay(a) /\ ServerStep)

FairSpec == Spec /\ Fairness

-----------------------------------------------------------------------------
(* The handover from one client to the next *)

\* At most one client is served: every handler past its registration is the
\* current client's, or its connection has been closed, or the handler that
\* took its place is about to close it (server.go:338-350, :352-358).
SupersededIsClosed ==
  \A c \in Clients : hpc[c] \in Registered =>
    \/ clientConn = c
    \/ ~srvOpen[c]
    \/ \E d \in Clients : hpc[d] = "closePrev" /\ prev[d] = c

\* The live relay is blocked only while a synthesis that will unblock it is
\* under way (server.go:334-341, synthesis.go:913-917).
GateReopens ==
  synthActive => \E c \in Clients : hpc[c] \in BeforeLive

\* The server implements Handover: shut off at registration, live traffic is
\* let through again by, and only to, the client that was resumed, unless two
\* were being resumed at once (server.go:334-358, synthesis.go:913-917).
PhaseOf(pc) == CASE pc \in {"idle", "hello"} -> "new"
                 [] pc \in BeforeLive -> "resuming"
                 [] pc \in Registered \ BeforeLive -> "live"
                 [] pc \in {"close", "done"} -> "over"

H == INSTANCE Handover WITH current <- clientConn,
                            phase <- [c \in Clients |-> PhaseOf(hpc[c])],
                            gate <- ~synthActive
HandoverSpec == H!Spec

\* A client is sent no live request before SESSION_LIVE (server.go:334-337:
\* "Block live relay while synthesis runs so that app requests don't race
\* with synthesis commands on the new X connection").  A client resumed beside
\* another has no such luck: the first to finish clears synthActive for both.
NoRequestBeforeLive ==
  \A c \in Clients \ overlapped : \A i \in 1..Len(toClient[c]) :
    IsRequest(toClient[c][i]) =>
      live[c] \/ \E j \in 1..(i - 1) : toClient[c][j].type = "LIVE"

\* What c and a may still rely on: c was resumed alone, and no superseded
\* reader told the server of a's setup behind the back of c's synthesis, which
\* had passed a (synthesis.go:34-42, server.go:400).
InTime(c, a) == c \notin overlapped /\ a \notin late[c]

\* A request reaches a client that holds an X connection for its application:
\* it is never taken for the setup bytes of a new one (client.go:733-794).
RequestsHaveConnections ==
  \A c \in Clients, a \in Apps : InTime(c, a) => xconn[c][a].bad # "request"

\* Once a client is live, every resource tracked when it became current is on
\* its display (synthesis.go:26-27, README.md:3).
Serves(c, a) == live[c] /\ cliOpen[c] /\ xconn[c][a].st = "synth"
NothingForgotten ==
  \A c \in Clients, a \in Apps : Serves(c, a) => owed[c][a] \subseteq xconn[c][a].has

-----------------------------------------------------------------------------
(* What an application sees *)

\* An application that has made a request has its ridBase recorded, so that
\* synthesis never skips it (server.go:151-152, synthesis.go:34-42).
RidRecorded ==
  \A a \in Apps : seqNum[a] > 0 => a \in ridKnown

\* On an X connection opened by the application's own setup bytes, a reply
\* carries the number of the query it answers.
FreshRepliesExact ==
  \A c \in Clients : \A i \in 1..Len(toServer[c]) :
    LET m == toServer[c][i] IN
      m.kind = "reply" /\ xconn[c][m.conn].st = "fresh" /\ InTime(c, m.conn)
        => m.seq = waiting[m.conn]

\* A query whose answer is on its way, faked or real, is still awaited: no
\* query is answered twice (server.go:176-205, readFromClient).
AnswerOnItsWay(a) ==
  \/ apc[a] = "write" /\ IsQuery(a)
  \/ \E c \in Clients :
       \/ \E i \in 1..Len(toClient[c]) :
            LET m == toClient[c][i] IN m.type = "DATA" /\ m.conn = a /\ m.query
       \/ srvOpen[c] /\ \E i \in 1..Len(toServer[c]) :
            LET m == toServer[c][i] IN m.conn = a /\ m.kind = "reply"
       \/ hpc[c] = "deliver" /\ hold[c].conn = a /\ hold[c].kind = "reply"
AnsweredOnce ==
  \A a \in Apps : AnswerOnItsWay(a) => waiting[a] # 0

\* The server survives (README.md:3: "apps keep running").
NoPanic == ~panicked

-----------------------------------------------------------------------------
(* Liveness *)

\* An application that connects gets its setup reply, unless it leaves or no
\* client is left.
SetupAnswered ==
  \A a \in Apps : (app[a] = "up") ~>
    (setups[a] > 0 \/ app[a] # "up" \/ \A c \in Clients : hpc[c] = "done")

\* A registered client goes live, or its handler returns.
ClientGoesLive ==
  \A c \in Clients : (hpc[c] \in Registered) ~> (live[c] \/ hpc[c] = "done")
=============================================================================
