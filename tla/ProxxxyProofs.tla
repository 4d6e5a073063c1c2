--------------------------- MODULE ProxxxyProofs ---------------------------
(***************************************************************************)
(* Theorems about Proxxxy, for every set of clients and applications and   *)
(* every number of requests.                                               *)
(***************************************************************************)
EXTENDS Proxxxy, TLAPS

-----------------------------------------------------------------------------
(* Type correctness: first the messages and the writes. *)

\* Every message the server composes is one the wire carries.
LEMMA MessageTypes ==
  ASSUME NEW a \in Apps, NEW n \in Nat, NEW q \in BOOLEAN, NEW R \in SUBSET Nat,
         NEW S \in SUBSET Apps, NEW f \in [Apps -> Nat]
  PROVE  /\ SessionResume \in ClientMsg
         /\ X11Setup(a, n, R) \in ClientMsg
         /\ SessionLive(S, f) \in ClientMsg
         /\ X11Data(a, n, q) \in ClientMsg
<1>1. SessionResume \in ClientMsg BY DEF SessionResume, ClientMsg
<1>2. X11Setup(a, n, R) \in ClientMsg BY DEF X11Setup, ClientMsg
<1>3. SessionLive(S, f) \in ClientMsg BY DEF SessionLive, ClientMsg
<1>4. X11Data(a, n, q) \in ClientMsg BY DEF X11Data, ClientMsg
<1> QED BY <1>1, <1>2, <1>3, <1>4

\* A message of the X server is one the wire carries.
LEMMA OutputType ==
  ASSUME NEW a \in Apps, NEW k \in {"setup", "reply", "event"}, NEW n \in Nat
  PROVE  XOutput(a, k, n) \in ServerMsg
BY DEF XOutput, ServerMsg

LEMMA WriteIgnoredType ==
  ASSUME WireTypeOK, NEW c \in Clients, NEW m \in ClientMsg, WriteIgnored(c, m)
  PROVE  toClient' \in [Clients -> Seq(ClientMsg)]
<1>1. Append(toClient[c], m) \in Seq(ClientMsg) BY DEF WireTypeOK
<1> QED BY <1>1 DEF WireTypeOK, WriteIgnored

LEMMA WriteToCurrentType ==
  ASSUME WireTypeOK, ServerTypeOK, NEW m \in ClientMsg, WriteToCurrent(m)
  PROVE  toClient' \in [Clients -> Seq(ClientMsg)]
<1>1. CASE clientConn = NoClient BY <1>1 DEF WriteToCurrent, WireTypeOK
<1>2. CASE clientConn \in Clients
  BY <1>2, NoClientAssumption, WriteIgnoredType DEF WriteToCurrent
<1> QED BY <1>1, <1>2 DEF ServerTypeOK

LEMMA AppWriteType ==
  ASSUME AppTypeOK, NEW a \in Apps, NEW k, NEW n \in Nat, AppWrite(a, k, n)
  PROVE  AppTypeOK'
<1> USE DEF AppTypeOK, AppWrite, appVars
<1>1. CASE app[a] # "up" BY <1>1
<1>2. CASE app[a] = "up"
  <2>1. setups' \in [Apps -> 0..2]
    <3>1. setups' = [setups EXCEPT ![a] = IF k = "setup" /\ @ < 2 THEN @ + 1 ELSE @]
      BY <1>2
    <3>2. (IF k = "setup" /\ setups[a] < 2 THEN setups[a] + 1 ELSE setups[a]) \in 0..2
      OBVIOUS
    <3> QED BY <3>1, <3>2
  <2>3. waiting' \in [Apps -> Nat]
    <3>1. waiting' = [waiting EXCEPT ![a] = IF k = "reply" /\ @ = n THEN 0 ELSE @]
      BY <1>2
    <3>2. (IF k = "reply" /\ waiting[a] = n THEN 0 ELSE waiting[a]) \in Nat
      OBVIOUS
    <3> QED BY <3>1, <3>2
  <2>5. UNCHANGED <<app, reqs>> BY <1>2
  <2> QED BY <2>1, <2>3, <2>5
<1> QED BY <1>1, <1>2

LEMMA TrackedType ==
  ASSUME ServerTypeOK, NEW a \in Apps
  PROVE  Tracked(a) \in SUBSET Nat
BY DEF ServerTypeOK, Tracked

-----------------------------------------------------------------------------
LEMMA HandlerType ==
  ASSUME WireTypeOK, AppTypeOK, ServerTypeOK, NEW c \in Clients,
         AcceptClient(c) \/ Handler(c)
  PROVE  WireTypeOK' /\ AppTypeOK' /\ ServerTypeOK'
<1> USE DEF WireTypeOK, AppTypeOK, ServerTypeOK, wireVars, appVars, registry,
            tables, locals, relays, HandlerPC, Goto
<1>1. CASE AcceptClient(c) BY <1>1 DEF AcceptClient
<1>2. CASE HelloOk(c) BY <1>2 DEF HelloOk
<1>3. CASE HelloRejected(c) BY <1>3 DEF HelloRejected
<1>4. CASE ClosePrev(c) BY <1>4 DEF ClosePrev
<1>5. CASE SendResume(c)
  <2>1. toClient' \in [Clients -> Seq(ClientMsg)]
    BY <1>5, MessageTypes, WriteToCurrentType DEF SendResume, SessionResume, ClientMsg
  <2> QED BY <1>5, <2>1 DEF SendResume
<1>6. CASE SnapshotStates(c) BY <1>6 DEF SnapshotStates
<1>7. CASE SynthesiseAppConn(c)
  <2>1. PICK a \in todo[c] :
          /\ todo' = [todo EXCEPT ![c] = @ \ {a}]
          /\ IF Skipped(a) THEN UNCHANGED toClient
             ELSE WriteToCurrent(X11Setup(a, seqNum[a], Tracked(a)))
    BY <1>7 DEF SynthesiseAppConn
  <2>2. a \in Apps OBVIOUS
  <2>3. X11Setup(a, seqNum[a], Tracked(a)) \in ClientMsg
    BY <2>2, TrackedType, MessageTypes
  <2>4. toClient' \in [Clients -> Seq(ClientMsg)]
    BY <2>1, <2>3, WriteToCurrentType
  <2> QED BY <1>7, <2>1, <2>4 DEF SynthesiseAppConn
<1>8. CASE SendLive(c)
  <2> DEFINE f == [a \in Apps |-> IF a \in states[c] THEN seqNum[a] ELSE 0]
  <2>1. f \in [Apps -> Nat] OBVIOUS
  <2>2. SessionLive(states[c], f) \in ClientMsg
    BY <2>1 DEF SessionLive, ClientMsg
  <2>3. toClient' \in [Clients -> Seq(ClientMsg)]
    BY <1>8, <2>2, WriteToCurrentType DEF SendLive
  <2> QED BY <1>8, <2>3 DEF SendLive, AfterLive
<1>9. CASE ClearSynthActive(c) BY <1>9 DEF ClearSynthActive
<1>10. CASE ReadStamp(c)
  <2>1. PICK a \in todo[c] \cap appConns :
          /\ hold' = [hold EXCEPT ![c] = XOutput(a, "event", seqNum[a])]
          /\ todo' = [todo EXCEPT ![c] = @ \ {a}]
    BY <1>10 DEF ReadStamp
  <2>2. XOutput(a, "event", seqNum[a]) \in ServerMsg BY OutputType
  <2>3. hold' \in [Clients -> ServerMsg \cup {NoMsg}] BY <2>1, <2>2
  <2>4. \A d \in Clients : hpc'[d] \in {"stamped", "deliver"} => hold'[d] \in ServerMsg
    BY <1>10, <2>1, <2>2 DEF ReadStamp
  <2>5. todo' \in [Clients -> SUBSET Apps] BY <2>1
  <2>6. hpc' \in [Clients -> HandlerPC] BY <1>10 DEF ReadStamp
  <2> QED BY <1>10, <2>3, <2>4, <2>5, <2>6 DEF ReadStamp
<1>11. CASE InjectNothing(c) BY <1>11 DEF InjectNothing
<1>12. CASE WriteInjected(c)
  <2>1. hold[c] \in ServerMsg BY <1>12 DEF WriteInjected
  <2>2. hold[c].conn \in Apps /\ hold[c].seq \in Nat BY <2>1 DEF ServerMsg
  <2>3. AppTypeOK' BY <1>12, <2>2, AppWriteType DEF WriteInjected
  <2> QED BY <1>12, <2>3 DEF WriteInjected
<1>13. CASE CollectPending(c) BY <1>13 DEF CollectPending, Pending
<1>14. CASE ResendSetup(c)
  <2>1. PICK a \in todo[c] :
          /\ todo' = [todo EXCEPT ![c] = @ \ {a}]
          /\ WriteToCurrent(X11Data(a, 0, FALSE))
    BY <1>14 DEF ResendSetup
  <2>2. X11Data(a, 0, FALSE) \in ClientMsg BY DEF X11Data, ClientMsg
  <2>3. toClient' \in [Clients -> Seq(ClientMsg)]
    BY <2>1, <2>2, WriteToCurrentType
  <2> QED BY <1>14, <2>1, <2>3 DEF ResendSetup
<1>15. CASE StartReading(c) BY <1>15 DEF StartReading
<1>16. CASE ReadFromClient(c) BY <1>16 DEF ReadFromClient
<1>17. CASE Deliver(c)
  <2>1. hold[c] \in ServerMsg BY <1>17 DEF Deliver
  <2>2. hold[c].conn \in Apps /\ hold[c].seq \in Nat BY <2>1 DEF ServerMsg
  <2>3. AppTypeOK' BY <1>17, <2>2, AppWriteType DEF Deliver
  <2> QED BY <1>17, <2>2, <2>3 DEF Deliver
<1>18. CASE ReadError(c) BY <1>18 DEF ReadError
<1>19. CASE Unregister(c) BY <1>19 DEF Unregister, AfterUnregister
<1>20. CASE CloseConn(c) BY <1>20 DEF CloseConn
<1> QED BY <1>1, <1>2, <1>3, <1>4, <1>5, <1>6, <1>7, <1>8, <1>9, <1>10, <1>11,
           <1>12, <1>13, <1>14, <1>15, <1>16, <1>17, <1>18, <1>19, <1>20
        DEF Handler

LEMMA RelayType ==
  ASSUME WireTypeOK, AppTypeOK, ServerTypeOK, NEW a \in Apps, Relay(a)
  PROVE  WireTypeOK' /\ AppTypeOK' /\ ServerTypeOK'
<1> USE DEF WireTypeOK, AppTypeOK, ServerTypeOK, wireVars, appVars, registry,
            tables, locals, relays, RelayPC, GotoApp
<1>1. CASE AcceptApp(a) BY <1>1 DEF AcceptApp
<1>2. CASE TrackApp(a) BY <1>2 DEF TrackApp
<1>3. CASE SetupUnreadable(a) BY <1>3 DEF SetupUnreadable
<1>4. CASE SendSetup(a)
  <2>1. X11Data(a, 0, FALSE) \in ClientMsg BY DEF X11Data, ClientMsg
  <2>2. toClient' \in [Clients -> Seq(ClientMsg)]
    BY <1>4, <2>1, WriteToCurrentType DEF SendSetup
  <2> QED BY <1>4, <2>2 DEF SendSetup
<1>5. CASE ReadRequest(a) BY <1>5 DEF ReadRequest
<1>6. CASE LookupClient(a)
  <2>1. CASE Shut BY <1>6, <2>1 DEF LookupClient
  <2>2. CASE ~Shut
    <3>1. dst' = [dst EXCEPT ![a] = clientConn] /\ apc' = [apc EXCEPT ![a] = "write"]
      BY <1>6, <2>2 DEF LookupClient
    <3>2. dst' \in [Apps -> Clients \cup {NoClient}] BY <3>1
    <3>3. apc' \in [Apps -> RelayPC] BY <3>1
    <3> QED BY <1>6, <3>2, <3>3 DEF LookupClient
  <2> QED BY <2>1, <2>2
<1>7. CASE WriteRequest(a)
  <2>1. X11Data(a, seqNum[a], IsQuery(a)) \in ClientMsg
    BY DEF X11Data, ClientMsg, IsQuery
  <2> DEFINE m == X11Data(a, seqNum[a], IsQuery(a))
             d == dst[a]
  <2>2. \/ toClient' = toClient
        \/ toClient' = [toClient EXCEPT ![d] = Append(@, m)]
    BY <1>7 DEF WriteRequest, Write
  <2>3. d \in Clients => Append(toClient[d], m) \in Seq(ClientMsg)
    BY <2>1
  <2>4. toClient' \in [Clients -> Seq(ClientMsg)]
    <3> HIDE DEF m, d
    <3> QED BY <2>2, <2>3
  <2> QED BY <1>7, <2>4 DEF WriteRequest, AfterWrite
<1>8. CASE WriteRequestFails(a) BY <1>8 DEF WriteRequestFails, WriteError
<1>9. CASE FakeReply(a)
  <2>1. AppTypeOK' BY <1>9, AppWriteType DEF FakeReply
  <2> QED BY <1>9, <2>1 DEF FakeReply
<1>10. CASE ReadRequestFails(a) BY <1>10 DEF ReadRequestFails
<1>11. CASE UntrackApp(a) BY <1>11 DEF UntrackApp
<1>12. CASE CloseApp(a) BY <1>12 DEF CloseApp
<1> QED BY <1>1, <1>2, <1>3, <1>4, <1>5, <1>6, <1>7, <1>8, <1>9, <1>10, <1>11,
           <1>12 DEF Relay

LEMMA ConsumeType ==
  ASSUME WireTypeOK, NEW c \in Clients, Inbox(c) # {}, Consume(c)
  PROVE  toClient' \in [Clients -> Seq(ClientMsg)]
<1>1. toClient[c] \in Seq(ClientMsg) /\ toClient[c] # <<>> BY DEF Inbox, WireTypeOK
<1>2. Tail(toClient[c]) \in Seq(ClientMsg) BY <1>1
<1> QED BY <1>2 DEF Consume, WireTypeOK

LEMMA InboxType ==
  ASSUME WireTypeOK, NEW c \in Clients, NEW m \in Inbox(c)
  PROVE  m \in ClientMsg
BY DEF Inbox, WireTypeOK

\* What the client makes of one X connection is again an X connection.
LEMMA XConnTypes ==
  ASSUME NEW x \in XConn, NEW m \in ClientMsg, NEW a \in Apps
  PROVE  /\ NoXConn \in XConn
         /\ FreshXConn \in XConn
         /\ [NoXConn EXCEPT !.st = "fresh", !.bad = "request"] \in XConn
         /\ m.type = "SETUP" =>
              [NoXConn EXCEPT !.st = "synth", !.base = m.seq, !.has = m.res] \in XConn
         /\ m.type = "LIVE" => [x EXCEPT !.cnt = 0, !.base = FinalSeq(x, m, a)] \in XConn
         /\ [x EXCEPT !.bad = "setup"] \in XConn
<1> USE DEF NoXConn, XConn
<1>1. NoXConn \in XConn OBVIOUS
<1>2. FreshXConn \in XConn BY DEF FreshXConn
<1>3. [NoXConn EXCEPT !.st = "fresh", !.bad = "request"] \in XConn OBVIOUS
<1>4. ASSUME m.type = "SETUP"
      PROVE  [NoXConn EXCEPT !.st = "synth", !.base = m.seq, !.has = m.res] \in XConn
  <2>1. m.seq \in Nat /\ m.res \in SUBSET Nat BY <1>4 DEF ClientMsg
  <2> QED BY <2>1
<1>5. ASSUME m.type = "LIVE"
      PROVE  [x EXCEPT !.cnt = 0, !.base = FinalSeq(x, m, a)] \in XConn
  <2>1. m.finals \in [Apps -> Nat] BY <1>5 DEF ClientMsg
  <2>2. FinalSeq(x, m, a) \in Nat BY <2>1 DEF FinalSeq
  <2> QED BY <2>2
<1>6. [x EXCEPT !.bad = "setup"] \in XConn OBVIOUS
<1> QED BY <1>1, <1>2, <1>3, <1>4, <1>5, <1>6

LEMMA CountedType ==
  ASSUME NEW x \in XConn, NEW m, m.n \in Nat
  PROVE  Counted(x, m) \in XConn
<1>1. x.cnt + 1 \in Nat BY DEF XConn
<1>2. (IF m.query THEN x.has ELSE x.has \cup {m.n}) \in SUBSET Nat BY DEF XConn
<1> QED BY <1>1, <1>2 DEF Counted, XConn

LEMMA XConnUpdate ==
  ASSUME ClientTypeOK, NEW c \in Clients, NEW a \in Apps, NEW x \in XConn
  PROVE  [xconn EXCEPT ![c][a] = x] \in [Clients -> [Apps -> XConn]]
BY DEF ClientTypeOK

LEMMA OutputWritten ==
  ASSUME WireTypeOK, NEW c \in Clients, NEW m \in ServerMsg,
         Output(c, m) \/ UNCHANGED toServer
  PROVE  toServer' \in [Clients -> Seq(ServerMsg)]
<1>1. Append(toServer[c], m) \in Seq(ServerMsg) BY DEF WireTypeOK
<1> QED BY <1>1 DEF Output, WireTypeOK

LEMMA ClientStepType ==
  ASSUME WireTypeOK, ClientTypeOK, NEW c \in Clients, ClientStep(c) \/ ClientCrash(c)
  PROVE  WireTypeOK' /\ ClientTypeOK'
<1> USE DEF ClientTypeOK
<1>1. CASE RecvIgnored(c)
  <2>1. Inbox(c) # {} /\ Consume(c) BY <1>1 DEF RecvIgnored
  <2>2. toClient' \in [Clients -> Seq(ClientMsg)] BY <2>1, ConsumeType
  <2> QED BY <1>1, <2>1, <2>2 DEF RecvIgnored, Consume, WireTypeOK, clientVars
<1>2. CASE RecvX11Setup(c)
  <2>1. PICK m \in Inbox(c) :
          /\ m.type = "SETUP"
          /\ xconn' = [xconn EXCEPT ![c][m.conn] =
                         [NoXConn EXCEPT !.st = "synth", !.base = m.seq, !.has = m.res]]
    BY <1>2 DEF RecvX11Setup
  <2>2. m \in ClientMsg BY InboxType
  <2>3. m.conn \in Apps BY <2>1, <2>2 DEF ClientMsg
  <2>4. [NoXConn EXCEPT !.st = "synth", !.base = m.seq, !.has = m.res] \in XConn
    BY <2>1, <2>2, <2>3, XConnTypes
  <2>5. xconn' \in [Clients -> [Apps -> XConn]] BY <2>1, <2>3, <2>4
  <2>6. toClient' \in [Clients -> Seq(ClientMsg)]
    BY <1>2, <2>1, ConsumeType DEF RecvX11Setup
  <2> QED BY <1>2, <2>5, <2>6 DEF RecvX11Setup, Consume, WireTypeOK
<1>3. CASE RecvLive(c)
  <2> DEFINE X(m) == [a \in Apps |->
               IF xconn[c][a].st = "synth"
                 THEN [xconn[c][a] EXCEPT !.cnt = 0, !.base = FinalSeq(xconn[c][a], m, a)]
                 ELSE xconn[c][a]]
  <2>1. PICK m \in Inbox(c) : m.type = "LIVE" /\ xconn' = [xconn EXCEPT ![c] = X(m)]
    BY <1>3 DEF RecvLive
  <2>2. m \in ClientMsg BY InboxType
  <2>3. X(m) \in [Apps -> XConn] BY <2>1, <2>2, XConnTypes
  <2>4. xconn' \in [Clients -> [Apps -> XConn]] BY <2>1, <2>3
  <2>5. toClient' \in [Clients -> Seq(ClientMsg)]
    BY <1>3, <2>1, ConsumeType DEF RecvLive
  <2> QED BY <1>3, <2>4, <2>5 DEF RecvLive, Consume, WireTypeOK
<1>4. CASE RecvSetupBytes(c)
  <2>1. PICK m \in Inbox(c) :
          /\ m.type = "DATA" /\ m.n = 0
          /\ IF xconn[c][m.conn].st = "none"
               THEN /\ xconn' = [xconn EXCEPT ![c][m.conn] = FreshXConn]
                    /\ Output(c, XOutput(m.conn, "setup", 0))
               ELSE /\ xconn' = [xconn EXCEPT ![c][m.conn] = [@ EXCEPT !.bad = "setup"]]
                    /\ UNCHANGED toServer
    BY <1>4 DEF RecvSetupBytes
  <2>2. m \in ClientMsg BY InboxType
  <2>3. m.conn \in Apps BY <2>1, <2>2 DEF ClientMsg
  <2>4. xconn[c][m.conn] \in XConn BY <2>3
  <2> DEFINE x == xconn[c][m.conn]
  <2>a. \/ xconn' = [xconn EXCEPT ![c][m.conn] = FreshXConn]
        \/ xconn' = [xconn EXCEPT ![c][m.conn] = [x EXCEPT !.bad = "setup"]]
    BY <2>1
  <2>5. xconn' \in [Clients -> [Apps -> XConn]]
    <3>1. FreshXConn \in XConn /\ [x EXCEPT !.bad = "setup"] \in XConn
      BY <2>2, <2>3, <2>4, XConnTypes
    <3> HIDE DEF x
    <3>2. CASE xconn' = [xconn EXCEPT ![c][m.conn] = FreshXConn]
      BY <2>3, <3>1, <3>2, XConnUpdate
    <3>3. CASE xconn' = [xconn EXCEPT ![c][m.conn] = [x EXCEPT !.bad = "setup"]]
      BY <2>3, <3>1, <3>3, XConnUpdate
    <3> QED BY <2>a, <3>2, <3>3
  <2>6. XOutput(m.conn, "setup", 0) \in ServerMsg BY <2>3, OutputType
  <2>b. Output(c, XOutput(m.conn, "setup", 0)) \/ UNCHANGED toServer BY <2>1
  <2>7. toServer' \in [Clients -> Seq(ServerMsg)] BY <2>b, <2>6, OutputWritten
  <2>8. toClient' \in [Clients -> Seq(ClientMsg)]
    BY <1>4, <2>1, ConsumeType DEF RecvSetupBytes
  <2> QED BY <1>4, <2>5, <2>7, <2>8 DEF RecvSetupBytes, Consume, WireTypeOK
<1>5. CASE RecvRequest(c)
  <2>1. PICK m \in Inbox(c) :
          /\ IsRequest(m)
          /\ \/ xconn' = [xconn EXCEPT ![c][m.conn] =
                            [NoXConn EXCEPT !.st = "fresh", !.bad = "request"]]
             \/ xconn' = [xconn EXCEPT ![c][m.conn] = Counted(xconn[c][m.conn], m)]
          /\ \/ Output(c, XOutput(m.conn, "reply",
                                  xconn[c][m.conn].base + xconn[c][m.conn].cnt + 1))
             \/ UNCHANGED toServer
    BY <1>5 DEF RecvRequest
  <2> DEFINE x == xconn[c][m.conn]
  <2>2. m \in ClientMsg BY InboxType
  <2>3. m.conn \in Apps /\ m.n \in Nat /\ m.query \in BOOLEAN
    BY <2>1, <2>2 DEF ClientMsg, IsRequest
  <2>4. x \in XConn BY <2>3
  <2>5. Counted(x, m) \in XConn BY <2>3, <2>4, CountedType
  <2>6. xconn' \in [Clients -> [Apps -> XConn]]
    <3> DEFINE y == [NoXConn EXCEPT !.st = "fresh", !.bad = "request"]
    <3>1. y \in XConn BY <2>2, <2>3, <2>4, XConnTypes
    <3>2. xconn' = [xconn EXCEPT ![c][m.conn] = y]
          \/ xconn' = [xconn EXCEPT ![c][m.conn] = Counted(x, m)]
      BY <2>1
    <3> HIDE DEF x, y
    <3>3. CASE xconn' = [xconn EXCEPT ![c][m.conn] = y] BY <2>3, <3>1, <3>3, XConnUpdate
    <3>4. CASE xconn' = [xconn EXCEPT ![c][m.conn] = Counted(x, m)]
      BY <2>3, <2>5, <3>4, XConnUpdate
    <3> QED BY <3>2, <3>3, <3>4
  <2>7. x.base + x.cnt + 1 \in Nat BY <2>4 DEF XConn
  <2>8. XOutput(m.conn, "reply", x.base + x.cnt + 1) \in ServerMsg
    BY <2>3, <2>7, OutputType
  <2>9. toServer' \in [Clients -> Seq(ServerMsg)] BY <2>1, <2>8, OutputWritten
  <2>10. toClient' \in [Clients -> Seq(ClientMsg)]
    BY <1>5, <2>1, ConsumeType DEF RecvRequest
  <2> QED BY <1>5, <2>6, <2>9, <2>10 DEF RecvRequest, Consume, WireTypeOK
<1>6. CASE ClientExit(c) \/ ClientCrash(c)
  <2>1. Gone(c) BY <1>6 DEF ClientExit, ClientCrash
  <2>2. NoXConn \in XConn BY DEF NoXConn, XConn
  <2>3. xconn' \in [Clients -> [Apps -> XConn]] BY <2>1, <2>2 DEF Gone
  <2> QED BY <2>1, <2>3 DEF Gone, WireTypeOK
<1> QED BY <1>1, <1>2, <1>3, <1>4, <1>5, <1>6 DEF ClientStep

LEMMA AppsStepType ==
  ASSUME AppTypeOK, NEW a \in Apps,
         AppConnect(a) \/ AppQuit(a) \/ \E kind \in ReqKind : AppRequest(a, kind)
  PROVE  AppTypeOK'
<1> USE DEF AppTypeOK
<1>1. CASE AppConnect(a) BY <1>1 DEF AppConnect
<1>2. CASE AppQuit(a) BY <1>2 DEF AppQuit
<1>3. ASSUME NEW kind \in ReqKind, AppRequest(a, kind)
      PROVE  AppTypeOK'
  <2>1. Append(reqs[a], kind) \in Seq(ReqKind) OBVIOUS
  <2>2. Len(reqs[a]) + 1 \in Nat OBVIOUS
  <2> QED BY <1>3, <2>1, <2>2 DEF AppRequest
<1> QED BY <1>1, <1>2, <1>3

-----------------------------------------------------------------------------
\* Every variable keeps its type, whatever the clients and applications are.
LEMMA InitType == Init => TypeOK
<1> SUFFICES ASSUME Init PROVE TypeOK OBVIOUS
<1> USE DEF Init
<1>1. WireTypeOK BY DEF WireInit, WireTypeOK
<1>2. AppTypeOK BY DEF AppInit, AppTypeOK
<1>3. ServerTypeOK BY DEF ServerInit, ServerTypeOK, HandlerPC, RelayPC
<1>4. ClientTypeOK BY DEF ClientInit, ClientTypeOK, NoXConn, XConn
<1> QED BY <1>1, <1>2, <1>3, <1>4 DEF TypeOK

LEMMA NextType == TypeOK /\ [Next]_vars => TypeOK'
<1> SUFFICES ASSUME TypeOK, [Next]_vars PROVE TypeOK' OBVIOUS
<1> USE DEF TypeOK
<1>1. CASE ServerStep
  <2>1. WireTypeOK' /\ AppTypeOK' /\ ServerTypeOK'
    BY <1>1, HandlerType, RelayType DEF ServerStep
  <2>2. ClientTypeOK' BY <1>1 DEF ServerStep, clientVars, ClientTypeOK
  <2>3. \A a \in Apps : Made(a) \in SUBSET Nat BY DEF Made, ServerTypeOK
  <2>4. owed' \in [Clients -> [Apps -> SUBSET Nat]] BY <1>1, <2>3 DEF ServerStep, History
  <2>5. overlapped' \in SUBSET Clients BY <1>1 DEF ServerStep, History, Resuming
  <2>6. \A c \in Clients : late[c] \in SUBSET Apps /\ ridKnown' \in SUBSET Apps
    BY <2>1 DEF ServerTypeOK
  <2>7. late' \in [Clients -> SUBSET Apps] BY <1>1, <2>6 DEF ServerStep, History
  <2> QED BY <2>1, <2>2, <2>4, <2>5, <2>7
<1>2. CASE ClientsStep
  <2>1. WireTypeOK' /\ ClientTypeOK' BY <1>2, ClientStepType DEF ClientsStep
  <2>2. AppTypeOK' /\ UNCHANGED history BY <1>2 DEF ClientsStep, appVars, AppTypeOK
  <2>3. ServerTypeOK'
    BY <1>2 DEF ClientsStep, serverVars, registry, tables, locals, relays, ServerTypeOK
  <2> QED BY <2>1, <2>2, <2>3 DEF history
<1>3. CASE AppsStep
  <2>1. AppTypeOK' BY <1>3, AppsStepType DEF AppsStep
  <2>2. WireTypeOK' /\ ClientTypeOK' /\ UNCHANGED history
    BY <1>3 DEF AppsStep, wireVars, clientVars, WireTypeOK, ClientTypeOK
  <2>3. ServerTypeOK'
    BY <1>3 DEF AppsStep, serverVars, registry, tables, locals, relays, ServerTypeOK
  <2> QED BY <2>1, <2>2, <2>3 DEF history
<1>4. CASE UNCHANGED vars
  BY <1>4 DEF vars, history, wireVars, appVars, serverVars, clientVars, registry, tables,
     locals, relays, WireTypeOK, AppTypeOK, ServerTypeOK, ClientTypeOK
<1> QED BY <1>1, <1>2, <1>3, <1>4 DEF Next

THEOREM TypeCorrect == Spec => []TypeOK
BY InitType, NextType, PTL DEF Spec

-----------------------------------------------------------------------------
(* The handover.  Most steps of a handler leave what the handover is about  *)
(* alone: they only move it along, before or after it has gone live.        *)

handoverVars == <<clientConn, synthActive, prev, srvOpen>>

QuietStep(c) ==
  /\ UNCHANGED handoverVars
  /\ \E S \in {BeforeLive \ {"closePrev"}, Registered \ BeforeLive} : \E pc \in S :
       hpc[c] \in S /\ hpc' = [hpc EXCEPT ![c] = pc]

LEMMA HandlerSteps ==
  ASSUME ServerTypeOK, NEW c \in Clients, Handler(c)
  PROVE  \/ HelloOk(c) \/ HelloRejected(c) \/ ClosePrev(c) \/ ClearSynthActive(c)
         \/ Unregister(c) \/ CloseConn(c) \/ QuietStep(c)
<1> DEFINE B == BeforeLive \ {"closePrev"}
           L == Registered \ BeforeLive
<1>1. ASSUME NEW pc \in B, hpc[c] \in B, hpc' = [hpc EXCEPT ![c] = pc], UNCHANGED handoverVars
      PROVE  QuietStep(c)
  BY <1>1 DEF QuietStep
<1>2. ASSUME NEW pc \in L, hpc[c] \in L, hpc' = [hpc EXCEPT ![c] = pc], UNCHANGED handoverVars
      PROVE  QuietStep(c)
  BY <1>2 DEF QuietStep
<1> USE DEF BeforeLive, Registered, registry, locals, wireVars, handoverVars, Goto, ServerTypeOK
<1>3. CASE SendResume(c) BY <1>1, <1>3 DEF SendResume
<1>4. CASE SnapshotStates(c) BY <1>1, <1>4 DEF SnapshotStates
<1>5. CASE SynthesiseAppConn(c) BY <1>1, <1>5 DEF SynthesiseAppConn
<1>6. CASE SendLive(c) BY <1>1, <1>6 DEF SendLive, AfterLive
<1>7. CASE ReadStamp(c) BY <1>2, <1>7 DEF ReadStamp
<1>8. CASE InjectNothing(c) BY <1>2, <1>8 DEF InjectNothing
<1>9. CASE WriteInjected(c) BY <1>2, <1>9 DEF WriteInjected
<1>10. CASE CollectPending(c) BY <1>2, <1>10 DEF CollectPending
<1>11. CASE ResendSetup(c) BY <1>2, <1>11 DEF ResendSetup
<1>12. CASE StartReading(c) BY <1>2, <1>12 DEF StartReading
<1>13. CASE ReadFromClient(c) BY <1>2, <1>13 DEF ReadFromClient
<1>14. CASE Deliver(c) BY <1>2, <1>14 DEF Deliver
<1>15. CASE ReadError(c) BY <1>2, <1>15 DEF ReadError
<1> QED BY <1>3, <1>4, <1>5, <1>6, <1>7, <1>8, <1>9, <1>10, <1>11, <1>12, <1>13,
           <1>14, <1>15 DEF Handler

\* Steps of relays, clients and applications do not touch the handover.
LEMMA OtherSteps ==
  ASSUME [Next]_vars, ~\E c \in Clients : AcceptClient(c) \/ Handler(c)
  PROVE  UNCHANGED <<handoverVars, hpc>>
<1> USE DEF handoverVars, registry, locals, wireVars
<1>1. ASSUME NEW a \in Apps, Relay(a) PROVE UNCHANGED <<handoverVars, hpc>>
  BY <1>1 DEF Relay, AcceptApp, TrackApp, SetupUnreadable, SendSetup, ReadRequest,
     LookupClient, WriteRequest, WriteRequestFails, FakeReply, ReadRequestFails,
     UntrackApp, CloseApp
<1>2. CASE ServerStep BY <1>1, <1>2 DEF ServerStep
<1>3. ASSUME NEW c \in Clients, ClientStep(c) \/ ClientCrash(c) PROVE UNCHANGED srvOpen
  BY <1>3 DEF ClientStep, RecvIgnored, RecvX11Setup, RecvLive, RecvSetupBytes,
     RecvRequest, ClientExit, ClientCrash, Consume, Gone
<1>4. CASE ClientsStep BY <1>3, <1>4 DEF ClientsStep, serverVars
<1>5. CASE AppsStep BY <1>5 DEF AppsStep, serverVars
<1>6. CASE UNCHANGED vars BY <1>6 DEF vars, serverVars
<1> QED BY <1>2, <1>4, <1>5, <1>6 DEF Next

-----------------------------------------------------------------------------
\* At most one client is served, however clients come, go and overlap.
LEMMA SupersededStep ==
  TypeOK /\ SupersededIsClosed /\ [Next]_vars => SupersededIsClosed'
<1> SUFFICES ASSUME TypeOK, SupersededIsClosed, [Next]_vars, NEW e \in Clients,
                    hpc'[e] \in Registered
             PROVE  \/ clientConn' = e
                    \/ ~srvOpen'[e]
                    \/ \E d \in Clients : hpc'[d] = "closePrev" /\ prev'[d] = e
  BY DEF SupersededIsClosed
<1> DEFINE Closed == \/ clientConn' = e
                     \/ ~srvOpen'[e]
                     \/ \E d \in Clients : hpc'[d] = "closePrev" /\ prev'[d] = e
<1> USE DEF TypeOK, WireTypeOK, ServerTypeOK, SupersededIsClosed, Registered, Goto
<1>1. CASE ~\E c \in Clients : AcceptClient(c) \/ Handler(c)
  BY <1>1, OtherSteps DEF handoverVars
<1>2. ASSUME NEW c \in Clients, AcceptClient(c) PROVE Closed
  BY <1>2 DEF AcceptClient, registry, locals
<1>3. ASSUME NEW c \in Clients, HelloOk(c) PROVE Closed
  <2>1. CASE e = c BY <1>3, <2>1 DEF HelloOk
  <2>2. CASE e # c
    <3>1. hpc[e] \in Registered /\ hpc'[c] = "closePrev" /\ prev'[c] = clientConn
      BY <1>3, <2>2 DEF HelloOk
    <3>2. \A d \in Clients : d # c => hpc'[d] = hpc[d] /\ prev'[d] = prev[d]
      BY <1>3 DEF HelloOk
    <3>3. hpc[c] = "hello" /\ srvOpen' = srvOpen BY <1>3 DEF HelloOk, wireVars
    <3>4. CASE clientConn = e BY <3>1, <3>4
    <3>5. CASE ~srvOpen[e] BY <3>3, <3>5
    <3>6. CASE \E d \in Clients : hpc[d] = "closePrev" /\ prev[d] = e
      <4>1. PICK d \in Clients : hpc[d] = "closePrev" /\ prev[d] = e BY <3>6
      <4>2. d # c BY <3>3, <4>1
      <4> QED BY <3>2, <4>1, <4>2
    <3> QED BY <3>1, <3>4, <3>5, <3>6
  <2> QED BY <2>1, <2>2
<1>4. ASSUME NEW c \in Clients, HelloRejected(c) PROVE Closed
  BY <1>4 DEF HelloRejected, wireVars, registry, locals
<1>5. ASSUME NEW c \in Clients, ClosePrev(c) PROVE Closed
  BY <1>5 DEF ClosePrev, registry, locals
<1>6. ASSUME NEW c \in Clients, ClearSynthActive(c) PROVE Closed
  BY <1>6 DEF ClearSynthActive, wireVars
<1>7. ASSUME NEW c \in Clients, Unregister(c) PROVE Closed
  BY <1>7 DEF Unregister, AfterUnregister, wireVars, locals
<1>8. ASSUME NEW c \in Clients, CloseConn(c) PROVE Closed
  BY <1>8 DEF CloseConn, registry, locals
<1>9. ASSUME NEW c \in Clients, QuietStep(c) PROVE Closed
  BY <1>9 DEF QuietStep, handoverVars, BeforeLive
<1> HIDE DEF Closed
<1>10. Closed
  BY <1>1, <1>2, <1>3, <1>4, <1>5, <1>6, <1>7, <1>8, <1>9, HandlerSteps
  DEF TypeOK, Closed
<1> QED BY <1>10 DEF Closed

THEOREM SingleClient == Spec => []SupersededIsClosed
<1>1. Init => SupersededIsClosed BY DEF Init, ServerInit, SupersededIsClosed, Registered
<1> QED BY <1>1, SupersededStep, TypeCorrect, PTL DEF Spec

-----------------------------------------------------------------------------
\* The relay is never shut with nobody left to open it again.
LEMMA GateStep ==
  TypeOK /\ GateReopens /\ [Next]_vars => GateReopens'
<1> SUFFICES ASSUME TypeOK, GateReopens, [Next]_vars, synthActive'
             PROVE  \E c \in Clients : hpc'[c] \in BeforeLive
  BY DEF GateReopens
<1> USE DEF TypeOK, ServerTypeOK, GateReopens, BeforeLive, Goto
<1>1. CASE ~\E c \in Clients : AcceptClient(c) \/ Handler(c)
  BY <1>1, OtherSteps DEF handoverVars
<1>2. ASSUME NEW c \in Clients, AcceptClient(c) PROVE \E d \in Clients : hpc'[d] \in BeforeLive
  BY <1>2 DEF AcceptClient, registry
<1>3. ASSUME NEW c \in Clients, HelloOk(c) PROVE \E d \in Clients : hpc'[d] \in BeforeLive
  BY <1>3 DEF HelloOk
<1>4. ASSUME NEW c \in Clients, HelloRejected(c) PROVE \E d \in Clients : hpc'[d] \in BeforeLive
  BY <1>4 DEF HelloRejected, registry
<1>5. ASSUME NEW c \in Clients, ClosePrev(c) PROVE \E d \in Clients : hpc'[d] \in BeforeLive
  BY <1>5 DEF ClosePrev, registry
<1>6. ASSUME NEW c \in Clients, ClearSynthActive(c) PROVE FALSE
  BY <1>6 DEF ClearSynthActive
<1>7. ASSUME NEW c \in Clients, Unregister(c) PROVE \E d \in Clients : hpc'[d] \in BeforeLive
  BY <1>7 DEF Unregister
<1>8. ASSUME NEW c \in Clients, CloseConn(c) PROVE \E d \in Clients : hpc'[d] \in BeforeLive
  BY <1>8 DEF CloseConn, registry
<1>9. ASSUME NEW c \in Clients, QuietStep(c) PROVE \E d \in Clients : hpc'[d] \in BeforeLive
  BY <1>9 DEF QuietStep, handoverVars, Registered
<1> QED
  BY <1>1, <1>2, <1>3, <1>4, <1>5, <1>6, <1>7, <1>8, <1>9, HandlerSteps

THEOREM RelayUnblocked == Spec => []GateReopens
<1>1. Init => GateReopens BY DEF Init, ServerInit, GateReopens
<1> QED BY <1>1, GateStep, TypeCorrect, PTL DEF Spec

-----------------------------------------------------------------------------
(* The server implements Handover.  Resumptions may overlap: a client that  *)
(* is being resumed is the current one, or overlapped with another; and the *)
(* current one overlapped with whichever is being resumed beside it.        *)

HandoverInv ==
  \A c, d \in Clients : hpc[d] \in BeforeLive /\ c \notin overlapped =>
    /\ c = d => clientConn = c
    /\ hpc[c] \in BeforeLive \/ clientConn = c => c = d

\* Overlaps are remembered, and noticed when they begin.
LEMMA OverlapStep ==
  ASSUME [Next]_vars
  PROVE  /\ overlapped \subseteq overlapped'
         /\ ServerStep => overlapped' = overlapped \cup {c \in Resuming' : Resuming' # {c}}
         /\ ~ServerStep => UNCHANGED <<serverVars, overlapped>>
BY DEF Next, ServerStep, History, ClientsStep, AppsStep, vars, history

\* Those resumed at once are all among the overlapped.
LEMMA OverlapNoted ==
  ASSUME ServerStep, [Next]_vars, NEW c \in Clients, NEW d \in Clients, c # d,
         hpc'[c] \in BeforeLive, hpc'[d] \in BeforeLive
  PROVE  c \in overlapped'
<1>1. c \in Resuming' /\ d \in Resuming' BY DEF Resuming
<1> QED BY <1>1, OverlapStep

\* How a step of a handler moves what HandoverInv is about.
HandoverMove(c) ==
  \/ clientConn' = c /\ hpc' = [hpc EXCEPT ![c] = "closePrev"]
  \/ /\ clientConn' \in {clientConn, NoClient}
     /\ \A d \in Clients : hpc'[d] \in BeforeLive => hpc[d] \in BeforeLive
     /\ clientConn' # clientConn => clientConn = c /\ hpc'[c] \notin BeforeLive

LEMMA HandoverMoves ==
  ASSUME TypeOK, NEW c \in Clients, AcceptClient(c) \/ Handler(c)
  PROVE  HandoverMove(c)
<1> USE DEF TypeOK, ServerTypeOK, BeforeLive, Goto, HandoverMove
<1>2. CASE AcceptClient(c) BY <1>2 DEF AcceptClient, registry
<1>3. CASE HelloOk(c) BY <1>3 DEF HelloOk
<1>4. CASE HelloRejected(c) BY <1>4 DEF HelloRejected, registry
<1>5. CASE ClosePrev(c) BY <1>5 DEF ClosePrev, registry
<1>6. CASE ClearSynthActive(c) BY <1>6 DEF ClearSynthActive
<1>7. CASE Unregister(c) BY <1>7 DEF Unregister, AfterUnregister
<1>8. CASE CloseConn(c) BY <1>8 DEF CloseConn, registry
<1>9. CASE QuietStep(c) BY <1>9 DEF QuietStep, handoverVars, Registered
<1> QED BY <1>2, <1>3, <1>4, <1>5, <1>6, <1>7, <1>8, <1>9, HandlerSteps

LEMMA HandoverInvStep ==
  ASSUME TypeOK, HandoverInv, [Next]_vars
  PROVE  HandoverInv'
<1>1. CASE ~\E c \in Clients : AcceptClient(c) \/ Handler(c)
  <2>1. UNCHANGED <<clientConn, hpc>> BY <1>1, OtherSteps DEF handoverVars
  <2> QED BY <2>1, OverlapStep DEF HandoverInv
<1>2. ASSUME NEW e \in Clients, AcceptClient(e) \/ Handler(e) PROVE HandoverInv'
  <2> SUFFICES ASSUME NEW c \in Clients, NEW d \in Clients, hpc'[d] \in BeforeLive,
                      c \notin overlapped'
               PROVE  /\ c = d => clientConn' = c
                      /\ hpc'[c] \in BeforeLive \/ clientConn' = c => c = d
    BY DEF HandoverInv
  <2>1. c \notin overlapped BY OverlapStep
  <2>2. CASE UNCHANGED <<hpc, clientConn>> BY <2>1, <2>2 DEF HandoverInv
  <2>3. CASE ServerStep
    <3>1. hpc'[c] \in BeforeLive => c = d BY <2>3, OverlapNoted
    <3>2. CASE clientConn' = e /\ hpc' = [hpc EXCEPT ![e] = "closePrev"]
      <4>1. hpc'[e] \in BeforeLive BY <3>2 DEF BeforeLive, TypeOK, ServerTypeOK
      <4>2. clientConn' = c => c = d BY <3>1, <3>2, <4>1
      <4>3. c = d => c = e BY <2>3, <4>1, OverlapNoted
      <4> QED BY <3>1, <3>2, <4>2, <4>3
    <3>3. CASE /\ clientConn' \in {clientConn, NoClient}
               /\ \A b \in Clients : hpc'[b] \in BeforeLive => hpc[b] \in BeforeLive
               /\ clientConn' # clientConn => clientConn = e /\ hpc'[e] \notin BeforeLive
      <4>1. hpc[d] \in BeforeLive BY <3>3
      <4>2. c = d => clientConn = c BY <2>1, <4>1 DEF HandoverInv
      <4>3. c = d => clientConn' = c BY <3>3, <4>2
      <4>4. clientConn' = c => c = d BY <2>1, <3>3, <4>1, NoClientAssumption DEF HandoverInv
      <4> QED BY <3>1, <4>3, <4>4
    <3> QED BY <1>2, <3>2, <3>3, HandoverMoves DEF HandoverMove
  <2> QED BY <2>2, <2>3, OverlapStep DEF serverVars, registry
<1> QED BY <1>1, <1>2

\* The phase of every handler but the one that moves stays what it was.
LEMMA PhaseMoves ==
  ASSUME ServerTypeOK, NEW c \in Clients, NEW pc \in HandlerPC, Goto(c, pc)
  PROVE  [d \in Clients |-> PhaseOf(hpc[d])]'
           = [[d \in Clients |-> PhaseOf(hpc[d])] EXCEPT ![c] = PhaseOf(pc)]
BY DEF ServerTypeOK, Goto

\* Every step of the system is a step of Handover, or changes nothing it sees.
LEMMA HandoverStep ==
  ASSUME TypeOK, HandoverInv, [Next]_vars
  PROVE  [H!Next]_(H!vars)
<1> DEFINE ph == [c \in Clients |-> PhaseOf(hpc[c])]
           Goal == [H!Next]_(H!vars)
<1> USE DEF TypeOK, ServerTypeOK, H!vars
<1>a. \A c \in Clients : ph[c] = PhaseOf(hpc[c]) OBVIOUS
<1>c. \A c \in Clients : PhaseOf(hpc'[c]) = "resuming" <=> hpc'[c] \in BeforeLive
  <2>1. \A pc \in HandlerPC : PhaseOf(pc) = "resuming" <=> pc \in BeforeLive
    BY DEF PhaseOf, Registered, BeforeLive, HandlerPC
  <2>2. \A c \in Clients : hpc'[c] \in HandlerPC BY NextType
  <2> QED BY <2>1, <2>2
<1>d. H!Resuming' = Resuming'
  <2>1. H!Resuming' = {c \in Clients : ph'[c] = "resuming"} BY DEF H!Resuming
  <2>2. ph' = [c \in Clients |-> PhaseOf(hpc'[c])] BY DEF PhaseOf
  <2>3. \A c \in Clients : ph'[c] = "resuming" <=> hpc'[c] \in BeforeLive BY <1>c, <2>2
  <2>4. Resuming' = {c \in Clients : hpc'[c] \in BeforeLive} BY DEF Resuming
  <2> HIDE DEF ph
  <2> QED BY <2>1, <2>3, <2>4
<1>e. ASSUME \A c \in Clients : hpc'[c] \in BeforeLive => hpc[c] \in BeforeLive
      PROVE  overlapped' = overlapped
  <2>1. \A c \in Resuming' : Resuming' # {c} => c \in overlapped
    <3> SUFFICES ASSUME NEW c \in Resuming', NEW d \in Resuming', c # d PROVE c \in overlapped
      BY DEF Resuming
    <3>1. c \in Clients /\ d \in Clients /\ hpc[c] \in BeforeLive /\ hpc[d] \in BeforeLive
      BY <1>e DEF Resuming
    <3> QED BY <3>1 DEF HandoverInv
  <2> QED BY <2>1, OverlapStep
<1>b. ASSUME NEW c \in Clients, NEW pc \in HandlerPC, Goto(c, pc)
      PROVE  ph' = [ph EXCEPT ![c] = PhaseOf(pc)]
  BY <1>b, PhaseMoves
<1>1. CASE ~\E c \in Clients : AcceptClient(c) \/ Handler(c)
  <2>1. UNCHANGED <<handoverVars, hpc>> BY <1>1, OtherSteps
  <2> QED BY <1>e, <2>1 DEF handoverVars
<1>2. ASSUME NEW c \in Clients, AcceptClient(c) PROVE Goal
  <2>1. PhaseOf("hello") = "new" /\ PhaseOf("idle") = "new"
    BY DEF PhaseOf, BeforeLive, Registered
  <2>2. Goto(c, "hello") /\ ph[c] = "new" BY <1>2, <1>a, <2>1 DEF AcceptClient
  <2>3. ph' = [ph EXCEPT ![c] = "new"] BY <1>b, <2>1, <2>2 DEF HandlerPC
  <2>4. ph' = ph BY <2>2, <2>3
  <2>5. overlapped' = overlapped BY <1>e, <2>2 DEF Goto, BeforeLive
  <2> QED BY <1>2, <2>4, <2>5 DEF AcceptClient, registry
<1>3. ASSUME NEW c \in Clients, HelloOk(c) PROVE Goal
  <2>1. PhaseOf("hello") = "new" /\ PhaseOf("closePrev") = "resuming"
    BY DEF PhaseOf, BeforeLive, Registered
  <2>2. ph[c] = "new" /\ ph' = [ph EXCEPT ![c] = "resuming"]
    BY <1>3, <1>a, <1>b, <2>1 DEF HelloOk, HandlerPC
  <2>3. clientConn' = c /\ synthActive' = TRUE BY <1>3 DEF HelloOk
  <2>4. overlapped' = overlapped \cup {d \in H!Resuming' : H!Resuming' # {d}}
    <3>1. hpc'[c] = "closePrev" /\ hpc[c] = "hello" BY <1>3 DEF HelloOk, Goto
    <3>2. ~UNCHANGED serverVars BY <3>1 DEF serverVars
    <3>3. overlapped' = overlapped \cup {d \in Resuming' : Resuming' # {d}}
      BY <3>2, OverlapStep
    <3> QED BY <1>d, <3>3
  <2>5. H!Attach(c) BY <2>2, <2>3, <2>4 DEF H!Attach
  <2> QED BY <2>5 DEF H!Next
<1>4. ASSUME NEW c \in Clients, HelloRejected(c) PROVE Goal
  <2>1. PhaseOf("hello") = "new" /\ PhaseOf("close") = "over"
    BY DEF PhaseOf, BeforeLive, Registered
  <2>2. ph[c] = "new" /\ ph' = [ph EXCEPT ![c] = "over"]
    BY <1>4, <1>a, <1>b, <2>1 DEF HelloRejected, HandlerPC
  <2>3. UNCHANGED <<clientConn, synthActive>> BY <1>4 DEF HelloRejected, registry
  <2>4. overlapped' = overlapped BY <1>4, <1>e DEF HelloRejected, Goto, BeforeLive
  <2>5. H!Refuse(c) BY <2>2, <2>3, <2>4 DEF H!Refuse
  <2> QED BY <2>5 DEF H!Next
<1>5. ASSUME NEW c \in Clients, ClosePrev(c) PROVE Goal
  <2>1. PhaseOf("closePrev") = "resuming" /\ PhaseOf("resume") = "resuming"
    BY DEF PhaseOf, BeforeLive, Registered
  <2>2. Goto(c, "resume") /\ ph[c] = "resuming" BY <1>5, <1>a, <2>1 DEF ClosePrev
  <2>3. ph' = [ph EXCEPT ![c] = "resuming"] BY <1>b, <2>1, <2>2 DEF HandlerPC
  <2>4. ph' = ph BY <2>2, <2>3
  <2>5. overlapped' = overlapped BY <1>5, <1>e DEF ClosePrev, Goto, BeforeLive
  <2> QED BY <1>5, <2>4, <2>5 DEF ClosePrev, registry
<1>6. ASSUME NEW c \in Clients, ClearSynthActive(c) PROVE Goal
  <2>1. PhaseOf("clear") = "resuming" /\ PhaseOf("inject") = "live"
    BY DEF PhaseOf, BeforeLive, Registered
  <2>2. ph[c] = "resuming" /\ ph' = [ph EXCEPT ![c] = "live"]
    BY <1>6, <1>a, <1>b, <2>1 DEF ClearSynthActive, HandlerPC
  <2>3. clientConn = c \/ c \in overlapped
    BY <1>6 DEF ClearSynthActive, HandoverInv, BeforeLive
  <2>4. clientConn' = clientConn /\ synthActive' = FALSE BY <1>6 DEF ClearSynthActive
  <2>5. overlapped' = overlapped BY <1>6, <1>e DEF ClearSynthActive, Goto, BeforeLive
  <2>6. H!GoLive(c) BY <2>2, <2>3, <2>4, <2>5 DEF H!GoLive
  <2> QED BY <2>6 DEF H!Next
<1>7. ASSUME NEW c \in Clients, Unregister(c) PROVE Goal
  <2>1. PhaseOf("unregister") = "live" /\ PhaseOf("close") = "over"
    BY DEF PhaseOf, BeforeLive, Registered
  <2>2. ph[c] = "live" /\ ph' = [ph EXCEPT ![c] = "over"]
    BY <1>7, <1>a, <1>b, <2>1 DEF Unregister, HandlerPC
  <2>3. clientConn' = AfterUnregister(c) /\ synthActive' = synthActive
    BY <1>7 DEF Unregister
  <2>4. overlapped' = overlapped BY <1>7, <1>e DEF Unregister, Goto, BeforeLive
  <2>5. H!Detach(c) BY <2>2, <2>3, <2>4 DEF H!Detach, AfterUnregister
  <2> QED BY <2>5 DEF H!Next
<1>8. ASSUME NEW c \in Clients, CloseConn(c) PROVE Goal
  <2>1. PhaseOf("close") = "over" /\ PhaseOf("done") = "over"
    BY DEF PhaseOf, BeforeLive, Registered
  <2>2. ph' = ph BY <1>8, <1>b, <2>1 DEF CloseConn, HandlerPC
  <2>3. overlapped' = overlapped BY <1>8, <1>e DEF CloseConn, Goto, BeforeLive
  <2> QED BY <1>8, <2>2, <2>3 DEF CloseConn, registry
<1>9. ASSUME NEW c \in Clients, QuietStep(c) PROVE Goal
  <2>1. PICK S \in {BeforeLive \ {"closePrev"}, Registered \ BeforeLive} :
          \E pc \in S : hpc[c] \in S /\ Goto(c, pc)
    BY <1>9 DEF QuietStep, Goto
  <2>2. PICK pc \in S : hpc[c] \in S /\ Goto(c, pc) BY <2>1
  <2>3. PhaseOf(pc) = PhaseOf(hpc[c])
    BY <2>2 DEF PhaseOf, BeforeLive, Registered
  <2>4. pc \in HandlerPC BY DEF BeforeLive, Registered, HandlerPC
  <2>5. ph' = ph BY <1>b, <2>2, <2>3, <2>4
  <2>6. overlapped' = overlapped BY <1>9, <1>e DEF QuietStep, Registered, BeforeLive
  <2> QED BY <1>9, <2>5, <2>6 DEF QuietStep, handoverVars
<1> QED
  BY <1>1, <1>2, <1>3, <1>4, <1>5, <1>6, <1>7, <1>8, <1>9, HandlerSteps

\* The detailed server implements the abstract handover, whenever clients
\* connect: a client is resumed with live traffic shut off, and only the client
\* that is attached goes live, or one whose resumption overlapped another's
\* (server.go:317-377, synthesis.go:871-937).
THEOREM HandoverImplemented == Spec => HandoverSpec
<1>1. Init => HandoverInv
  BY DEF Init, ServerInit, HandoverInv, BeforeLive
<1>2. TypeOK /\ HandoverInv /\ [Next]_vars => HandoverInv'
  BY HandoverInvStep
<1>3. Init => H!Init
  <2>1. PhaseOf("idle") = "new" BY DEF PhaseOf, BeforeLive, Registered
  <2> QED BY <2>1 DEF Init, ServerInit, H!Init
<1>4. TypeOK /\ HandoverInv /\ [Next]_vars => [H!Next]_(H!vars)
  BY HandoverStep
<1> QED BY <1>1, <1>2, <1>3, <1>4, TypeCorrect, PTL DEF Spec, HandoverSpec, H!Spec

-----------------------------------------------------------------------------
\* The strengthening of RidRecorded: an application makes no request before it
\* has its setup reply, and has none before readFromClient has recorded it.
RidInv ==
  \A a \in Apps : /\ seqNum[a] <= Len(reqs[a])
                  /\ Len(reqs[a]) > 0 => setups[a] > 0
                  /\ setups[a] > 0 => a \in ridKnown

\* A write that is not a setup reply does not disturb RidInv.
LEMMA RidAppWrite ==
  ASSUME AppTypeOK, RidInv, NEW a \in Apps, NEW k \in {"reply", "event"}, NEW n,
         AppWrite(a, k, n), UNCHANGED <<seqNum, ridKnown>>
  PROVE  RidInv'
<1>1. setups' = setups /\ reqs' = reqs BY DEF AppWrite, appVars, AppTypeOK
<1> QED BY <1>1 DEF RidInv

LEMMA RidInvStep ==
  ASSUME TypeOK, RidInv, [Next]_vars
  PROVE  RidInv'
<1> DEFINE ridVars == <<seqNum, reqs, setups, ridKnown>>
<1> USE DEF TypeOK, AppTypeOK, ServerTypeOK
<1>1. CASE UNCHANGED ridVars BY <1>1 DEF RidInv
<1>2. ASSUME NEW c \in Clients, Deliver(c) PROVE RidInv'
  <2>1. hold[c] \in ServerMsg BY <1>2 DEF Deliver
  <2> DEFINE m == hold[c]
  <2>2. m.conn \in Apps /\ m.kind \in {"setup", "reply", "event"} BY <2>1 DEF ServerMsg
  <2>3. reqs' = reqs /\ seqNum' = seqNum /\ ridKnown \subseteq ridKnown'
    BY <1>2 DEF Deliver, AppWrite, appVars
  <2>4. \A a \in Apps : setups'[a] # setups[a] => a \in ridKnown'
    <3>1. CASE UNCHANGED appVars BY <3>1 DEF appVars
    <3>2. CASE /\ "app" \in found[c] /\ ~("ac" \notin found[c] /\ m.kind # "event")
               /\ AppWrite(m.conn, m.kind, m.seq)
      <4>1. CASE m.kind = "setup"
        BY <1>2, <2>2, <3>2, <4>1 DEF Deliver, RecordsRid, AppWrite, appVars
      <4>2. CASE m.kind # "setup" BY <3>2, <4>2 DEF AppWrite, appVars
      <4> QED BY <4>1, <4>2
    <3> QED BY <1>2, <3>1, <3>2 DEF Deliver
  <2>5. \A a \in Apps : setups[a] > 0 => setups'[a] > 0
    <3>1. \/ setups' = setups
          \/ setups' = [setups EXCEPT ![m.conn] = IF m.kind = "setup" /\ @ < 2 THEN @ + 1 ELSE @]
      BY <1>2, <2>2 DEF Deliver, AppWrite, appVars
    <3> HIDE DEF m
    <3>2. \A b \in Apps : setups[b] \in 0..2 OBVIOUS
    <3>3. ASSUME setups' = [setups EXCEPT ![m.conn] = IF m.kind = "setup" /\ @ < 2 THEN @ + 1 ELSE @],
                 NEW b \in Apps, setups[b] > 0
          PROVE  setups'[b] > 0
      <4>1. CASE b = m.conn
        <5>1. setups'[b] = IF m.kind = "setup" /\ setups[b] < 2 THEN setups[b] + 1
                                                               ELSE setups[b]
          BY <3>3, <4>1
        <5>2. setups[b] > 0 BY <3>3
        <5>3. setups[b] \in 0..2 BY <3>2
        <5> HIDE DEF AppTypeOK, ServerTypeOK
        <5>4. setups[b] \in Nat BY <5>3
        <5> QED BY <5>1, <5>2, <5>4
      <4>2. CASE b # m.conn BY <3>3, <4>2
      <4> QED BY <4>1, <4>2
    <3> QED BY <3>1, <3>3
  <2> QED BY <2>3, <2>4, <2>5 DEF RidInv
<1>3. ASSUME NEW c \in Clients, WriteInjected(c) PROVE RidInv'
  <2>1. hold[c] \in ServerMsg BY <1>3 DEF WriteInjected
  <2> QED BY <1>3, <2>1, RidAppWrite DEF WriteInjected, tables, ServerMsg
<1>4. ASSUME NEW c \in Clients, AcceptClient(c) \/ Handler(c), ~Deliver(c), ~WriteInjected(c)
      PROVE UNCHANGED ridVars
  BY <1>4 DEF Handler, AcceptClient, HelloOk, HelloRejected, ClosePrev, SendResume,
     SnapshotStates, SynthesiseAppConn, SendLive, ClearSynthActive, ReadStamp,
     InjectNothing, CollectPending, ResendSetup, StartReading, ReadFromClient,
     ReadError, Unregister, CloseConn, appVars, tables
<1>5. ASSUME NEW a \in Apps, ReadRequest(a) PROVE RidInv'
  <2>1. seqNum' = [seqNum EXCEPT ![a] = @ + 1] /\ seqNum[a] < Len(reqs[a])
    BY <1>5 DEF ReadRequest
  <2>2. UNCHANGED <<reqs, setups, ridKnown>> BY <1>5 DEF ReadRequest, appVars
  <2>3. \A b \in Apps : seqNum'[b] <= Len(reqs[b]) BY <2>1 DEF RidInv
  <2> QED BY <2>2, <2>3 DEF RidInv
<1>6. ASSUME NEW a \in Apps, FakeReply(a) PROVE RidInv'
  <2>1. UNCHANGED <<seqNum, ridKnown>> BY <1>6 DEF FakeReply, tables
  <2>2. CASE AppWrite(a, "reply", seqNum[a]) BY <2>1, <2>2, RidAppWrite
  <2>3. CASE UNCHANGED appVars BY <1>1, <2>1, <2>3 DEF appVars
  <2> QED BY <1>6, <2>2, <2>3 DEF FakeReply
<1>7. ASSUME NEW a \in Apps, Relay(a), ~ReadRequest(a), ~FakeReply(a)
      PROVE UNCHANGED ridVars
  BY <1>7 DEF Relay, AcceptApp, TrackApp, SetupUnreadable, SendSetup, LookupClient,
     WriteRequest, WriteRequestFails, ReadRequestFails, UntrackApp, CloseApp,
     appVars, tables
<1>8. CASE ServerStep
  BY <1>1, <1>2, <1>3, <1>4, <1>5, <1>6, <1>7, <1>8 DEF ServerStep
<1>9. CASE ClientsStep BY <1>1, <1>9 DEF ClientsStep, appVars, serverVars, tables
<1>10. CASE AppsStep
  <2>1. UNCHANGED <<seqNum, ridKnown>> BY <1>10 DEF AppsStep, serverVars, tables
  <2>2. ASSUME NEW a \in Apps, AppConnect(a) \/ AppQuit(a) PROVE RidInv'
    BY <1>1, <2>1, <2>2 DEF AppConnect, AppQuit
  <2>3. ASSUME NEW a \in Apps, NEW kind \in ReqKind, AppRequest(a, kind) PROVE RidInv'
    <3>1. setups[a] > 0 /\ setups' = setups /\ reqs' = [reqs EXCEPT ![a] = Append(@, kind)]
      BY <2>3 DEF AppRequest
    <3>2. Len(Append(reqs[a], kind)) = Len(reqs[a]) + 1 OBVIOUS
    <3>3. \A b \in Apps : b # a => reqs'[b] = reqs[b] BY <3>1
    <3>4. Len(reqs'[a]) = Len(reqs[a]) + 1 BY <3>1, <3>2
    <3>5. Len(reqs[a]) \in Nat /\ seqNum[a] \in Nat OBVIOUS
    <3> QED BY <2>1, <3>1, <3>3, <3>4, <3>5 DEF RidInv
  <2> QED BY <1>10, <2>2, <2>3 DEF AppsStep
<1>11. CASE UNCHANGED vars BY <1>1, <1>11 DEF vars, appVars, serverVars, tables
<1> QED BY <1>8, <1>9, <1>10, <1>11 DEF Next

\* No application that has made a request is skipped by a synthesis for want of
\* its ridBase, however clients are lost and replaced while it connects
\* (server.go:151-152, 393-400, synthesis.go:34-42).
THEOREM RidAlwaysRecorded == Spec => []RidRecorded
<1>1. Init => RidInv BY DEF Init, AppInit, ServerInit, RidInv
<1>2. TypeOK /\ RidInv /\ [Next]_vars => RidInv' BY RidInvStep
<1>3. TypeOK /\ RidInv => RidRecorded
  BY DEF TypeOK, AppTypeOK, ServerTypeOK, RidInv, RidRecorded
<1> QED BY <1>1, <1>2, <1>3, TypeCorrect, PTL DEF Spec

-----------------------------------------------------------------------------
(* NoRequestBeforeLive.  Queues of messages to a client *)

HasLive(q) == \E j \in 1..Len(q) : q[j].type = "LIVE"

\* NoRequestBeforeLive for a client with queue q that is live iff l.
Gated(q, l) ==
  \A i \in 1..Len(q) : IsRequest(q[i]) => l \/ \E j \in 1..(i - 1) : q[j].type = "LIVE"

\* Reading the first message keeps a queue gated, if reading SESSION_LIVE makes
\* the client live.
LEMMA GatedTail ==
  ASSUME NEW q \in Seq(ClientMsg), q # <<>>, NEW l \in BOOLEAN, NEW k \in BOOLEAN,
         Gated(q, l), l => k, Head(q).type = "LIVE" => k
  PROVE  Gated(Tail(q), k)
<1> SUFFICES ASSUME NEW i \in 1..Len(Tail(q)), IsRequest(Tail(q)[i]), ~k
             PROVE  \E j \in 1..(i - 1) : Tail(q)[j].type = "LIVE"
  BY DEF Gated
<1>1. Len(q) \in Nat /\ Len(q) > 0 /\ Len(Tail(q)) = Len(q) - 1 OBVIOUS
<1>2. \A n \in 1..Len(Tail(q)) : Tail(q)[n] = q[n + 1] BY <1>1
<1>3. i + 1 \in 1..Len(q) BY <1>1
<1>4. IsRequest(q[i + 1]) BY <1>2
<1>5. PICK j \in 1..i : q[j].type = "LIVE" BY <1>3, <1>4 DEF Gated
<1>6. j # 1 BY <1>5
<1>7. j - 1 \in 1..(i - 1) /\ j - 1 \in 1..Len(Tail(q)) BY <1>1, <1>6
<1>8. Tail(q)[j - 1] = q[j] BY <1>2, <1>7
<1> QED BY <1>5, <1>7, <1>8

\* Appending a message that is not a request, or any message once SESSION_LIVE
\* is in the queue, keeps it gated.
LEMMA GatedAppend ==
  ASSUME NEW q \in Seq(ClientMsg), NEW l \in BOOLEAN, NEW m \in ClientMsg,
         Gated(q, l), IsRequest(m) => l \/ HasLive(q)
  PROVE  Gated(Append(q, m), l)
<1> SUFFICES ASSUME NEW i \in 1..Len(Append(q, m)), IsRequest(Append(q, m)[i]), ~l
             PROVE  \E j \in 1..(i - 1) : Append(q, m)[j].type = "LIVE"
  BY DEF Gated
<1>1. Len(q) \in Nat /\ Len(Append(q, m)) = Len(q) + 1 OBVIOUS
<1>2. \A n \in 1..Len(q) : Append(q, m)[n] = q[n] OBVIOUS
<1>3. CASE i \in 1..Len(q)
  <2>1. PICK j \in 1..(i - 1) : q[j].type = "LIVE" BY <1>2, <1>3 DEF Gated
  <2>2. j \in 1..Len(q) BY <1>1, <1>3
  <2> QED BY <1>2, <2>1, <2>2
<1>4. CASE i = Len(q) + 1
  <2>1. Append(q, m)[i] = m BY <1>4
  <2>2. PICK j \in 1..Len(q) : q[j].type = "LIVE" BY <2>1 DEF HasLive
  <2> QED BY <1>1, <1>2, <1>4, <2>2
<1> QED BY <1>1, <1>3, <1>4

\* SESSION_LIVE stays in a queue until it is read.
LEMMA HasLiveKept ==
  ASSUME NEW q \in Seq(ClientMsg), HasLive(q)
  PROVE  /\ \A m \in ClientMsg : HasLive(Append(q, m))
         /\ Head(q).type = "LIVE" \/ HasLive(Tail(q))
         /\ q # <<>>
<1>1. PICK j \in 1..Len(q) : q[j].type = "LIVE" BY DEF HasLive
<1>2. Len(q) \in Nat /\ Len(q) > 0 /\ q # <<>> BY <1>1
<1>3. ASSUME NEW m \in ClientMsg PROVE HasLive(Append(q, m))
  <2>1. j \in 1..Len(Append(q, m)) /\ Append(q, m)[j] = q[j] BY <1>2
  <2> QED BY <1>1, <2>1 DEF HasLive
<1>4. ASSUME Head(q).type # "LIVE" PROVE HasLive(Tail(q))
  <2>1. j # 1 BY <1>1, <1>2, <1>4
  <2>2. Len(Tail(q)) = Len(q) - 1 BY <1>2
  <2>3. j - 1 \in 1..Len(Tail(q)) /\ Tail(q)[j - 1] = q[j] BY <1>2, <2>1, <2>2
  <2> QED BY <1>1, <2>3 DEF HasLive
<1> QED BY <1>2, <1>3, <1>4

\* A queue that gets SESSION_LIVE has it.
LEMMA LiveAppended ==
  ASSUME NEW q \in Seq(ClientMsg), NEW m \in ClientMsg, m.type = "LIVE"
  PROVE  HasLive(Append(q, m))
<1>1. Len(q) + 1 \in 1..Len(Append(q, m)) /\ Append(q, m)[Len(q) + 1] = m OBVIOUS
<1> QED BY <1>1 DEF HasLive

-----------------------------------------------------------------------------
(* What a step does to the queue of one client. *)

\* A message that is not a request, and asks for nothing, may arrive.
Plain(m) == ~IsRequest(m) /\ (m.type = "DATA" => ~m.query)
Added(c) ==
  \/ toClient'[c] = toClient[c]
  \/ \E m \in ClientMsg : Plain(m) /\ toClient'[c] = Append(toClient[c], m)

\* A message that is not a request arrives, is read, or is lost with the client.
Quiet(c) ==
  \/ Added(c)
  \/ toClient'[c] = <<>> /\ ~cliOpen'[c]
  \/ /\ toClient[c] # <<>> /\ toClient'[c] = Tail(toClient[c])
     /\ Head(toClient[c]).type = "LIVE" => live'[c]

\* The relay of a writes a request to c.
Relayed(a, c) ==
  /\ apc[a] = "write" /\ dst[a] = c /\ srvOpen[c]
  /\ \E m \in ClientMsg : toClient'[c] = IF cliOpen[c] THEN Append(toClient[c], m)
                                                     ELSE toClient[c]

\* Ends of a connection are not reopened, and a live client stays live.
Monotone(c) ==
  /\ srvOpen'[c] => srvOpen[c]
  /\ cliOpen'[c] => cliOpen[c]
  /\ live[c] => live'[c]

\* A write by WriteToClient or sendToClient adds a plain message or nothing.
LEMMA WriteToCurrentAdds ==
  ASSUME TypeOK, NEW c \in Clients, NEW m \in ClientMsg, Plain(m), WriteToCurrent(m)
  PROVE  Added(c)
<1> USE DEF TypeOK, WireTypeOK, ServerTypeOK
<1>1. CASE clientConn = NoClient BY <1>1 DEF WriteToCurrent, Added
<1>2. CASE clientConn \in Clients
  <2>1. toClient' = toClient \/ toClient' = [toClient EXCEPT ![clientConn] = Append(@, m)]
    BY <1>2, NoClientAssumption DEF WriteToCurrent, WriteIgnored
  <2>2. toClient'[c] = toClient[c] \/ toClient'[c] = Append(toClient[c], m)
    BY <1>2, <2>1
  <2> QED BY <2>2 DEF Added
<1> QED BY <1>1, <1>2

\* What a handler writes is plain.
LEMMA HandlerAdds ==
  ASSUME TypeOK, NEW d \in Clients, AcceptClient(d) \/ Handler(d), NEW c \in Clients
  PROVE  Added(c)
<1> USE DEF TypeOK, WireTypeOK, ServerTypeOK
<1>1. CASE UNCHANGED toClient BY <1>1 DEF Added
<1>2. CASE SendResume(d)
  <2>1. SessionResume \in ClientMsg /\ Plain(SessionResume)
    BY DEF SessionResume, ClientMsg, Plain, IsRequest
  <2> QED BY <1>2, <2>1, WriteToCurrentAdds DEF SendResume
<1>3. CASE SynthesiseAppConn(d)
  <2>1. PICK a \in todo[d] :
          IF Skipped(a) THEN UNCHANGED toClient
          ELSE WriteToCurrent(X11Setup(a, seqNum[a], Tracked(a)))
    BY <1>3 DEF SynthesiseAppConn
  <2>2. a \in Apps /\ seqNum[a] \in Nat /\ Tracked(a) \in SUBSET Nat BY TrackedType
  <2>3. X11Setup(a, seqNum[a], Tracked(a)) \in ClientMsg
    BY <2>2 DEF X11Setup, ClientMsg
  <2>4. Plain(X11Setup(a, seqNum[a], Tracked(a))) BY DEF X11Setup, Plain, IsRequest
  <2> QED BY <1>1, <2>1, <2>3, <2>4, WriteToCurrentAdds
<1>4. CASE SendLive(d)
  <2> DEFINE f == [a \in Apps |-> IF a \in states[d] THEN seqNum[a] ELSE 0]
  <2>1. f \in [Apps -> Nat] OBVIOUS
  <2>2. SessionLive(states[d], f) \in ClientMsg /\ Plain(SessionLive(states[d], f))
    BY <2>1 DEF SessionLive, ClientMsg, Plain, IsRequest
  <2> QED BY <1>4, <2>2, WriteToCurrentAdds DEF SendLive
<1>5. CASE ResendSetup(d)
  <2>1. PICK a \in todo[d] : WriteToCurrent(X11Data(a, 0, FALSE))
    BY <1>5 DEF ResendSetup
  <2>2. X11Data(a, 0, FALSE) \in ClientMsg /\ Plain(X11Data(a, 0, FALSE))
    BY DEF X11Data, ClientMsg, Plain, IsRequest
  <2> QED BY <2>1, <2>2, WriteToCurrentAdds
<1> QED
  BY <1>1, <1>2, <1>3, <1>4, <1>5 DEF Handler, AcceptClient, HelloOk, HelloRejected,
     ClosePrev, SnapshotStates, ClearSynthActive, ReadStamp, InjectNothing,
     WriteInjected, CollectPending, StartReading, ReadFromClient, Deliver, ReadError,
     Unregister, CloseConn, wireVars

\* What a relay writes is plain, or a request to the client it looked up.
LEMMA RelayAdds ==
  ASSUME TypeOK, NEW a \in Apps, Relay(a), NEW c \in Clients
  PROVE  Added(c) \/ Relayed(a, c)
<1> USE DEF TypeOK, WireTypeOK, ServerTypeOK
<1>1. CASE UNCHANGED toClient BY <1>1 DEF Added
<1>2. CASE SendSetup(a)
  <2>1. X11Data(a, 0, FALSE) \in ClientMsg /\ Plain(X11Data(a, 0, FALSE))
    BY DEF X11Data, ClientMsg, Plain, IsRequest
  <2> QED BY <1>2, <2>1, WriteToCurrentAdds DEF SendSetup
<1>3. CASE WriteRequest(a)
  <2> DEFINE m == X11Data(a, seqNum[a], IsQuery(a))
  <2>1. m \in ClientMsg BY DEF X11Data, ClientMsg, IsQuery
  <2>2. /\ srvOpen[dst[a]]
        /\ toClient' = IF cliOpen[dst[a]] THEN [toClient EXCEPT ![dst[a]] = Append(@, m)]
                                          ELSE toClient
    BY <1>3 DEF WriteRequest, Write
  <2>3. CASE dst[a] = c
    <3>1. toClient'[c] = IF cliOpen[c] THEN Append(toClient[c], m) ELSE toClient[c]
      BY <2>2, <2>3
    <3> HIDE DEF m
    <3> QED BY <1>3, <2>1, <2>2, <2>3, <3>1 DEF Relayed, WriteRequest
  <2>4. CASE dst[a] # c BY <2>2, <2>4 DEF Added
  <2> QED BY <2>3, <2>4
<1> QED
  BY <1>1, <1>2, <1>3 DEF Relay, AcceptApp, TrackApp, SetupUnreadable, ReadRequest,
     LookupClient, WriteRequestFails, WriteError, FakeReply, ReadRequestFails,
     UntrackApp, CloseApp, wireVars

\* What a client reads is quiet, and SESSION_LIVE makes it live.
LEMMA ClientQuiet ==
  ASSUME TypeOK, NEW d \in Clients, ClientStep(d) \/ ClientCrash(d), NEW c \in Clients
  PROVE  Quiet(c) /\ Monotone(c)
<1> USE DEF TypeOK, WireTypeOK, ClientTypeOK, Quiet, Added, Monotone
<1>1. ASSUME NEW m \in Inbox(d), Consume(d), live' = live \/ live' = [live EXCEPT ![d] = TRUE],
             m.type = "LIVE" => live'[d]
      PROVE  Quiet(c) /\ Monotone(c)
  <2>1. toClient[d] # <<>> /\ m = Head(toClient[d]) BY DEF Inbox
  <2>2. toClient' = [toClient EXCEPT ![d] = Tail(@)] /\ srvOpen' = srvOpen /\ cliOpen' = cliOpen
    BY <1>1 DEF Consume
  <2>3. Monotone(c) BY <1>1, <2>2
  <2>4. CASE c = d BY <1>1, <2>1, <2>2, <2>3, <2>4
  <2>5. CASE c # d BY <2>2, <2>3, <2>5
  <2> QED BY <2>4, <2>5
<1>2. CASE RecvIgnored(d)
  <2>1. PICK m \in Inbox(d) : m.type = "RESUME" \/ (live[d] /\ m.type \in {"SETUP", "LIVE"})
    BY <1>2 DEF RecvIgnored
  <2> QED BY <1>1, <1>2, <2>1 DEF RecvIgnored, clientVars
<1>3. CASE RecvX11Setup(d)
  <2>1. PICK m \in Inbox(d) : m.type = "SETUP" BY <1>3 DEF RecvX11Setup
  <2> QED BY <1>1, <1>3, <2>1 DEF RecvX11Setup
<1>4. CASE RecvLive(d)
  <2>1. PICK m \in Inbox(d) : m.type = "LIVE" BY <1>4 DEF RecvLive
  <2> QED BY <1>1, <1>4, <2>1 DEF RecvLive
<1>5. CASE RecvSetupBytes(d)
  <2>1. PICK m \in Inbox(d) : m.type = "DATA" BY <1>5 DEF RecvSetupBytes
  <2> QED BY <1>1, <1>5, <2>1 DEF RecvSetupBytes
<1>6. CASE RecvRequest(d)
  <2>1. PICK m \in Inbox(d) : m.type = "DATA" BY <1>6 DEF RecvRequest, IsRequest
  <2> QED BY <1>1, <1>6, <2>1 DEF RecvRequest
<1>7. CASE Gone(d) BY <1>7 DEF Gone
<1> QED
  BY <1>2, <1>3, <1>4, <1>5, <1>6, <1>7 DEF ClientStep, ClientExit, ClientCrash

\* All steps.
LEMMA QueueStep ==
  ASSUME TypeOK, [Next]_vars, NEW c \in Clients
  PROVE  /\ Quiet(c) \/ \E a \in Apps : Relayed(a, c)
         /\ hpc[c] # "idle" => Monotone(c)
<1> USE DEF TypeOK, WireTypeOK, ServerTypeOK
<1>1. ASSUME NEW d \in Clients, AcceptClient(d) \/ Handler(d), live' = live, hpc[c] # "idle"
      PROVE  Monotone(c)
  BY <1>1 DEF Monotone, Handler, AcceptClient, HelloOk, HelloRejected,
     ClosePrev, SendResume, SnapshotStates, SynthesiseAppConn, SendLive,
     ClearSynthActive, ReadStamp, InjectNothing, WriteInjected, CollectPending,
     ResendSetup, StartReading, ReadFromClient, Deliver, ReadError, Unregister,
     CloseConn, wireVars
<1>2. ASSUME NEW a \in Apps, Relay(a) PROVE UNCHANGED <<srvOpen, cliOpen>>
  BY <1>2 DEF Relay, AcceptApp, TrackApp, SetupUnreadable, SendSetup, ReadRequest,
     LookupClient, WriteRequest, WriteRequestFails, FakeReply, ReadRequestFails,
     UntrackApp, CloseApp, wireVars
<1>3. CASE ServerStep
  <2>1. live' = live BY <1>3 DEF ServerStep, clientVars
  <2>2. CASE \E d \in Clients : AcceptClient(d) \/ Handler(d)
    BY <1>1, <2>1, <2>2, HandlerAdds DEF Quiet
  <2>3. CASE \E a \in Apps : Relay(a)
    BY <1>2, <2>1, <2>3, RelayAdds DEF Quiet, Monotone
  <2> QED BY <1>3, <2>2, <2>3 DEF ServerStep
<1>4. CASE ClientsStep BY <1>4, ClientQuiet DEF ClientsStep
<1>5. CASE AppsStep \/ UNCHANGED vars
  BY <1>5 DEF AppsStep, vars, wireVars, clientVars, Quiet, Added, Monotone
<1> QED BY <1>3, <1>4, <1>5 DEF Next

-----------------------------------------------------------------------------
\* SESSION_LIVE has been written to c, or nothing can be written to it.
LiveSent(c) == live[c] \/ ~srvOpen[c] \/ ~cliOpen[c] \/ HasLive(toClient[c])

\* The gate is open only for a client that was sent SESSION_LIVE, or was
\* resumed beside another; and the relays that passed it are about to write to
\* such a client.
GateInv ==
  /\ \A c \in Clients : clientConn = c => hpc[c] \in Registered
  /\ \A a \in Apps, c \in Clients : apc[a] = "write" /\ dst[a] = c => hpc[c] \notin {"idle", "hello"}
  /\ \A c \in Clients \ overlapped :
       /\ clientConn = c /\ ~synthActive => LiveSent(c)
       /\ hpc[c] = "clear" => LiveSent(c)
       /\ \A a \in Apps : apc[a] = "write" /\ dst[a] = c => LiveSent(c)
       /\ Gated(toClient[c], live[c])

\* Once true of a client whose handler runs, LiveSent stays true.
LEMMA LiveSentKept ==
  ASSUME TypeOK, [Next]_vars, NEW c \in Clients, hpc[c] # "idle", LiveSent(c)
  PROVE  LiveSent(c)'
<1>1. Monotone(c) /\ (Quiet(c) \/ \E a \in Apps : Relayed(a, c)) BY QueueStep
<1>2. toClient[c] \in Seq(ClientMsg) BY DEF TypeOK, WireTypeOK
<1>3. CASE live[c] \/ ~srvOpen[c] \/ ~cliOpen[c]
  BY <1>1, <1>3 DEF Monotone, LiveSent
<1>4. CASE HasLive(toClient[c])
  <2> DEFINE q == toClient[c]
             r == toClient'[c]
  <2>1. \/ r = q \/ ~cliOpen'[c]
        \/ r = Tail(q) /\ (Head(q).type = "LIVE" => live'[c])
        \/ \E m \in ClientMsg : r = Append(q, m)
    BY <1>1 DEF Quiet, Added, Plain, Relayed
  <2>2. HasLive(r) \/ ~cliOpen'[c] \/ live'[c]
    <3> HIDE DEF q, r
    <3>1. q \in Seq(ClientMsg) /\ HasLive(q) BY <1>2, <1>4 DEF q
    <3> QED BY <2>1, <3>1, HasLiveKept
  <2> QED BY <2>2 DEF LiveSent
<1> QED BY <1>3, <1>4 DEF LiveSent

\* The queues stay gated: only a relay writes a request, and only to a client
\* that was sent SESSION_LIVE.
LEMMA GatedKept ==
  ASSUME TypeOK, [Next]_vars, GateInv, NEW c \in Clients, c \notin overlapped
  PROVE  Gated(toClient[c], live[c])'
<1> DEFINE q == toClient[c]
           r == toClient'[c]
           l == live[c]
           k == live'[c]
<1>1. q \in Seq(ClientMsg) /\ l \in BOOLEAN /\ k \in BOOLEAN /\ r \in Seq(ClientMsg)
  BY NextType DEF TypeOK, WireTypeOK, ClientTypeOK
<1>2. Gated(q, l) BY DEF GateInv
<1>3. l => k
  <2>1. CASE hpc[c] # "idle" BY <2>1, QueueStep DEF Monotone
  <2>2. CASE ~\E d \in Clients : ClientStep(d) \/ ClientCrash(d)
    BY <2>2 DEF Next, ServerStep, ClientsStep, AppsStep, clientVars, vars
  <2>3. CASE \E d \in Clients : ClientStep(d) \/ ClientCrash(d)
    BY <2>3, ClientQuiet DEF Monotone
  <2> QED BY <2>2, <2>3
<1>4. CASE Quiet(c)
  <2>1. \/ r = q \/ r = <<>>
        \/ q # <<>> /\ r = Tail(q) /\ (Head(q).type = "LIVE" => k)
        \/ \E m \in ClientMsg : ~IsRequest(m) /\ r = Append(q, m)
    BY <1>4 DEF Quiet, Added, Plain
  <2> SUFFICES Gated(r, k) OBVIOUS
  <2> HIDE DEF q, r, l, k
  <2>2. CASE r = q BY <1>2, <1>3, <2>2 DEF Gated
  <2>3. CASE r = <<>> BY <2>3 DEF Gated
  <2>4. CASE q # <<>> /\ r = Tail(q) /\ (Head(q).type = "LIVE" => k)
    BY <1>1, <1>2, <1>3, <2>4, GatedTail
  <2>5. CASE \E m \in ClientMsg : ~IsRequest(m) /\ r = Append(q, m)
    <3>1. Gated(q, k) BY <1>2, <1>3 DEF Gated
    <3> QED BY <1>1, <2>5, <3>1, GatedAppend
  <2> QED BY <2>1, <2>2, <2>3, <2>4, <2>5
<1>5. ASSUME NEW a \in Apps, Relayed(a, c) PROVE Gated(toClient[c], live[c])'
  <2>1. LiveSent(c) /\ srvOpen[c] BY <1>5 DEF GateInv, Relayed
  <2>2. PICK m \in ClientMsg : r = IF cliOpen[c] THEN Append(q, m) ELSE q
    BY <1>5 DEF Relayed
  <2>3. cliOpen[c] => l \/ HasLive(q) BY <2>1 DEF LiveSent
  <2> HIDE DEF q, r, l, k
  <2>4. Gated(q, k) BY <1>2, <1>3 DEF Gated
  <2>5. cliOpen[c] => Gated(Append(q, m), k) BY <1>1, <1>3, <2>3, <2>4, GatedAppend
  <2>6. Gated(r, k) BY <2>2, <2>4, <2>5
  <2> QED BY <2>6 DEF r, k
<1> QED BY <1>4, <1>5, QueueStep

\* After SESSION_LIVE was composed for the current client, it has been sent it.
LEMMA LiveComposed ==
  ASSUME TypeOK, NEW c \in Clients, SendLive(c), clientConn = c
  PROVE  LiveSent(c)'
<1> USE DEF TypeOK, WireTypeOK, ServerTypeOK
<1> DEFINE f == [a \in Apps |-> IF a \in states[c] THEN seqNum[a] ELSE 0]
           m == SessionLive(states[c], f)
<1>1. f \in [Apps -> Nat] OBVIOUS
<1>2. m \in ClientMsg /\ m.type = "LIVE" BY <1>1 DEF SessionLive, ClientMsg
<1>3. toClient' = IF srvOpen[c] /\ cliOpen[c] THEN [toClient EXCEPT ![c] = Append(@, m)]
                                              ELSE toClient
  BY NoClientAssumption DEF SendLive, WriteToCurrent, WriteIgnored
<1>4. srvOpen' = srvOpen /\ cliOpen' = cliOpen BY DEF SendLive
<1>5. CASE srvOpen[c] /\ cliOpen[c]
  <2> HIDE DEF m
  <2>1. toClient'[c] = Append(toClient[c], m) BY <1>3, <1>5
  <2>2. toClient[c] \in Seq(ClientMsg) OBVIOUS
  <2> QED BY <1>2, <2>1, <2>2, LiveAppended DEF LiveSent
<1>6. CASE ~(srvOpen[c] /\ cliOpen[c]) BY <1>4, <1>6 DEF LiveSent
<1> QED BY <1>5, <1>6

\* A relay that looks up a client finds the gate open.
LEMMA LookupStep ==
  ASSUME TypeOK, [Next]_vars, NEW a \in Apps, NEW c \in Clients, apc'[a] = "write",
         dst'[a] = c
  PROVE  (apc[a] = "write" /\ dst[a] = c) \/ (clientConn = c /\ ~synthActive)
<1> USE DEF TypeOK, ServerTypeOK
<1>1. CASE ~\E b \in Apps : Relay(b)
  <2>1. UNCHANGED <<apc, dst>>
    BY <1>1 DEF Next, ServerStep, ClientsStep, AppsStep, vars, serverVars, relays, Handler,
       AcceptClient, HelloOk, HelloRejected, ClosePrev, SendResume, SnapshotStates,
       SynthesiseAppConn, SendLive, ClearSynthActive, ReadStamp, InjectNothing,
       WriteInjected, CollectPending, ResendSetup, StartReading, ReadFromClient, Deliver,
       ReadError, Unregister, CloseConn
  <2> QED BY <2>1
<1>2. ASSUME NEW b \in Apps, LookupClient(b)
      PROVE  (apc[a] = "write" /\ dst[a] = c) \/ (clientConn = c /\ ~synthActive)
  BY <1>2 DEF LookupClient, GotoApp, Shut
<1>3. ASSUME NEW b \in Apps, Relay(b), ~LookupClient(b)
      PROVE  apc[a] = "write" /\ dst[a] = c
  BY <1>3 DEF Relay, AcceptApp, TrackApp, SetupUnreadable, SendSetup, ReadRequest,
     WriteRequest, WriteRequestFails, FakeReply, ReadRequestFails, UntrackApp, CloseApp,
     GotoApp, AfterWrite, relays
<1> QED BY <1>1, <1>2, <1>3

\* How a step moves what GateInv is about.
LEMMA RegistryStep ==
  ASSUME TypeOK, HandoverInv, [Next]_vars, NEW c \in Clients
  PROVE  /\ clientConn' = c =>
              \/ /\ clientConn = c
                 /\ ~synthActive' => ~synthActive \/ hpc[c] = "clear" \/ c \in overlapped
              \/ synthActive' /\ hpc'[c] \in Registered
         /\ hpc[c] \in Registered => hpc'[c] \in Registered \/ clientConn' # c
         /\ hpc[c] \notin {"idle", "hello"} => hpc'[c] \notin {"idle", "hello"}
         /\ hpc'[c] = "clear" =>
              hpc[c] = "clear" \/ (SendLive(c) /\ (clientConn = c \/ c \in overlapped))
<1> DEFINE Goal == /\ clientConn' = c =>
                        \/ /\ clientConn = c
                           /\ ~synthActive' => ~synthActive \/ hpc[c] = "clear" \/ c \in overlapped
                        \/ synthActive' /\ hpc'[c] \in Registered
                   /\ hpc[c] \in Registered => hpc'[c] \in Registered \/ clientConn' # c
                   /\ hpc[c] \notin {"idle", "hello"} => hpc'[c] \notin {"idle", "hello"}
<1> USE DEF TypeOK, ServerTypeOK, Goto
<1>1. CASE ~\E d \in Clients : AcceptClient(d) \/ Handler(d)
  BY <1>1, OtherSteps DEF handoverVars
<1>2. ASSUME NEW d \in Clients, AcceptClient(d) \/ Handler(d)
      PROVE  Goal
  <2> USE DEF Registered
  <2>1. CASE AcceptClient(d) BY <2>1 DEF AcceptClient, registry
  <2>2. CASE HelloOk(d) BY <2>2 DEF HelloOk
  <2>3. CASE HelloRejected(d) BY <2>3 DEF HelloRejected, registry
  <2>4. CASE ClosePrev(d) BY <2>4 DEF ClosePrev, registry
  <2>5. CASE ClearSynthActive(d)
    <3>1. /\ hpc[d] = "clear" /\ clientConn' = clientConn
          /\ hpc' = [hpc EXCEPT ![d] = "inject"]
      BY <2>5 DEF ClearSynthActive
    <3>2. clientConn = c => c = d \/ c \in overlapped BY <3>1 DEF HandoverInv, BeforeLive
    <3> QED BY <3>1, <3>2
  <2>6. CASE Unregister(d) BY <2>6, NoClientAssumption DEF Unregister, AfterUnregister
  <2>7. CASE CloseConn(d) BY <2>7 DEF CloseConn, registry
  <2>8. CASE QuietStep(d) BY <2>8 DEF QuietStep, handoverVars, BeforeLive
  <2> QED
    BY <1>2, <2>1, <2>2, <2>3, <2>4, <2>5, <2>6, <2>7, <2>8, HandlerSteps
<1>3. ASSUME NEW d \in Clients, AcceptClient(d) \/ Handler(d), hpc'[c] = "clear"
      PROVE  hpc[c] = "clear" \/ (SendLive(c) /\ (clientConn = c \/ c \in overlapped))
  <2>1. CASE SendLive(d)
    <3>1. clientConn = d \/ d \in overlapped BY <2>1 DEF SendLive, HandoverInv, BeforeLive
    <3>2. c = d \/ hpc[c] = "clear" BY <1>3, <2>1 DEF SendLive
    <3> QED BY <2>1, <3>1, <3>2
  <2>2. CASE ~SendLive(d)
    <3>1. CASE AcceptClient(d) \/ HelloOk(d) \/ HelloRejected(d) \/ ClosePrev(d) \/ SendResume(d)
      BY <1>3, <3>1 DEF AcceptClient, HelloOk, HelloRejected, ClosePrev, SendResume
    <3>2. CASE SnapshotStates(d) \/ SynthesiseAppConn(d) \/ ClearSynthActive(d)
      BY <1>3, <3>2 DEF SnapshotStates, SynthesiseAppConn, ClearSynthActive
    <3>3. CASE ReadStamp(d) \/ InjectNothing(d) \/ WriteInjected(d)
      BY <1>3, <3>3 DEF ReadStamp, InjectNothing, WriteInjected
    <3>4. CASE CollectPending(d) \/ ResendSetup(d) \/ StartReading(d)
      BY <1>3, <3>4 DEF CollectPending, ResendSetup, StartReading
    <3>5. CASE ReadFromClient(d) \/ Deliver(d) \/ ReadError(d)
      BY <1>3, <3>5 DEF ReadFromClient, Deliver, ReadError
    <3>6. CASE Unregister(d) \/ CloseConn(d)
      BY <1>3, <3>6 DEF Unregister, CloseConn
    <3> QED BY <1>3, <2>2, <3>1, <3>2, <3>3, <3>4, <3>5, <3>6 DEF Handler
  <2> QED BY <2>1, <2>2
<1> QED BY <1>1, <1>2, <1>3

LEMMA GateInvStep ==
  ASSUME TypeOK, HandoverInv, GateInv, [Next]_vars
  PROVE  GateInv'
<1>0. overlapped \subseteq overlapped' BY OverlapStep
<1>1. ASSUME NEW c \in Clients, clientConn' = c PROVE hpc'[c] \in Registered
  BY <1>1, RegistryStep DEF GateInv
<1>2. ASSUME NEW a \in Apps, NEW c \in Clients, apc'[a] = "write", dst'[a] = c
      PROVE  hpc'[c] \notin {"idle", "hello"}
  <2>1. hpc[c] \notin {"idle", "hello"} BY <1>2, LookupStep DEF GateInv, Registered
  <2> QED BY <2>1, RegistryStep
<1>3. ASSUME NEW c \in Clients, c \notin overlapped', clientConn' = c, ~synthActive'
      PROVE  LiveSent(c)'
  <2>1. clientConn = c /\ (~synthActive \/ hpc[c] = "clear") BY <1>0, <1>3, RegistryStep
  <2>2. LiveSent(c) /\ hpc[c] # "idle" BY <1>0, <1>3, <2>1 DEF GateInv, Registered
  <2> QED BY <2>2, LiveSentKept
<1>4. ASSUME NEW c \in Clients, c \notin overlapped', hpc'[c] = "clear" PROVE LiveSent(c)'
  <2>1. CASE hpc[c] = "clear"
    <3>1. LiveSent(c) BY <1>0, <1>4, <2>1 DEF GateInv
    <3> QED BY <2>1, <3>1, LiveSentKept
  <2>2. CASE SendLive(c) /\ clientConn = c BY <2>2, LiveComposed
  <2> QED BY <1>0, <1>4, <2>1, <2>2, RegistryStep
<1>5. ASSUME NEW a \in Apps, NEW c \in Clients, c \notin overlapped', apc'[a] = "write",
             dst'[a] = c
      PROVE  LiveSent(c)'
  <2>1. hpc[c] # "idle" /\ LiveSent(c)
    BY <1>0, <1>5, LookupStep DEF GateInv, Registered
  <2> QED BY <2>1, LiveSentKept
<1>6. \A c \in Clients : c \notin overlapped' => Gated(toClient[c], live[c])'
  BY <1>0, GatedKept
<1> QED BY <1>1, <1>2, <1>3, <1>4, <1>5, <1>6 DEF GateInv

\* The gate keeps live requests off a client that is being resumed alone,
\* whatever relays, handlers and clients do in the meantime and whenever others
\* connect (server.go:334-337, 235-243).
THEOREM NothingBeforeLive == Spec => []NoRequestBeforeLive
<1>1. Init => HandoverInv
  BY DEF Init, ServerInit, HandoverInv, BeforeLive
<1>2. Init => GateInv
  BY NoClientAssumption
  DEF Init, ServerInit, WireInit, ClientInit, GateInv, Gated
<1>3. TypeOK /\ HandoverInv /\ [Next]_vars => HandoverInv' BY HandoverInvStep
<1>4. TypeOK /\ HandoverInv /\ GateInv /\ [Next]_vars => GateInv' BY GateInvStep
<1>5. GateInv => NoRequestBeforeLive BY DEF GateInv, Gated, NoRequestBeforeLive
<1> QED BY <1>1, <1>2, <1>3, <1>4, <1>5, TypeCorrect, PTL DEF Spec
=============================================================================
