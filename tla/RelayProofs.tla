----------------------------- MODULE RelayProofs -----------------------------
(***************************************************************************)
(* AnsweredOnce, NothingForgotten, RequestsHaveConnections and             *)
(* FreshRepliesExact for every set of clients and applications and every   *)
(* number of requests.                                                     *)
(***************************************************************************)
EXTENDS ProxxxyProofs

-----------------------------------------------------------------------------
(* AnsweredOnce.  A query is in one place at a time: in its application's  *)
(* socket, with the relay that read it, under way to a client, as a reply  *)
(* under way back, or with the handler that is about to deliver it.  Each  *)
(* place is a triple: what it is, of whom, and the position there.         *)

Asks(m, a) == m.type = "DATA" /\ m.conn = a /\ m.query
Answers(m, a) == m.conn = a /\ m.kind = "reply"

\* Where a relay has a request in its hands.
Working == {"lookup", "write", "dropped"}

InSocket(a) ==
  {<<"socket", a, n>> : n \in {m \in seqNum[a] + 1..Len(reqs[a]) : reqs[a][m] = "query"}}
InRelay(a) == {p \in {<<"relay", a, 0>>} : apc[a] \in Working /\ IsQuery(a)}
Sent(a) ==
  UNION {{<<"sent", c, i>> : i \in {j \in 1..Len(toClient[c]) : Asks(toClient[c][j], a)}} :
         c \in Clients}
Returned(a) ==
  UNION {{<<"returned", c, i>> : i \in {j \in 1..Len(toServer[c]) : Answers(toServer[c][j], a)}} :
         c \in Clients}
InHandler(a) ==
  {<<"handler", c, 0>> : c \in {d \in Clients : hpc[d] = "deliver" /\ Answers(hold[d], a)}}
Places(a) == InSocket(a) \cup InRelay(a) \cup Sent(a) \cup Returned(a) \cup InHandler(a)

AtMostOne(P) == \A p, q \in P : p = q
OnceFor(a) == AtMostOne(Places(a)) /\ (Places(a) # {} => waiting[a] # 0)
OnceInv ==
  \A a \in Apps : /\ apc[a] \in Working => seqNum[a] \in 1..Len(reqs[a])
                  /\ OnceFor(a)

\* What is in one place at most stays so if it moves, or is copied by a function.
Follows(P, Q, f, old, new) ==
  \A p \in Q : \/ p = new /\ old \in P
               \/ \E q \in P \ {old} : p = f[q]

LEMMA OneLeft ==
  ASSUME NEW P, AtMostOne(P), NEW Q, NEW f, NEW old, NEW new, Follows(P, Q, f, old, new)
  PROVE  AtMostOne(Q) /\ (Q # {} => P # {})
<1> USE DEF Follows
<1>1. ASSUME NEW p \in Q PROVE P # {} BY <1>1
<1>2. ASSUME NEW p \in Q, NEW q \in Q PROVE p = q
  <2>1. CASE old \in P BY <2>1, <1>2 DEF AtMostOne
  <2>2. CASE old \notin P
    <3>1. PICK x \in P : p = f[x] BY <1>2, <2>2
    <3>2. PICK y \in P : q = f[y] BY <1>2, <2>2
    <3> QED BY <3>1, <3>2 DEF AtMostOne
  <2> QED BY <2>1, <2>2
<1> QED BY <1>1, <1>2 DEF AtMostOne

\* A step that leaves a query where it is, or ends it.
LEMMA Fewer ==
  ASSUME NEW a \in Apps, OnceFor(a), Places(a)' \subseteq Places(a),
         waiting'[a] = waiting[a] \/ Places(a)' = {}
  PROVE  OnceFor(a)'
BY DEF OnceFor, AtMostOne

\* A step that moves it.
LEMMA Moved ==
  ASSUME NEW a \in Apps, OnceFor(a), NEW old, NEW new,
         Places(a)' \subseteq (Places(a) \ {old}) \cup {new},
         new \in Places(a)' => old \in Places(a), waiting'[a] = waiting[a]
  PROVE  OnceFor(a)'
BY DEF OnceFor, AtMostOne

\* A step that removes the first message of a queue (kind, c), and may put what it
\* asks or answers elsewhere.
Shifted(kind, c, q) == IF q[1] = kind /\ q[2] = c THEN <<kind, c, q[3] - 1>> ELSE q

LEMMA Taken ==
  ASSUME NEW a \in Apps, OnceFor(a), NEW kind, NEW c, NEW new,
         \A p \in Places(a)' :
            \/ p = new /\ <<kind, c, 1>> \in Places(a)
            \/ \E q \in Places(a) \ {<<kind, c, 1>>} : p = Shifted(kind, c, q),
         waiting'[a] = waiting[a]
  PROVE  OnceFor(a)'
<1> DEFINE f == [q \in Places(a) |-> Shifted(kind, c, q)]
           P == Places(a)
           Q == Places(a)'
<1>1. AtMostOne(P) /\ (P # {} => waiting[a] # 0) BY DEF OnceFor
<1>2. \A q \in P : f[q] = Shifted(kind, c, q) OBVIOUS
<1>3. \A p \in Q : \/ p = new /\ <<kind, c, 1>> \in P
                   \/ \E q \in P \ {<<kind, c, 1>>} : p = Shifted(kind, c, q)
  OBVIOUS
<1> HIDE DEF f, P, Q
<1>4. Follows(P, Q, f, <<kind, c, 1>>, new) BY <1>2, <1>3 DEF Follows
<1>5. AtMostOne(Q) /\ (Q # {} => P # {}) BY <1>1, <1>4, OneLeft
<1> QED BY <1>1, <1>5 DEF OnceFor, AtMostOne, P, Q

-----------------------------------------------------------------------------
(* The places a step leaves alone, and the ones it empties *)

LEMMA AddedSends ==
  ASSUME TypeOK, NEW a \in Apps, \A c \in Clients : Added(c)
  PROVE  Sent(a)' \subseteq Sent(a)
<1> SUFFICES ASSUME NEW c \in Clients, NEW i \in 1..Len(toClient'[c]), Asks(toClient'[c][i], a)
             PROVE  i \in 1..Len(toClient[c]) /\ Asks(toClient[c][i], a)
  BY DEF Sent
<1>1. toClient[c] \in Seq(ClientMsg) BY DEF TypeOK, WireTypeOK
<1>2. ASSUME NEW m \in ClientMsg, Plain(m), toClient'[c] = Append(toClient[c], m)
      PROVE  i \in 1..Len(toClient[c]) /\ Asks(toClient[c][i], a)
  <2>1. ~Asks(m, a) BY <1>2 DEF Plain, Asks
  <2>2. i \in 1..Len(toClient[c]) + 1 BY <1>1, <1>2
  <2>3. i # Len(toClient[c]) + 1 BY <1>1, <1>2, <2>1
  <2>4. i \in 1..Len(toClient[c]) BY <1>1, <2>2, <2>3
  <2> QED BY <1>1, <1>2, <2>4
<1> QED BY <1>2 DEF Added

LEMMA HandlerPlaces ==
  ASSUME NEW a \in Apps, ASSUME NEW c \in Clients, hpc'[c] = "deliver"
                         PROVE  hpc[c] = "deliver" /\ hold'[c] = hold[c]
  PROVE  InHandler(a)' \subseteq InHandler(a)
BY DEF InHandler

LEMMA RelayPlaces ==
  ASSUME NEW a \in Apps, reqs'[a] = reqs[a], seqNum'[a] = seqNum[a],
         apc'[a] \in Working => apc[a] \in Working
  PROVE  InRelay(a)' \subseteq InRelay(a) /\ InSocket(a)' = InSocket(a)
BY DEF InRelay, InSocket, IsQuery

-----------------------------------------------------------------------------
(* AnsweredOnce: the steps of a handler *)

LEMMA OnceQuietHandler ==
  ASSUME TypeOK, OnceInv, NEW c \in Clients, AcceptClient(c) \/ Handler(c),
         ~ReadFromClient(c), ~Deliver(c), NEW a \in Apps
  PROVE  OnceFor(a)'
<1> USE DEF TypeOK, ServerTypeOK, wireVars, appVars, registry, tables, locals, relays, Goto
<1>1. /\ UNCHANGED <<toServer, reqs, seqNum, apc, waiting>>
      /\ \A d \in Clients : hpc'[d] = "deliver" => hpc[d] = "deliver" /\ hold'[d] = hold[d]
  <2>1. CASE WriteInjected(c)
    <3>1. hold[c] \in ServerMsg BY <2>1 DEF WriteInjected
    <3>2. hold[c].conn \in Apps BY <3>1 DEF ServerMsg
    <3>3. UNCHANGED <<reqs, waiting>>
      BY <2>1, <3>2 DEF WriteInjected, AppWrite, AppTypeOK
    <3> QED BY <2>1, <3>3 DEF WriteInjected
  <2>2. CASE ~WriteInjected(c)
    BY <2>2 DEF Handler, AcceptClient, HelloOk, HelloRejected, ClosePrev, SendResume,
       SnapshotStates, SynthesiseAppConn, SendLive, AfterLive, ClearSynthActive, ReadStamp,
       InjectNothing, CollectPending, ResendSetup, StartReading, ReadError, Unregister,
       CloseConn
  <2> QED BY <2>1, <2>2
<1>2. \A d \in Clients : Added(d) BY HandlerAdds
<1>3. Sent(a)' \subseteq Sent(a) BY <1>2, AddedSends
<1>4. Returned(a)' = Returned(a) BY <1>1 DEF Returned
<1>5. InHandler(a)' \subseteq InHandler(a) BY <1>1, HandlerPlaces
<1>6. InRelay(a)' \subseteq InRelay(a) /\ InSocket(a)' = InSocket(a)
  BY <1>1, RelayPlaces
<1>7. Places(a)' \subseteq Places(a) BY <1>3, <1>4, <1>5, <1>6 DEF Places
<1>8. waiting'[a] = waiting[a] BY <1>1
<1> QED BY <1>7, <1>8, Fewer DEF OnceInv

\* The handler takes a reply off the queue.
LEMMA OnceRead ==
  ASSUME TypeOK, OnceInv, NEW c \in Clients, ReadFromClient(c), NEW a \in Apps
  PROVE  OnceFor(a)'
<1> DEFINE new == <<"handler", c, 0>>
           old == <<"returned", c, 1>>
<1>1. /\ UNCHANGED <<toClient, reqs, seqNum, apc, waiting>>
      /\ hpc[c] = "read" /\ hpc' = [hpc EXCEPT ![c] = "deliver"]
      /\ hold' = [hold EXCEPT ![c] = Head(toServer[c])]
      /\ toServer[c] # <<>> /\ toServer' = [toServer EXCEPT ![c] = Tail(@)]
  BY DEF ReadFromClient, appVars, tables, relays, Goto
<1>2. toServer \in [Clients -> Seq(ServerMsg)] /\ hold \in [Clients -> ServerMsg \cup {NoMsg}]
      /\ hpc \in [Clients -> HandlerPC]
  BY DEF TypeOK, WireTypeOK, ServerTypeOK
<1>3. Sent(a)' = Sent(a) BY <1>1 DEF Sent
<1>4. InRelay(a)' \subseteq InRelay(a) /\ InSocket(a)' = InSocket(a)
  BY <1>1, RelayPlaces
<1>5. ASSUME NEW p \in InHandler(a)'
      PROVE  p \in InHandler(a) \/ (p = new /\ old \in Returned(a))
  <2>1. PICK d \in Clients : p = <<"handler", d, 0>> /\ hpc'[d] = "deliver" /\ Answers(hold'[d], a)
    BY <1>5 DEF InHandler
  <2>2. CASE d # c
    <3>1. hpc[d] = "deliver" /\ hold[d] = hold'[d] BY <1>1, <1>2, <2>1, <2>2
    <3> QED BY <2>1, <3>1 DEF InHandler
  <2>3. CASE d = c
    <3>1. 1 \in 1..Len(toServer[c]) /\ toServer[c][1] = hold'[c] BY <1>1, <1>2
    <3> QED BY <2>1, <2>3, <3>1 DEF Returned
  <2> QED BY <2>2, <2>3
<1>6. ASSUME NEW p \in Returned(a)'
      PROVE  \E q \in Returned(a) \ {old} : p = Shifted("returned", c, q)
  <2>1. PICK d \in Clients : \E i \in 1..Len(toServer'[d]) :
               p = <<"returned", d, i>> /\ Answers(toServer'[d][i], a)
    BY <1>6 DEF Returned
  <2>2. PICK i \in 1..Len(toServer'[d]) : p = <<"returned", d, i>> /\ Answers(toServer'[d][i], a)
    BY <2>1
  <2>3. CASE d # c
    <3>1. toServer'[d] = toServer[d] BY <1>1, <1>2, <2>3
    <3>2. p \in Returned(a) BY <2>2, <3>1 DEF Returned
    <3>3. p # old /\ p = Shifted("returned", c, p) BY <2>2, <2>3 DEF Shifted
    <3> QED BY <3>2, <3>3
  <2>4. CASE d = c
    <3> DEFINE q == <<"returned", c, i + 1>>
    <3>1. toServer'[c] = Tail(toServer[c]) BY <1>1, <1>2
    <3>2. i \in Nat /\ i + 1 \in 1..Len(toServer[c]) /\ toServer[c][i + 1] = toServer'[c][i]
      BY <1>1, <1>2, <2>2, <2>4, <3>1
    <3>3. q \in Returned(a) BY <2>2, <2>4, <3>2 DEF Returned
    <3>4. i + 1 # 1 /\ (i + 1) - 1 = i /\ i \in Nat BY <2>2
    <3>5. q # old BY <3>4
    <3>6. p = Shifted("returned", c, q) BY <2>2, <2>4, <3>4 DEF Shifted
    <3> QED BY <3>3, <3>5, <3>6
  <2> QED BY <2>3, <2>4
<1>7. ASSUME NEW p \in InSocket(a) \cup InRelay(a) \cup Sent(a) \cup InHandler(a)
      PROVE  p = Shifted("returned", c, p) /\ p # old
  <2>1. p[1] \in {"socket", "relay", "sent", "handler"}
    BY <1>7 DEF InSocket, InRelay, Sent, InHandler
  <2> QED BY <2>1 DEF Shifted
<1>8. \A p \in Places(a)' :
        \/ p = new /\ old \in Places(a)
        \/ \E q \in Places(a) \ {old} : p = Shifted("returned", c, q)
  <2> SUFFICES ASSUME NEW p \in Places(a)', ~(p = new /\ old \in Places(a))
               PROVE  \E q \in Places(a) \ {old} : p = Shifted("returned", c, q)
    OBVIOUS
  <2>1. CASE p \in Returned(a)' BY <2>1, <1>6 DEF Places
  <2>2. CASE p \notin Returned(a)'
    <3>1. p \in InSocket(a) \cup InRelay(a) \cup Sent(a) \cup InHandler(a)
      BY <2>2, <1>3, <1>4, <1>5 DEF Places
    <3> QED BY <3>1, <1>7 DEF Places
  <2> QED BY <2>1, <2>2
<1>9. OnceFor(a) /\ waiting'[a] = waiting[a] BY <1>1 DEF OnceInv
<1> HIDE DEF new
<1> QED BY <1>8, <1>9, Taken

\* It delivers the reply: the query is in no place any more.
LEMMA OnceDeliver ==
  ASSUME TypeOK, OnceInv, NEW c \in Clients, Deliver(c), NEW a \in Apps
  PROVE  OnceFor(a)'
<1> DEFINE old == <<"handler", c, 0>>
           m == hold[c]
<1>1. /\ UNCHANGED <<toClient, toServer, seqNum, apc>>
      /\ hpc[c] = "deliver" /\ hpc' = [hpc EXCEPT ![c] = "read"]
      /\ hold' = [hold EXCEPT ![c] = NoMsg]
      /\ UNCHANGED appVars \/ AppWrite(m.conn, m.kind, m.seq)
  BY DEF Deliver, wireVars, relays, Goto
<1>2. m \in ServerMsg BY <1>1 DEF TypeOK, ServerTypeOK
<1>3. m.conn \in Apps BY <1>2 DEF ServerMsg
<1>4. reqs' = reqs /\ (waiting'[a] # waiting[a] => a = m.conn /\ m.kind = "reply")
  BY <1>1, <1>3 DEF AppWrite, appVars, TypeOK, AppTypeOK
<1>5. Sent(a)' = Sent(a) /\ Returned(a)' = Returned(a) BY <1>1 DEF Sent, Returned
<1>6. InRelay(a)' \subseteq InRelay(a) /\ InSocket(a)' = InSocket(a)
  BY <1>1, <1>4, RelayPlaces
<1>7. InHandler(a)' \subseteq InHandler(a) \ {old}
  <2> SUFFICES ASSUME NEW d \in Clients, hpc'[d] = "deliver", Answers(hold'[d], a)
               PROVE  d # c /\ hpc[d] = "deliver" /\ Answers(hold[d], a)
    BY DEF InHandler
  <2> QED BY <1>1 DEF TypeOK, ServerTypeOK
<1>8. old \notin InSocket(a) \cup InRelay(a) \cup Sent(a) \cup Returned(a)
  BY DEF InSocket, InRelay, Sent, Returned
<1>9. Places(a)' \subseteq Places(a) \ {old} BY <1>5, <1>6, <1>7, <1>8 DEF Places
<1>10. OnceFor(a) BY DEF OnceInv
<1>11. waiting'[a] = waiting[a] \/ Places(a)' = {}
  <2> SUFFICES ASSUME waiting'[a] # waiting[a] PROVE Places(a)' = {} OBVIOUS
  <2>1. Answers(m, a) BY <1>4 DEF Answers
  <2>2. old \in Places(a) BY <1>1, <2>1 DEF Places, InHandler
  <2> QED BY <1>9, <1>10, <2>2 DEF OnceFor, AtMostOne
<1> QED BY <1>9, <1>10, <1>11, Fewer

-----------------------------------------------------------------------------
(* AnsweredOnce: the steps of a relay *)

LEMMA OnceQuietRelay ==
  ASSUME TypeOK, OnceInv, NEW b \in Apps, Relay(b), ~ReadRequest(b), ~WriteRequest(b),
         ~FakeReply(b), NEW a \in Apps
  PROVE  OnceFor(a)'
<1> USE DEF TypeOK, ServerTypeOK, wireVars, appVars, registry, tables, locals, relays, GotoApp
<1>1. /\ UNCHANGED <<toServer, reqs, seqNum, waiting, hpc, hold>>
      /\ apc'[a] \in Working => apc[a] \in Working
  BY DEF Relay, AcceptApp, TrackApp, SetupUnreadable, SendSetup, LookupClient, WriteRequestFails,
     ReadRequestFails, UntrackApp, CloseApp, Working
<1>2. \A d \in Clients : Added(d)
  <2>1. CASE SendSetup(b) 
    <3>1. X11Data(b, 0, FALSE) \in ClientMsg /\ Plain(X11Data(b, 0, FALSE))
      BY DEF X11Data, ClientMsg, Plain, IsRequest
    <3> QED BY <2>1, <3>1, WriteToCurrentAdds DEF SendSetup
  <2>2. CASE ~SendSetup(b)
    <3>1. UNCHANGED toClient
      BY <2>2 DEF Relay, AcceptApp, TrackApp, SetupUnreadable, LookupClient,
         WriteRequestFails, WriteError, ReadRequestFails, UntrackApp, CloseApp
    <3> QED BY <3>1 DEF Added
  <2> QED BY <2>1, <2>2
<1>3. Sent(a)' \subseteq Sent(a) BY <1>2, AddedSends
<1>4. Returned(a)' = Returned(a) /\ InHandler(a)' = InHandler(a) BY <1>1 DEF Returned, InHandler
<1>5. InRelay(a)' \subseteq InRelay(a) /\ InSocket(a)' = InSocket(a)
  BY <1>1, RelayPlaces
<1>6. Places(a)' \subseteq Places(a) BY <1>3, <1>4, <1>5 DEF Places
<1>7. waiting'[a] = waiting[a] BY <1>1
<1> QED BY <1>6, <1>7, Fewer DEF OnceInv

\* The relay takes the request off the socket.
LEMMA OnceReadRequest ==
  ASSUME TypeOK, OnceInv, NEW b \in Apps, ReadRequest(b), NEW a \in Apps
  PROVE  OnceFor(a)'
<1> DEFINE old == <<"socket", a, seqNum[a] + 1>>
           new == <<"relay", a, 0>>
<1>1. /\ UNCHANGED <<toClient, toServer, reqs, waiting, hpc, hold>>
      /\ apc[b] = "drain" /\ seqNum[b] < Len(reqs[b])
      /\ seqNum' = [seqNum EXCEPT ![b] = @ + 1] /\ apc' = [apc EXCEPT ![b] = "lookup"]
  BY DEF ReadRequest, wireVars, appVars, locals, GotoApp
<1>2. seqNum \in [Apps -> Nat] /\ apc \in [Apps -> RelayPC] /\ Len(reqs[a]) \in Nat
  BY DEF TypeOK, ServerTypeOK, AppTypeOK
<1>3. Sent(a)' = Sent(a) /\ Returned(a)' = Returned(a) /\ InHandler(a)' = InHandler(a)
  BY <1>1 DEF Sent, Returned, InHandler
<1>4. OnceFor(a) /\ waiting'[a] = waiting[a] BY <1>1 DEF OnceInv
<1>5. CASE a # b
  <2>1. InRelay(a)' \subseteq InRelay(a) /\ InSocket(a)' = InSocket(a)
    BY <1>1, <1>2, <1>5, RelayPlaces
  <2>2. Places(a)' \subseteq Places(a) BY <1>3, <2>1 DEF Places
  <2> QED BY <1>4, <2>2, Fewer
<1>6. CASE a = b
  <2>1. seqNum'[a] = seqNum[a] + 1 BY <1>1, <1>2, <1>6
  <2>2. InSocket(a)' \subseteq InSocket(a) \ {old}
    <3> DEFINE n0 == seqNum[a]
               n1 == seqNum'[a]
    <3>1. n0 \in Nat /\ n1 = n0 + 1 BY <1>2, <2>1
    <3> HIDE DEF n0, n1
    <3>2. \A n \in n1 + 1..Len(reqs[a]) : n \in n0 + 1..Len(reqs[a]) /\ n # n0 + 1
      BY <1>2, <3>1
    <3>3. InSocket(a)' = {<<"socket", a, n>> : n \in {m \in n1 + 1..Len(reqs[a]) : reqs[a][m] = "query"}}
      BY <1>1 DEF InSocket, n1
    <3>4. InSocket(a) = {<<"socket", a, n>> : n \in {m \in n0 + 1..Len(reqs[a]) : reqs[a][m] = "query"}}
      BY DEF InSocket, n0
    <3>5. old = <<"socket", a, n0 + 1>> BY DEF n0
    <3> QED BY <3>2, <3>3, <3>4, <3>5
  <2>3. InRelay(a) = {} BY <1>1, <1>6 DEF InRelay, Working
  <2>4. ASSUME new \in InRelay(a)' PROVE old \in InSocket(a)
    <3>1. reqs[a][seqNum[a] + 1] = "query" BY <1>1, <2>1, <2>4 DEF InRelay, IsQuery
    <3>2. seqNum[a] + 1 \in seqNum[a] + 1..Len(reqs[a]) BY <1>1, <1>2, <1>6
    <3> QED BY <3>1, <3>2 DEF InSocket
  <2>5. InRelay(a)' \subseteq {new} BY DEF InRelay
  <2>6. new \notin InSocket(a)' /\ new \notin Sent(a) \cup Returned(a) \cup InHandler(a)
    BY DEF InSocket, Sent, Returned, InHandler
  <2>7. old \notin Sent(a) \cup Returned(a) \cup InHandler(a)
    BY DEF Sent, Returned, InHandler
  <2>8. Places(a)' \subseteq (Places(a) \ {old}) \cup {new}
    BY <1>3, <2>2, <2>5, <2>7 DEF Places
  <2>9. new \in Places(a)' => old \in Places(a) BY <1>3, <2>4, <2>6 DEF Places
  <2> HIDE DEF old, new
  <2> QED BY <1>4, <2>8, <2>9, Moved
<1> QED BY <1>5, <1>6

\* The relay writes the request to the client it looked up.
LEMMA OnceWrite ==
  ASSUME TypeOK, OnceInv, NEW b \in Apps, WriteRequest(b), NEW a \in Apps
  PROVE  OnceFor(a)'
<1> DEFINE d == dst[b]
           m == X11Data(b, seqNum[b], IsQuery(b))
           old == <<"relay", a, 0>>
           new == <<"sent", d, Len(toClient[d]) + 1>>
<1>1. /\ UNCHANGED <<toServer, reqs, seqNum, waiting, hpc, hold>>
      /\ apc[b] = "write" /\ apc' = [apc EXCEPT ![b] = "drain"]
      /\ toClient' = toClient \/ toClient' = [toClient EXCEPT ![d] = Append(@, m)]
  BY DEF WriteRequest, Write, AfterWrite, appVars, tables, locals, GotoApp
<1>2. toClient \in [Clients -> Seq(ClientMsg)] /\ apc \in [Apps -> RelayPC]
  BY DEF TypeOK, ServerTypeOK, WireTypeOK
<1>3. Returned(a)' = Returned(a) /\ InHandler(a)' = InHandler(a)
  BY <1>1 DEF Returned, InHandler
<1>4. apc'[a] \in Working => apc[a] \in Working /\ a # b BY <1>1, <1>2 DEF Working
<1>5. InRelay(a)' \subseteq InRelay(a) /\ InSocket(a)' = InSocket(a) BY <1>1, <1>4, RelayPlaces
<1>6. OnceFor(a) /\ waiting'[a] = waiting[a] BY <1>1 DEF OnceInv
<1>7. ASSUME NEW p \in Sent(a)'
      PROVE  p \in Sent(a) \/ (p = new /\ Asks(m, a))
  <2>1. PICK c \in Clients : \E i \in 1..Len(toClient'[c]) :
               p = <<"sent", c, i>> /\ Asks(toClient'[c][i], a)
    BY <1>7 DEF Sent
  <2>2. PICK i \in 1..Len(toClient'[c]) : p = <<"sent", c, i>> /\ Asks(toClient'[c][i], a)
    BY <2>1
  <2> HIDE DEF m
  <2>3. CASE toClient'[c] = toClient[c] BY <2>2, <2>3 DEF Sent
  <2>4. CASE toClient'[c] # toClient[c]
    <3>1. c = d /\ toClient'[c] = Append(toClient[c], m) /\ toClient[c] \in Seq(ClientMsg)
      BY <1>1, <1>2, <2>4
    <3>2. CASE i = Len(toClient[c]) + 1 BY <2>2, <3>1, <3>2
    <3>3. CASE i # Len(toClient[c]) + 1
      <4>1. i \in 1..Len(toClient[c]) + 1 BY <2>2, <3>1
      <4>2. i \in 1..Len(toClient[c]) BY <3>1, <3>3, <4>1
      <4>3. toClient'[c][i] = toClient[c][i] BY <3>1, <4>2
      <4> QED BY <2>2, <4>2, <4>3 DEF Sent
    <3> QED BY <3>2, <3>3
  <2> QED BY <2>3, <2>4
<1>8. Asks(m, a) => a = b /\ IsQuery(a) BY DEF Asks, X11Data
<1>9. CASE ~Asks(m, a)
  <2>1. Places(a)' \subseteq Places(a) BY <1>3, <1>5, <1>7, <1>9 DEF Places
  <2> QED BY <1>6, <2>1, Fewer
<1>10. CASE Asks(m, a)
  <2>1. old \in InRelay(a) BY <1>1, <1>8, <1>10 DEF InRelay, Working
  <2>2. old \notin InRelay(a)' BY <1>4, <1>8, <1>10 DEF InRelay
  <2>3. old \notin InSocket(a) \cup Sent(a) \cup Returned(a) \cup InHandler(a)
    BY DEF InSocket, Sent, Returned, InHandler
  <2>4. Places(a)' \subseteq (Places(a) \ {old}) \cup {new}
    BY <1>3, <1>5, <1>7, <2>2, <2>3 DEF Places
  <2>5. old \in Places(a) BY <2>1 DEF Places
  <2> HIDE DEF old, new
  <2> QED BY <1>6, <2>4, <2>5, Moved
<1> QED BY <1>9, <1>10

\* The relay drops it, and may answer it itself.
LEMMA OnceFake ==
  ASSUME TypeOK, OnceInv, NEW b \in Apps, FakeReply(b), NEW a \in Apps
  PROVE  OnceFor(a)'
<1> DEFINE old == <<"relay", a, 0>>
<1>1. /\ UNCHANGED <<toClient, toServer, seqNum, hpc, hold>>
      /\ apc[b] = "dropped" /\ apc' = [apc EXCEPT ![b] = "drain"]
      /\ UNCHANGED appVars \/ (IsQuery(b) /\ AppWrite(b, "reply", seqNum[b]))
  BY DEF FakeReply, wireVars, tables, locals, GotoApp
<1>2. apc \in [Apps -> RelayPC] BY DEF TypeOK, ServerTypeOK
<1>3. reqs' = reqs /\ (waiting'[a] # waiting[a] => a = b /\ IsQuery(a))
  BY <1>1 DEF AppWrite, appVars, TypeOK, AppTypeOK
<1>4. Sent(a)' = Sent(a) /\ Returned(a)' = Returned(a) /\ InHandler(a)' = InHandler(a)
  BY <1>1 DEF Sent, Returned, InHandler
<1>5. apc'[a] \in Working => apc[a] \in Working /\ a # b BY <1>1, <1>2 DEF Working
<1>6. InRelay(a)' \subseteq InRelay(a) /\ InSocket(a)' = InSocket(a)
  BY <1>1, <1>3, <1>5, RelayPlaces
<1>7. Places(a)' \subseteq Places(a) BY <1>4, <1>6 DEF Places
<1>8. OnceFor(a) BY DEF OnceInv
<1>9. waiting'[a] = waiting[a] \/ Places(a)' = {}
  <2> SUFFICES ASSUME waiting'[a] # waiting[a] PROVE Places(a)' = {} OBVIOUS
  <2>1. a = b /\ IsQuery(a) BY <1>3
  <2>2. old \in Places(a) BY <1>1, <2>1 DEF Places, InRelay, Working
  <2>3. old \notin InRelay(a)' BY <1>5, <2>1 DEF InRelay
  <2>4. old \notin InSocket(a) \cup Sent(a) \cup Returned(a) \cup InHandler(a)
    BY DEF InSocket, Sent, Returned, InHandler
  <2>5. old \notin Places(a)' BY <1>4, <1>6, <2>3, <2>4 DEF Places
  <2> QED BY <1>7, <1>8, <2>2, <2>5 DEF OnceFor, AtMostOne
<1> QED BY <1>7, <1>8, <1>9, Fewer

-----------------------------------------------------------------------------
(* AnsweredOnce: the steps of a client *)

\* A client takes a message off its queue; what it sends back, if anything, answers
\* what that message asked.
LEMMA OnceConsume ==
  ASSUME TypeOK, OnceInv, NEW c \in Clients, Consume(c), NEW m \in Inbox(c),
         UNCHANGED <<appVars, serverVars>>, NEW a \in Apps,
         \/ UNCHANGED toServer
         \/ \E r \in ServerMsg : Output(c, r) /\ (Answers(r, a) => Asks(m, a))
  PROVE  OnceFor(a)'
<1> DEFINE new == <<"returned", c, Len(toServer[c]) + 1>>
           old == <<"sent", c, 1>>
<1>1. /\ UNCHANGED <<reqs, seqNum, apc, waiting, hpc, hold>>
      /\ toClient[c] # <<>> /\ toClient' = [toClient EXCEPT ![c] = Tail(@)]
      /\ m = Head(toClient[c])
  BY DEF Consume, Inbox, appVars, serverVars, tables, locals, relays
<1>2. toClient \in [Clients -> Seq(ClientMsg)] /\ toServer \in [Clients -> Seq(ServerMsg)]
  BY DEF TypeOK, WireTypeOK
<1>3. InHandler(a)' = InHandler(a) BY <1>1 DEF InHandler
<1>4. InRelay(a)' \subseteq InRelay(a) /\ InSocket(a)' = InSocket(a)
  BY <1>1, RelayPlaces
<1>5. ASSUME NEW p \in Returned(a)'
      PROVE  p \in Returned(a) \/ (p = new /\ old \in Sent(a))
  <2>1. PICK d \in Clients : \E i \in 1..Len(toServer'[d]) :
               p = <<"returned", d, i>> /\ Answers(toServer'[d][i], a)
    BY <1>5 DEF Returned
  <2>2. PICK i \in 1..Len(toServer'[d]) : p = <<"returned", d, i>> /\ Answers(toServer'[d][i], a)
    BY <2>1
  <2>3. CASE toServer'[d] = toServer[d] BY <2>2, <2>3 DEF Returned
  <2>4. CASE toServer'[d] # toServer[d]
    <3>1. PICK r \in ServerMsg : Output(c, r) /\ (Answers(r, a) => Asks(m, a)) BY <2>4
    <3>2. d = c /\ toServer'[d] = Append(toServer[d], r) /\ toServer[d] \in Seq(ServerMsg)
      BY <1>2, <2>4, <3>1 DEF Output
    <3>3. CASE i = Len(toServer[d]) + 1
      <4>1. Asks(m, a) BY <2>2, <3>1, <3>2, <3>3
      <4>2. 1 \in 1..Len(toClient[c]) /\ toClient[c][1] = m BY <1>1, <1>2
      <4> QED BY <2>2, <3>2, <3>3, <4>1, <4>2 DEF Sent
    <3>4. CASE i # Len(toServer[d]) + 1
      <4>1. i \in 1..Len(toServer[d]) + 1 BY <2>2, <3>2
      <4>2. i \in 1..Len(toServer[d]) BY <3>2, <3>4, <4>1
      <4>3. toServer'[d][i] = toServer[d][i] BY <3>2, <4>2
      <4> QED BY <2>2, <4>2, <4>3 DEF Returned
    <3> QED BY <3>3, <3>4
  <2> QED BY <2>3, <2>4
<1>6. ASSUME NEW p \in Sent(a)'
      PROVE  \E q \in Sent(a) \ {old} : p = Shifted("sent", c, q)
  <2>1. PICK d \in Clients : \E i \in 1..Len(toClient'[d]) :
               p = <<"sent", d, i>> /\ Asks(toClient'[d][i], a)
    BY <1>6 DEF Sent
  <2>2. PICK i \in 1..Len(toClient'[d]) : p = <<"sent", d, i>> /\ Asks(toClient'[d][i], a)
    BY <2>1
  <2>3. CASE d # c
    <3>1. toClient'[d] = toClient[d] BY <1>1, <1>2, <2>3
    <3>2. p \in Sent(a) BY <2>2, <3>1 DEF Sent
    <3>3. p # old /\ p = Shifted("sent", c, p) BY <2>2, <2>3 DEF Shifted
    <3> QED BY <3>2, <3>3
  <2>4. CASE d = c
    <3> DEFINE q == <<"sent", c, i + 1>>
    <3>1. toClient'[c] = Tail(toClient[c]) BY <1>1, <1>2
    <3>2. i \in Nat /\ i + 1 \in 1..Len(toClient[c]) /\ toClient[c][i + 1] = toClient'[c][i]
      BY <1>1, <1>2, <2>2, <2>4, <3>1
    <3>3. q \in Sent(a) BY <2>2, <2>4, <3>2 DEF Sent
    <3>4. i + 1 # 1 /\ (i + 1) - 1 = i /\ i \in Nat BY <2>2
    <3>5. q # old BY <3>4
    <3>6. p = Shifted("sent", c, q) BY <2>2, <2>4, <3>4 DEF Shifted
    <3> QED BY <3>3, <3>5, <3>6
  <2> QED BY <2>3, <2>4
<1>7. ASSUME NEW p \in InSocket(a) \cup InRelay(a) \cup Returned(a) \cup InHandler(a)
      PROVE  p = Shifted("sent", c, p) /\ p # old
  <2>1. p[1] \in {"socket", "relay", "returned", "handler"}
    BY <1>7 DEF InSocket, InRelay, Returned, InHandler
  <2> QED BY <2>1 DEF Shifted
<1>8. \A p \in Places(a)' :
        \/ p = new /\ old \in Places(a)
        \/ \E q \in Places(a) \ {old} : p = Shifted("sent", c, q)
  <2> SUFFICES ASSUME NEW p \in Places(a)', ~(p = new /\ old \in Places(a))
               PROVE  \E q \in Places(a) \ {old} : p = Shifted("sent", c, q)
    OBVIOUS
  <2>1. CASE p \in Sent(a)' BY <2>1, <1>6 DEF Places
  <2>2. CASE p \notin Sent(a)'
    <3>1. p \in InSocket(a) \cup InRelay(a) \cup Returned(a) \cup InHandler(a)
      BY <2>2, <1>3, <1>4, <1>5 DEF Places
    <3> QED BY <3>1, <1>7 DEF Places
  <2> QED BY <2>1, <2>2
<1>9. OnceFor(a) /\ waiting'[a] = waiting[a] BY <1>1 DEF OnceInv
<1> HIDE DEF new
<1> QED BY <1>8, <1>9, Taken

LEMMA OnceClient ==
  ASSUME TypeOK, OnceInv, NEW c \in Clients, ClientStep(c) \/ ClientCrash(c),
         UNCHANGED <<appVars, serverVars>>, NEW a \in Apps
  PROVE  OnceFor(a)'
<1>1. CASE RecvIgnored(c)
  <2>1. PICK m \in Inbox(c) : m.type = "RESUME" \/ (live[c] /\ m.type \in {"SETUP", "LIVE"})
    BY <1>1 DEF RecvIgnored
  <2> QED BY <1>1, <2>1, OnceConsume DEF RecvIgnored
<1>2. CASE RecvX11Setup(c)
  <2>1. PICK m \in Inbox(c) : m.type = "SETUP" BY <1>2 DEF RecvX11Setup
  <2> QED BY <1>2, <2>1, OnceConsume DEF RecvX11Setup
<1>3. CASE RecvLive(c)
  <2>1. PICK m \in Inbox(c) : m.type = "LIVE" BY <1>3 DEF RecvLive
  <2> QED BY <1>3, <2>1, OnceConsume DEF RecvLive
<1>4. CASE RecvSetupBytes(c)
  <2>1. PICK m \in Inbox(c) :
          /\ m.type = "DATA" /\ m.n = 0
          /\ UNCHANGED toServer \/ Output(c, XOutput(m.conn, "setup", 0))
    BY <1>4 DEF RecvSetupBytes
  <2>0. m \in ClientMsg BY InboxType DEF TypeOK
  <2>2. m.conn \in Apps BY <2>0, <2>1 DEF ClientMsg
  <2> DEFINE r == XOutput(m.conn, "setup", 0)
  <2>3. r \in ServerMsg BY <2>2, OutputType
  <2>4. ~Answers(r, a) BY DEF Answers, XOutput
  <2> HIDE DEF r
  <2> QED BY <1>4, <2>1, <2>3, <2>4, OnceConsume DEF RecvSetupBytes, r
<1>5. CASE RecvRequest(c)
  <2>1. PICK m \in Inbox(c) :
          /\ IsRequest(m)
          /\ \/ UNCHANGED toServer
             \/ /\ m.query
                /\ Output(c, XOutput(m.conn, "reply", xconn[c][m.conn].base + xconn[c][m.conn].cnt + 1))
    BY <1>5 DEF RecvRequest
  <2>0. m \in ClientMsg BY InboxType DEF TypeOK
  <2>2. m.conn \in Apps /\ m.type = "DATA" BY <2>0, <2>1 DEF ClientMsg, IsRequest
  <2> DEFINE r == XOutput(m.conn, "reply", xconn[c][m.conn].base + xconn[c][m.conn].cnt + 1)
  <2>3. r \in ServerMsg
    <3>1. xconn[c][m.conn] \in XConn BY <2>2 DEF TypeOK, ClientTypeOK
    <3>2. xconn[c][m.conn].base + xconn[c][m.conn].cnt + 1 \in Nat BY <3>1 DEF XConn
    <3> QED BY <2>2, <3>2, OutputType
  <2>4. m.query /\ Answers(r, a) => Asks(m, a) BY <2>2 DEF Answers, Asks, XOutput
  <2>5. Consume(c) BY <1>5 DEF RecvRequest
  <2>6. UNCHANGED toServer \/ (m.query /\ Output(c, r)) BY <2>1
  <2> HIDE DEF r
  <2> QED BY <2>3, <2>4, <2>5, <2>6, OnceConsume
<1>6. CASE Gone(c)
  <2>1. UNCHANGED <<reqs, seqNum, apc, waiting, hpc, hold, toServer>>
    BY <1>6 DEF Gone, appVars, serverVars, tables, locals, relays
  <2>2. InHandler(a)' = InHandler(a) /\ Returned(a)' = Returned(a)
    BY <2>1 DEF InHandler, Returned
  <2>3. InRelay(a)' \subseteq InRelay(a) /\ InSocket(a)' = InSocket(a) BY <2>1, RelayPlaces
  <2>4. Sent(a)' \subseteq Sent(a)
    <3> SUFFICES ASSUME NEW d \in Clients, NEW i \in 1..Len(toClient'[d]), Asks(toClient'[d][i], a)
                 PROVE  toClient'[d] = toClient[d]
      BY DEF Sent
    <3>1. toClient' = [toClient EXCEPT ![c] = <<>>] BY <1>6 DEF Gone
    <3>2. CASE d = c
      <4>1. toClient'[d] = <<>> BY <3>1, <3>2 DEF TypeOK, WireTypeOK
      <4> QED BY <4>1
    <3>3. CASE d # c BY <3>1, <3>3 DEF TypeOK, WireTypeOK
    <3> QED BY <3>2, <3>3
  <2>5. Places(a)' \subseteq Places(a) BY <2>2, <2>3, <2>4 DEF Places
  <2> QED BY <2>1, <2>5, Fewer DEF OnceInv
<1> QED BY <1>1, <1>2, <1>3, <1>4, <1>5, <1>6 DEF ClientStep, ClientExit, ClientCrash

-----------------------------------------------------------------------------
(* AnsweredOnce: the steps of an application, and the theorem *)

LEMMA OnceApp ==
  ASSUME TypeOK, OnceInv, AppsStep, NEW a \in Apps
  PROVE  OnceFor(a)'
<1>1. UNCHANGED <<toClient, toServer, seqNum, apc, hpc, hold>>
  BY DEF AppsStep, wireVars, serverVars, tables, locals, relays
<1>2. Sent(a)' = Sent(a) /\ Returned(a)' = Returned(a) /\ InHandler(a)' = InHandler(a)
  BY <1>1 DEF Sent, Returned, InHandler
<1>3. CASE reqs'[a] = reqs[a] /\ waiting'[a] = waiting[a]
  <2>1. InRelay(a)' \subseteq InRelay(a) /\ InSocket(a)' = InSocket(a) BY <1>1, <1>3, RelayPlaces
  <2>2. Places(a)' \subseteq Places(a) BY <1>2, <2>1 DEF Places
  <2> QED BY <1>3, <2>2, Fewer DEF OnceInv
<1>4. ASSUME NEW kind \in ReqKind, AppRequest(a, kind) PROVE OnceFor(a)'
  <2> DEFINE l == Len(reqs[a])
             new == <<"socket", a, l + 1>>
  <2>1. reqs[a] \in Seq(ReqKind) /\ reqs \in [Apps -> Seq(ReqKind)] /\ waiting \in [Apps -> Nat]
        /\ l \in Nat
    BY DEF TypeOK, AppTypeOK
  <2>2. reqs'[a] = Append(reqs[a], kind) /\ waiting'[a] = IF kind = "query" THEN l + 1 ELSE 0
    BY <1>4, <2>1 DEF AppRequest
  <2>3. Places(a) = {} BY <1>4 DEF AppRequest, OnceInv, OnceFor
  <2>4. \A i \in 1..l : reqs'[a][i] = reqs[a][i] BY <2>1, <2>2
  <2>5. Len(reqs'[a]) = l + 1 /\ reqs'[a][l + 1] = kind BY <2>1, <2>2
  <2> HIDE DEF l
  <2>6. InRelay(a)' = {}
    <3>1. InRelay(a) = {} BY <2>3 DEF Places
    <3>2. apc[a] \in Working => seqNum[a] \in 1..l BY DEF OnceInv, l
    <3>3. apc[a] \in Working => reqs'[a][seqNum[a]] # "query"
      BY <2>4, <3>1, <3>2 DEF InRelay, IsQuery
    <3> QED BY <1>1, <3>3 DEF InRelay, IsQuery
  <2>7. InSocket(a)' \subseteq {new} /\ (kind # "query" => InSocket(a)' = {})
    <3> DEFINE s == seqNum[a]
    <3>1. s \in Nat /\ seqNum'[a] = s BY <1>1 DEF TypeOK, ServerTypeOK
    <3> HIDE DEF s
    <3>2. ASSUME NEW n \in s + 1..l + 1, reqs'[a][n] = "query" PROVE n = l + 1 /\ kind = "query"
      <4>1. CASE n = l + 1 BY <2>5, <3>2, <4>1
      <4>2. CASE n # l + 1
        <5>1. n \in s + 1..l /\ n \in 1..l BY <2>1, <3>1, <4>2
        <5>2. reqs[a][n] = "query" BY <2>4, <3>2, <5>1
        <5>3. <<"socket", a, n>> \in InSocket(a) BY <5>1, <5>2 DEF InSocket, s, l
        <5> QED BY <2>3, <5>3 DEF Places
      <4> QED BY <4>1, <4>2
    <3>3. InSocket(a)' = {<<"socket", a, n>> : n \in {m \in s + 1..l + 1 : reqs'[a][m] = "query"}}
      BY <2>5, <3>1 DEF InSocket
    <3> QED BY <3>2, <3>3
  <2>8. Places(a)' \subseteq {new} /\ (kind # "query" => Places(a)' = {})
    BY <1>2, <2>3, <2>6, <2>7 DEF Places
  <2>9. kind = "query" => waiting'[a] # 0 BY <2>1, <2>2
  <2> HIDE DEF new
  <2> QED BY <2>8, <2>9 DEF OnceFor, AtMostOne
<1>5. ASSUME NEW b \in Apps, AppConnect(b) \/ AppQuit(b) PROVE OnceFor(a)'
  BY <1>3, <1>5 DEF AppConnect, AppQuit
<1>6. ASSUME NEW b \in Apps, NEW kind \in ReqKind, AppRequest(b, kind), b # a PROVE OnceFor(a)'
  BY <1>3, <1>6 DEF AppRequest, TypeOK, AppTypeOK
<1> QED BY <1>4, <1>5, <1>6 DEF AppsStep

\* A relay that works on a request has counted it.
LEMMA WorkStep ==
  ASSUME TypeOK, OnceInv, RidInv, [Next]_vars, NEW a \in Apps, apc'[a] \in Working
  PROVE  seqNum'[a] \in 1..Len(reqs'[a])
<1> USE DEF TypeOK, AppTypeOK, ServerTypeOK, Working
<1>1. seqNum'[a] <= Len(reqs'[a]) /\ seqNum'[a] \in Nat /\ Len(reqs'[a]) \in Nat
  BY RidInvStep, NextType DEF RidInv
<1>2. seqNum'[a] >= seqNum[a] /\ (apc[a] \notin Working => seqNum'[a] > seqNum[a])
  <2>1. CASE UNCHANGED <<seqNum, apc>> BY <2>1
  <2>2. ASSUME NEW b \in Apps, Relay(b), ~ReadRequest(b) PROVE UNCHANGED seqNum /\ apc[a] \in Working
    BY <2>2 DEF Relay, AcceptApp, TrackApp, SetupUnreadable, SendSetup, LookupClient, WriteRequest,
       AfterWrite, WriteRequestFails, FakeReply, ReadRequestFails, UntrackApp, CloseApp, GotoApp, tables
  <2>3. ASSUME NEW b \in Apps, ReadRequest(b) PROVE seqNum'[a] >= seqNum[a] /\ (apc[a] \notin Working => seqNum'[a] > seqNum[a])
    BY <2>3 DEF ReadRequest, GotoApp
  <2>4. ASSUME NEW c \in Clients, AcceptClient(c) \/ Handler(c) PROVE UNCHANGED <<seqNum, apc>>
    BY <2>4 DEF Handler, AcceptClient, HelloOk, HelloRejected, ClosePrev, SendResume,
       SnapshotStates, SynthesiseAppConn, SendLive, ClearSynthActive, ReadStamp,
       InjectNothing, WriteInjected, CollectPending, ResendSetup, StartReading, ReadFromClient,
       Deliver, ReadError, Unregister, CloseConn, tables, relays
  <2>5. CASE ServerStep BY <2>1, <2>2, <2>3, <2>4, <2>5 DEF ServerStep
  <2>6. CASE ClientsStep \/ AppsStep \/ UNCHANGED vars
    BY <2>1, <2>6 DEF ClientsStep, AppsStep, vars, serverVars, tables, relays
  <2> QED BY <2>5, <2>6 DEF Next
<1>3. apc[a] \in Working => seqNum[a] >= 1 BY DEF OnceInv
<1>4. seqNum[a] \in Nat OBVIOUS
<1>5. seqNum'[a] >= 1 BY <1>1, <1>2, <1>3, <1>4
<1> QED BY <1>1, <1>5

LEMMA OnceStep == TypeOK /\ RidInv /\ OnceInv /\ [Next]_vars => OnceInv'
<1> SUFFICES ASSUME TypeOK, RidInv, OnceInv, [Next]_vars, NEW a \in Apps
             PROVE  (apc[a] \in Working => seqNum[a] \in 1..Len(reqs[a]))' /\ OnceFor(a)'
  BY DEF OnceInv
<1>1. (apc[a] \in Working => seqNum[a] \in 1..Len(reqs[a]))' BY WorkStep
<1>2. CASE ServerStep
  BY <1>1, <1>2, OnceQuietHandler, OnceRead, OnceDeliver, OnceQuietRelay, OnceReadRequest, OnceWrite,
     OnceFake DEF ServerStep
<1>3. CASE ClientsStep BY <1>1, <1>3, OnceClient DEF ClientsStep
<1>4. CASE AppsStep BY <1>1, <1>4, OnceApp
<1>5. CASE UNCHANGED vars
  <2>1. Places(a)' = Places(a) /\ waiting' = waiting
    BY <1>5 DEF vars, wireVars, appVars, serverVars, tables, locals, relays, Places, InSocket,
       InRelay, Sent, Returned, InHandler, IsQuery
  <2> QED BY <1>1, <2>1, Fewer DEF OnceInv
<1> QED BY <1>1, <1>2, <1>3, <1>4, <1>5 DEF Next

LEMMA OnceInit == Init => OnceInv
<1> SUFFICES ASSUME Init, NEW a \in Apps PROVE apc[a] \notin Working /\ Places(a) = {}
  BY DEF OnceInv, OnceFor, AtMostOne
<1>1. apc[a] = "none" /\ reqs[a] = <<>> /\ seqNum[a] = 0
      /\ \A c \in Clients : toClient[c] = <<>> /\ toServer[c] = <<>> /\ hpc[c] = "idle"
  BY DEF Init, WireInit, AppInit, ServerInit
<1>2. Len(<<>>) = 0 /\ 1..0 = {} /\ 0 + 1 = 1 OBVIOUS
<1>3. InSocket(a) = {} /\ Sent(a) = {} /\ Returned(a) = {} BY <1>1, <1>2 DEF InSocket, Sent, Returned
<1>4. InRelay(a) = {} /\ InHandler(a) = {} BY <1>1 DEF InRelay, InHandler, Working
<1> QED BY <1>1, <1>3, <1>4 DEF Places, Working

\* A query that has an answer on its way, faked or real, is still awaited: none is
\* answered twice, whatever is dropped, faked, relayed or delivered late by a
\* superseded handler (server.go:176-205).
THEOREM NoSecondAnswer == Spec => []AnsweredOnce
<1>1. Init => OnceInv BY OnceInit
<1>2. Init => RidInv BY DEF Init, AppInit, ServerInit, RidInv
<1>3. TypeOK /\ RidInv /\ [Next]_vars => RidInv' BY RidInvStep
<1>4. OnceInv => AnsweredOnce
  <2> SUFFICES ASSUME OnceInv, NEW a \in Apps, AnswerOnItsWay(a) PROVE Places(a) # {}
    BY DEF AnsweredOnce, OnceInv, OnceFor
  <2>1. CASE apc[a] = "write" /\ IsQuery(a) BY <2>1 DEF Places, InRelay, Working
  <2>2. ASSUME NEW c \in Clients, NEW i \in 1..Len(toClient[c]), Asks(toClient[c][i], a)
        PROVE  Places(a) # {}
    <3>1. <<"sent", c, i>> \in Sent(a) BY <2>2 DEF Sent
    <3> QED BY <3>1 DEF Places
  <2>3. ASSUME NEW c \in Clients, NEW i \in 1..Len(toServer[c]), Answers(toServer[c][i], a)
        PROVE  Places(a) # {}
    <3>1. <<"returned", c, i>> \in Returned(a) BY <2>3 DEF Returned
    <3> QED BY <3>1 DEF Places
  <2>4. ASSUME NEW c \in Clients, hpc[c] = "deliver", Answers(hold[c], a) PROVE Places(a) # {}
    BY <2>4 DEF Places, InHandler
  <2> QED BY <2>1, <2>2, <2>3, <2>4 DEF AnswerOnItsWay, Asks, Answers
<1> QED BY <1>1, <1>2, <1>3, <1>4, OnceStep, TypeCorrect, PTL DEF Spec

-----------------------------------------------------------------------------
(* What a client does to its X connections *)

OpensFor(m, a) ==
  \/ m.type = "SETUP" /\ m.conn = a
  \/ m.type = "DATA" /\ m.conn = a /\ m.n = 0

\* Reading m made y of the X connection x for a.
ReadInto(m, a, x, y, isLive) ==
  /\ y.st = "synth" => \/ x.st = "synth" /\ x.has \subseteq y.has
                       \/ m.type = "SETUP" /\ m.conn = a /\ y.has = m.res
  /\ x.st # "none" => y.st # "none"
  /\ OpensFor(m, a) /\ (m.type = "SETUP" => ~isLive) => y.st # "none"
  /\ y.bad = "request" => x.bad = "request" \/ (IsRequest(m) /\ m.conn = a /\ x.st = "none")

\* What a client's reading one message does whatever the applications are.
LEMMA Reads ==
  ASSUME TypeOK, NEW c \in Clients, ClientStep(c), ~Gone(c)
  PROVE  /\ cliOpen[c] /\ toClient[c] # <<>> /\ Consume(c)
         /\ \A d \in Clients : d # c => xconn'[d] = xconn[d]
<1> USE DEF TypeOK, ClientTypeOK
<1>0. \A m \in Inbox(c) : cliOpen[c] /\ toClient[c] # <<>> BY DEF Inbox
<1>1. CASE RecvIgnored(c) BY <1>0, <1>1 DEF RecvIgnored, clientVars
<1>2. CASE RecvX11Setup(c) BY <1>0, <1>2 DEF RecvX11Setup
<1>3. CASE RecvLive(c) BY <1>0, <1>3 DEF RecvLive
<1>4. CASE RecvSetupBytes(c) BY <1>0, <1>4 DEF RecvSetupBytes
<1>5. CASE RecvRequest(c) BY <1>0, <1>5 DEF RecvRequest
<1> QED BY <1>1, <1>2, <1>3, <1>4, <1>5 DEF ClientStep, ClientExit

LEMMA ReadsOne ==
  ASSUME TypeOK, NEW c \in Clients, ClientStep(c), ~Gone(c), NEW a \in Apps
  PROVE  /\ cliOpen[c] /\ toClient[c] # <<>> /\ Consume(c)
         /\ ReadInto(Head(toClient[c]), a, xconn[c][a], xconn'[c][a], live[c])
         /\ \A d \in Clients : d # c => xconn'[d] = xconn[d] /\ live'[d] = live[d]
         /\ live'[c] => live[c] \/ Head(toClient[c]).type = "LIVE"
<1> DEFINE h == Head(toClient[c])
           x == xconn[c][a]
           y == xconn'[c][a]
           Done(m) ==
             /\ cliOpen[c] /\ toClient[c] # <<>> /\ Consume(c)
             /\ ReadInto(m, a, x, y, live[c])
             /\ \A d \in Clients : d # c => xconn'[d] = xconn[d] /\ live'[d] = live[d]
             /\ live'[c] => live[c] \/ m.type = "LIVE"
<1> SUFFICES Done(h) OBVIOUS
<1>0. \A m \in Inbox(c) : m = h /\ m \in ClientMsg /\ cliOpen[c] /\ toClient[c] # <<>>
  BY InboxType DEF Inbox, TypeOK
<1> HIDE DEF h
<1>1. x \in XConn /\ xconn \in [Clients -> [Apps -> XConn]] /\ live \in [Clients -> BOOLEAN]
  BY DEF TypeOK, ClientTypeOK
<1>2. ASSUME NEW m \in Inbox(c), Done(m)
      PROVE  Done(h)
  BY <1>0, <1>2
<1> USE DEF ReadInto, OpensFor, IsRequest
<1>3. CASE RecvIgnored(c)
  <2>1. PICK m \in Inbox(c) : m.type = "RESUME" \/ (live[c] /\ m.type \in {"SETUP", "LIVE"})
    BY <1>3 DEF RecvIgnored
  <2>2. UNCHANGED <<live, xconn>> /\ Consume(c) BY <1>3 DEF RecvIgnored, clientVars
  <2>3. Done(m) BY <1>0, <1>1, <2>1, <2>2
  <2> QED BY <1>2, <2>3
<1>4. CASE RecvX11Setup(c)
  <2>1. PICK m \in Inbox(c) :
          /\ m.type = "SETUP"
          /\ xconn' = [xconn EXCEPT ![c][m.conn] =
                         [NoXConn EXCEPT !.st = "synth", !.base = m.seq, !.has = m.res]]
    BY <1>4 DEF RecvX11Setup
  <2>2. live' = live /\ Consume(c) BY <1>4 DEF RecvX11Setup
  <2>3. m.conn \in Apps BY <1>0, <2>1 DEF ClientMsg
  <2>4. CASE m.conn = a
    <3>1. y.st = "synth" /\ y.has = m.res /\ y.bad = "no" BY <1>1, <2>1, <2>4 DEF NoXConn
    <3>2. \A d \in Clients : d # c => xconn'[d] = xconn[d] BY <1>1, <2>1
    <3>3. Done(m) BY <1>0, <2>1, <2>2, <2>4, <3>1, <3>2
    <3> QED BY <1>2, <3>3
  <2>5. CASE m.conn # a
    <3>1. y = x /\ \A d \in Clients : d # c => xconn'[d] = xconn[d] BY <1>1, <2>1, <2>3, <2>5
    <3>2. Done(m) BY <1>0, <2>1, <2>2, <2>5, <3>1
    <3> QED BY <1>2, <3>2
  <2> QED BY <2>4, <2>5
<1>5. CASE RecvLive(c)
  <2>1. PICK m \in Inbox(c) :
          /\ m.type = "LIVE"
          /\ xconn' = [xconn EXCEPT ![c] = [b \in Apps |->
                      IF xconn[c][b].st = "synth"
                        THEN [xconn[c][b] EXCEPT !.cnt = 0, !.base = FinalSeq(xconn[c][b], m, b)]
                        ELSE xconn[c][b]]]
    BY <1>5 DEF RecvLive
  <2>2. Consume(c) /\ live' = [live EXCEPT ![c] = TRUE] BY <1>5 DEF RecvLive
  <2>3. y = IF x.st = "synth" THEN [x EXCEPT !.cnt = 0, !.base = FinalSeq(x, m, a)] ELSE x
    BY <1>1, <2>1
  <2>4. y.st = x.st /\ y.has = x.has /\ y.bad = x.bad BY <1>1, <2>3 DEF XConn
  <2>5. \A d \in Clients : d # c => xconn'[d] = xconn[d] /\ live'[d] = live[d] BY <1>1, <2>1, <2>2
  <2> HIDE DEF x, y
  <2>6. Done(m) BY <1>0, <2>1, <2>2, <2>4, <2>5 DEF x, y
  <2> QED BY <1>2, <2>6
<1>6. CASE RecvSetupBytes(c)
  <2>1. PICK m \in Inbox(c) :
          /\ m.type = "DATA" /\ m.n = 0
          /\ IF xconn[c][m.conn].st = "none"
               THEN xconn' = [xconn EXCEPT ![c][m.conn] = FreshXConn]
               ELSE xconn' = [xconn EXCEPT ![c][m.conn] = [@ EXCEPT !.bad = "setup"]]
    BY <1>6 DEF RecvSetupBytes
  <2>2. live' = live /\ Consume(c) BY <1>6 DEF RecvSetupBytes
  <2>3. m.conn \in Apps BY <1>0, <2>1 DEF ClientMsg
  <2>4. \A d \in Clients : d # c => xconn'[d] = xconn[d] BY <1>1, <2>1
  <2>5. CASE m.conn = a
    <3>1. CASE x.st = "none"
      <4>1. y.st = "fresh" /\ y.bad = "no"
        BY <1>1, <2>1, <2>5, <3>1 DEF FreshXConn, NoXConn
      <4>2. Done(m) BY <1>0, <2>1, <2>2, <2>4, <2>5, <4>1
      <4> QED BY <1>2, <4>2
    <3>2. CASE x.st # "none"
      <4>1. y = [x EXCEPT !.bad = "setup"] BY <1>1, <2>1, <2>5, <3>2
      <4>2. y.st = x.st /\ y.has = x.has /\ y.bad = "setup" BY <1>1, <4>1 DEF XConn
      <4> HIDE DEF x, y
      <4>3. Done(m) BY <1>0, <2>1, <2>2, <2>4, <2>5, <3>2, <4>2
      <4> QED BY <1>2, <4>3
    <3> QED BY <3>1, <3>2
  <2>6. CASE m.conn # a
    <3>1. y = x BY <1>1, <2>1, <2>3, <2>6
    <3>2. Done(m) BY <1>0, <2>1, <2>2, <2>4, <2>6, <3>1
    <3> QED BY <1>2, <3>2
  <2> QED BY <2>5, <2>6
<1>7. CASE RecvRequest(c)
  <2>1. PICK m \in Inbox(c) :
          /\ m.type = "DATA" /\ m.n > 0
          /\ IF xconn[c][m.conn].st = "none"
               THEN xconn' = [xconn EXCEPT ![c][m.conn] =
                                [NoXConn EXCEPT !.st = "fresh", !.bad = "request"]]
               ELSE xconn' = [xconn EXCEPT ![c][m.conn] = Counted(xconn[c][m.conn], m)]
    BY <1>7 DEF RecvRequest
  <2>2. live' = live /\ Consume(c) BY <1>7 DEF RecvRequest
  <2>3. m.conn \in Apps /\ m.n # 0 BY <1>0, <2>1 DEF ClientMsg
  <2>4. \A d \in Clients : d # c => xconn'[d] = xconn[d] BY <1>1, <2>1
  <2>5. CASE m.conn = a
    <3>1. CASE x.st = "none"
      <4>1. y.st = "fresh" BY <1>1, <2>1, <2>5, <3>1 DEF NoXConn
      <4>2. Done(m) BY <1>0, <2>1, <2>2, <2>4, <2>5, <3>1, <4>1
      <4> QED BY <1>2, <4>2
    <3>2. CASE x.st # "none"
      <4>1. y = Counted(x, m) BY <1>1, <2>1, <2>5, <3>2
      <4>2. y.st = x.st /\ x.has \subseteq y.has /\ y.bad = x.bad BY <1>1, <4>1 DEF Counted, XConn
      <4> HIDE DEF x, y
      <4>3. Done(m) BY <1>0, <2>1, <2>2, <2>3, <2>4, <2>5, <3>2, <4>2
      <4> QED BY <1>2, <4>3
    <3> QED BY <3>1, <3>2
  <2>6. CASE m.conn # a
    <3>1. y = x BY <1>1, <2>1, <2>3, <2>6
    <3>2. Done(m) BY <1>0, <2>1, <2>2, <2>4, <2>6, <3>1
    <3> QED BY <1>2, <3>2
  <2> QED BY <2>5, <2>6
<1> QED BY <1>3, <1>4, <1>5, <1>6, <1>7 DEF ClientStep, ClientExit

-----------------------------------------------------------------------------
(* What the server writes *)

\* m is what a step of the server writes to c.
Writing(c, m) ==
  \/ m.type = "RESUME" /\ clientConn = c
  \/ m.type = "LIVE" /\ clientConn = c /\ \E d \in Clients : SendLive(d)
  \/ \E a \in Apps : m = X11Data(a, 0, FALSE) /\ clientConn = c
  \/ /\ clientConn = c
     /\ \E d \in Clients : SynthesiseAppConn(d)
     /\ \E a \in Apps : m = X11Setup(a, seqNum[a], Tracked(a))
  \/ \E a \in Apps : WriteRequest(a) /\ dst[a] = c /\ m = X11Data(a, seqNum[a], IsQuery(a))

Written(c) ==
  \/ toClient'[c] = toClient[c]
  \/ /\ srvOpen[c] /\ cliOpen[c]
     /\ \E m \in ClientMsg : Writing(c, m) /\ toClient'[c] = Append(toClient[c], m)

LEMMA CurrentWritten ==
  ASSUME TypeOK, NEW c \in Clients, NEW m \in ClientMsg, WriteToCurrent(m),
         clientConn = c => Writing(c, m)
  PROVE  Written(c)
<1> USE DEF TypeOK, WireTypeOK, ServerTypeOK
<1>1. CASE clientConn = NoClient BY <1>1 DEF WriteToCurrent, Written
<1>2. CASE clientConn \in Clients
  <2>1. toClient' = IF srvOpen[clientConn] /\ cliOpen[clientConn]
                      THEN [toClient EXCEPT ![clientConn] = Append(@, m)] ELSE toClient
    BY <1>2, NoClientAssumption DEF WriteToCurrent, WriteIgnored
  <2> QED BY <1>2, <2>1 DEF Written
<1> QED BY <1>1, <1>2

LEMMA HandlerWrites ==
  ASSUME TypeOK, NEW d \in Clients, AcceptClient(d) \/ Handler(d), NEW c \in Clients
  PROVE  Written(c)
<1> USE DEF TypeOK, ServerTypeOK
<1>1. CASE UNCHANGED toClient BY <1>1 DEF Written
<1>2. CASE SendResume(d)
  <2>1. SessionResume \in ClientMsg /\ (clientConn = c => Writing(c, SessionResume))
    BY DEF SessionResume, ClientMsg, Writing
  <2> QED BY <1>2, <2>1, CurrentWritten DEF SendResume
<1>3. CASE SynthesiseAppConn(d)
  <2>1. PICK a \in todo[d] :
          IF Skipped(a) THEN UNCHANGED toClient
          ELSE WriteToCurrent(X11Setup(a, seqNum[a], Tracked(a)))
    BY <1>3 DEF SynthesiseAppConn
  <2> DEFINE m == X11Setup(a, seqNum[a], Tracked(a))
  <2>2. a \in Apps /\ seqNum[a] \in Nat /\ Tracked(a) \in SUBSET Nat BY TrackedType
  <2>3. m \in ClientMsg BY <2>2, MessageTypes
  <2>4. clientConn = c => Writing(c, m) BY <1>3, <2>2 DEF Writing
  <2> HIDE DEF m
  <2>5. UNCHANGED toClient \/ WriteToCurrent(m) BY <2>1 DEF m
  <2> QED BY <1>1, <2>3, <2>4, <2>5, CurrentWritten
<1>4. CASE SendLive(d)
  <2> DEFINE f == [a \in Apps |-> IF a \in states[d] THEN seqNum[a] ELSE 0]
             m == SessionLive(states[d], f)
  <2>1. f \in [Apps -> Nat] OBVIOUS
  <2>2. m \in ClientMsg /\ m.type = "LIVE" BY <2>1 DEF SessionLive, ClientMsg
  <2>3. WriteToCurrent(m) BY <1>4 DEF SendLive
  <2> HIDE DEF m
  <2>4. clientConn = c => Writing(c, m) BY <1>4, <2>2 DEF Writing
  <2> QED BY <2>2, <2>3, <2>4, CurrentWritten
<1>5. CASE ResendSetup(d)
  <2>1. PICK a \in todo[d] : WriteToCurrent(X11Data(a, 0, FALSE))
    BY <1>5 DEF ResendSetup
  <2>2. a \in Apps OBVIOUS
  <2>3. X11Data(a, 0, FALSE) \in ClientMsg BY <2>2 DEF X11Data, ClientMsg
  <2>4. clientConn = c => Writing(c, X11Data(a, 0, FALSE)) BY <2>2 DEF Writing
  <2> QED BY <2>1, <2>3, <2>4, CurrentWritten
<1> QED
  BY <1>1, <1>2, <1>3, <1>4, <1>5 DEF Handler, AcceptClient, HelloOk, HelloRejected,
     ClosePrev, SnapshotStates, ClearSynthActive, ReadStamp, InjectNothing,
     WriteInjected, CollectPending, StartReading, ReadFromClient, Deliver, ReadError,
     Unregister, CloseConn, wireVars

LEMMA RelayWrites ==
  ASSUME TypeOK, NEW a \in Apps, Relay(a), NEW c \in Clients
  PROVE  Written(c)
<1> USE DEF TypeOK, WireTypeOK, ServerTypeOK
<1>1. CASE UNCHANGED toClient BY <1>1 DEF Written
<1>2. CASE SendSetup(a)
  <2>1. X11Data(a, 0, FALSE) \in ClientMsg BY DEF X11Data, ClientMsg
  <2>2. clientConn = c => Writing(c, X11Data(a, 0, FALSE)) BY DEF Writing
  <2> QED BY <1>2, <2>1, <2>2, CurrentWritten DEF SendSetup
<1>3. CASE WriteRequest(a)
  <2> DEFINE m == X11Data(a, seqNum[a], IsQuery(a))
  <2>1. m \in ClientMsg BY DEF X11Data, ClientMsg, IsQuery
  <2>2. /\ srvOpen[dst[a]]
        /\ toClient' = IF cliOpen[dst[a]] THEN [toClient EXCEPT ![dst[a]] = Append(@, m)]
                                          ELSE toClient
    BY <1>3 DEF WriteRequest, Write
  <2>3. dst[a] = c => Writing(c, m) BY <1>3 DEF Writing
  <2> HIDE DEF m
  <2> QED BY <2>1, <2>2, <2>3 DEF Written
<1> QED
  BY <1>1, <1>2, <1>3 DEF Relay, AcceptApp, TrackApp, SetupUnreadable, ReadRequest,
     LookupClient, WriteRequestFails, WriteError, FakeReply, ReadRequestFails,
     UntrackApp, CloseApp, wireVars

-----------------------------------------------------------------------------
(* NothingForgotten.  What a SETUP message recreates is at least what was  *)
(* tracked when its client became current, since it is written to the      *)
(* current client only, and what is tracked grows.                         *)

\* The SETUP messages in q recreate all of o.
Recreate(q, o) == \A i \in 1..Len(q) : q[i].type = "SETUP" => o[q[i].conn] \subseteq q[i].res
NoSetup(q) == \A i \in 1..Len(q) : q[i].type # "SETUP"

KeptInv ==
  /\ \A c \in Clients : clientConn = c => hpc[c] \in Registered
  /\ \A c \in Clients, a \in Apps : owed[c][a] \subseteq Made(a)
  /\ \A c \in Clients :
       /\ Recreate(toClient[c], owed[c])
       /\ \A a \in Apps : xconn[c][a].st = "synth" => owed[c][a] \subseteq xconn[c][a].has
       /\ hpc[c] \in {"idle", "hello"} =>
            NoSetup(toClient[c]) /\ \A a \in Apps : xconn[c][a].st # "synth"

LEMMA RecreateMoves ==
  ASSUME NEW q \in Seq(ClientMsg), NEW o
  PROVE  /\ q # <<>> /\ Recreate(q, o) =>
              /\ Recreate(Tail(q), o)
              /\ Head(q).type = "SETUP" => o[Head(q).conn] \subseteq Head(q).res
         /\ q # <<>> /\ NoSetup(q) => NoSetup(Tail(q)) /\ Head(q).type # "SETUP"
         /\ \A m \in ClientMsg :
              /\ Recreate(q, o) /\ (m.type = "SETUP" => o[m.conn] \subseteq m.res)
                   => Recreate(Append(q, m), o)
              /\ NoSetup(q) /\ m.type # "SETUP" => NoSetup(Append(q, m))
<1> USE DEF Recreate, NoSetup
<1>1. ASSUME q # <<>>
      PROVE  /\ 1 \in 1..Len(q) /\ Head(q) = q[1]
             /\ \A i \in 1..Len(Tail(q)) : i + 1 \in 1..Len(q) /\ Tail(q)[i] = q[i + 1]
  BY <1>1
<1>2. ASSUME NEW m \in ClientMsg, NEW i \in 1..Len(Append(q, m))
      PROVE  \/ i \in 1..Len(q) /\ Append(q, m)[i] = q[i]
             \/ Append(q, m)[i] = m
  <2>1. i \in 1..Len(q) + 1 OBVIOUS
  <2>2. CASE i = Len(q) + 1 BY <2>2
  <2>3. CASE i # Len(q) + 1
    <3>1. i \in 1..Len(q) BY <2>1, <2>3
    <3> QED BY <3>1
  <2> QED BY <2>2, <2>3
<1>3. ASSUME q # <<>>, Recreate(q, o)
      PROVE  Recreate(Tail(q), o) /\ (Head(q).type = "SETUP" => o[Head(q).conn] \subseteq Head(q).res)
  BY <1>1, <1>3
<1>4. ASSUME q # <<>>, NoSetup(q) PROVE NoSetup(Tail(q)) /\ Head(q).type # "SETUP"
  BY <1>1, <1>4
<1>5. ASSUME NEW m \in ClientMsg, Recreate(q, o), m.type = "SETUP" => o[m.conn] \subseteq m.res
      PROVE  Recreate(Append(q, m), o)
  BY <1>2, <1>5
<1>6. ASSUME NEW m \in ClientMsg, NoSetup(q), m.type # "SETUP" PROVE NoSetup(Append(q, m))
  BY <1>2, <1>6
<1> QED BY <1>3, <1>4, <1>5, <1>6

LEMMA SeqGrows ==
  ASSUME TypeOK, [Next]_vars, NEW a \in Apps
  PROVE  seqNum'[a] \in Nat /\ seqNum'[a] >= seqNum[a]
<1> USE DEF TypeOK, ServerTypeOK
<1>1. seqNum'[a] \in Nat BY NextType
<1>2. CASE UNCHANGED seqNum BY <1>1, <1>2
<1>3. ASSUME NEW b \in Apps, Relay(b), ~ReadRequest(b) PROVE UNCHANGED seqNum
  BY <1>3 DEF Relay, AcceptApp, TrackApp, SetupUnreadable, SendSetup, LookupClient, WriteRequest,
     WriteRequestFails, FakeReply, ReadRequestFails, UntrackApp, CloseApp, tables
<1>4. ASSUME NEW b \in Apps, ReadRequest(b) PROVE seqNum'[a] >= seqNum[a]
  BY <1>4 DEF ReadRequest
<1>5. ASSUME NEW c \in Clients, AcceptClient(c) \/ Handler(c) PROVE UNCHANGED seqNum
  BY <1>5 DEF Handler, AcceptClient, HelloOk, HelloRejected, ClosePrev, SendResume,
     SnapshotStates, SynthesiseAppConn, SendLive, ClearSynthActive, ReadStamp,
     InjectNothing, WriteInjected, CollectPending, ResendSetup, StartReading, ReadFromClient,
     Deliver, ReadError, Unregister, CloseConn, tables
<1>6. CASE ServerStep BY <1>1, <1>2, <1>3, <1>4, <1>5, <1>6 DEF ServerStep
<1>7. CASE ClientsStep \/ AppsStep \/ UNCHANGED vars
  BY <1>1, <1>2, <1>7 DEF ClientsStep, AppsStep, vars, serverVars, tables
<1> QED BY <1>6, <1>7 DEF Next

LEMMA ReqsGrow ==
  ASSUME TypeOK, [Next]_vars, NEW a \in Apps
  PROVE  \A n \in 1..Len(reqs[a]) : n \in 1..Len(reqs'[a]) /\ reqs'[a][n] = reqs[a][n]
<1> USE DEF TypeOK, ServerTypeOK, AppTypeOK
<1>1. CASE UNCHANGED reqs BY <1>1
<1>2. ASSUME NEW b \in Apps, NEW kind \in ReqKind, AppRequest(b, kind)
      PROVE  \A n \in 1..Len(reqs[a]) : n \in 1..Len(reqs'[a]) /\ reqs'[a][n] = reqs[a][n]
  <2>1. reqs' = [reqs EXCEPT ![b] = Append(@, kind)] BY <1>2 DEF AppRequest
  <2>2. CASE a = b
    <3>1. reqs'[a] = Append(reqs[a], kind) /\ reqs[a] \in Seq(ReqKind) BY <2>1, <2>2
    <3> QED BY <3>1
  <2>3. CASE a # b BY <2>1, <2>3
  <2> QED BY <2>2, <2>3
<1>3. ASSUME NEW c \in Clients, AcceptClient(c) \/ Handler(c) PROVE UNCHANGED reqs
  BY <1>3 DEF Handler, AcceptClient, HelloOk, HelloRejected, ClosePrev, SendResume,
     SnapshotStates, SynthesiseAppConn, SendLive, ClearSynthActive, ReadStamp,
     InjectNothing, WriteInjected, CollectPending, ResendSetup, StartReading, ReadFromClient,
     Deliver, ReadError, Unregister, CloseConn, appVars, AppWrite
<1>4. ASSUME NEW b \in Apps, Relay(b) PROVE UNCHANGED reqs
  BY <1>4 DEF Relay, AcceptApp, TrackApp, SetupUnreadable, SendSetup, ReadRequest, LookupClient,
     WriteRequest, WriteRequestFails, FakeReply, ReadRequestFails, UntrackApp, CloseApp,
     appVars, AppWrite
<1>5. CASE ServerStep BY <1>1, <1>3, <1>4, <1>5 DEF ServerStep
<1>6. CASE ClientsStep \/ UNCHANGED vars BY <1>1, <1>6 DEF ClientsStep, vars, appVars
<1>7. CASE AppsStep BY <1>1, <1>2, <1>7 DEF AppsStep, AppConnect, AppQuit
<1> QED BY <1>5, <1>6, <1>7 DEF Next

LEMMA MadeGrows ==
  ASSUME TypeOK, RidInv, [Next]_vars, NEW a \in Apps
  PROVE  Made(a) \subseteq Made(a)'
<1> DEFINE s == seqNum[a]
           t == seqNum'[a]
<1>1. s \in Nat /\ t \in Nat /\ t >= s BY SeqGrows DEF TypeOK, ServerTypeOK
<1>2. \A n \in 1..Len(reqs[a]) : reqs'[a][n] = reqs[a][n] BY ReqsGrow
<1>3. s <= Len(reqs[a]) /\ Len(reqs[a]) \in Nat BY DEF RidInv, TypeOK, AppTypeOK
<1>4. Made(a) = {n \in 1..s : reqs[a][n] = "state"} /\ Made(a)' = {n \in 1..t : reqs'[a][n] = "state"}
  BY DEF Made
<1> HIDE DEF s, t
<1> QED BY <1>1, <1>2, <1>3, <1>4

\* The current client is registered, however clients come and go.
LEMMA RegisteredStep ==
  ASSUME TypeOK, [Next]_vars, NEW c \in Clients,
         clientConn = c => hpc[c] \in Registered
  PROVE  /\ clientConn' = c => hpc'[c] \in Registered
         /\ hpc'[c] \in {"idle", "hello"} => hpc[c] \in {"idle", "hello"}
<1> DEFINE Goal == /\ clientConn' = c => hpc'[c] \in Registered
                   /\ hpc'[c] \in {"idle", "hello"} => hpc[c] \in {"idle", "hello"}
<1> USE DEF TypeOK, ServerTypeOK, Goto, Registered
<1>1. CASE ~\E d \in Clients : AcceptClient(d) \/ Handler(d)
  BY <1>1, OtherSteps DEF handoverVars
<1>2. ASSUME NEW d \in Clients, AcceptClient(d) \/ Handler(d)
      PROVE  Goal
  <2>1. CASE AcceptClient(d) BY <2>1 DEF AcceptClient, registry
  <2>2. CASE HelloOk(d) BY <2>2 DEF HelloOk
  <2>3. CASE HelloRejected(d) BY <2>3 DEF HelloRejected, registry
  <2>4. CASE ClosePrev(d) BY <2>4 DEF ClosePrev, registry
  <2>5. CASE ClearSynthActive(d) BY <2>5 DEF ClearSynthActive
  <2>6. CASE Unregister(d) BY <2>6, NoClientAssumption DEF Unregister, AfterUnregister
  <2>7. CASE CloseConn(d) BY <2>7 DEF CloseConn, registry
  <2>8. CASE QuietStep(d) BY <2>8 DEF QuietStep, handoverVars, BeforeLive
  <2> QED
    BY <1>2, <2>1, <2>2, <2>3, <2>4, <2>5, <2>6, <2>7, <2>8, HandlerSteps
<1> QED BY <1>1, <1>2

LEMMA KeptStep == TypeOK /\ RidInv /\ KeptInv /\ [Next]_vars => KeptInv'
<1> SUFFICES ASSUME TypeOK, RidInv, KeptInv, [Next]_vars, NEW c \in Clients
             PROVE  /\ clientConn' = c => hpc'[c] \in Registered
                    /\ \A a \in Apps : owed'[c][a] \subseteq Made(a)'
                    /\ Recreate(toClient'[c], owed'[c])
                    /\ \A a \in Apps : xconn'[c][a].st = "synth" => owed'[c][a] \subseteq xconn'[c][a].has
                    /\ hpc'[c] \in {"idle", "hello"} =>
                         NoSetup(toClient'[c]) /\ \A a \in Apps : xconn'[c][a].st # "synth"
  BY DEF KeptInv
<1> DEFINE q == toClient[c]
           r == toClient'[c]
           o == owed[c]
           o2 == owed'[c]
           Early == hpc[c] \in {"idle", "hello"}
           Early2 == hpc'[c] \in {"idle", "hello"}
<1>1. (clientConn' = c => hpc'[c] \in Registered) /\ (Early2 => Early)
  BY RegisteredStep DEF KeptInv
<1>2. /\ Recreate(q, o) /\ \A a \in Apps : o[a] \subseteq Made(a)
      /\ \A a \in Apps : xconn[c][a].st = "synth" => o[a] \subseteq xconn[c][a].has
      /\ Early => clientConn # c /\ NoSetup(q) /\ \A a \in Apps : xconn[c][a].st # "synth"
  BY DEF KeptInv, Registered
<1>3. \A a \in Apps : Made(a) \subseteq Made(a)' BY MadeGrows
<1>4. q \in Seq(ClientMsg) BY DEF TypeOK, WireTypeOK
<1> DEFINE Kept == /\ Recreate(r, o2) /\ \A a \in Apps : o2[a] \subseteq Made(a)'
                   /\ \A a \in Apps : xconn'[c][a].st = "synth" => o2[a] \subseteq xconn'[c][a].has
                   /\ Early2 => NoSetup(r) /\ \A a \in Apps : xconn'[c][a].st # "synth"
<1>5. CASE ServerStep
  <2>1. xconn' = xconn BY <1>5 DEF ServerStep, clientVars
  <2>2. Written(c) BY <1>5, HandlerWrites, RelayWrites DEF ServerStep
  <2>3. ASSUME NEW m, Writing(c, m)
        PROVE  m.type = "SETUP" => /\ clientConn = c
                                   /\ m.conn \in Apps /\ m.res = Made(m.conn)
    BY <2>3 DEF Writing, X11Setup, X11Data, Made, Tracked
  <2>4. \/ o2 = o
        \/ Early /\ o2 = [a \in Apps |-> Made(a)]
    BY <1>5 DEF ServerStep, History, TypeOK
  <2> HIDE DEF q, r, o, o2, Early, Early2
  <2>0. q \in Seq(ClientMsg) BY <1>4 DEF q
  <2>5. r = q \/ \E m \in ClientMsg : r = Append(q, m) /\ Writing(c, m) BY <2>2 DEF Written, q, r
  <2>6. Early => NoSetup(r)
    <3> SUFFICES ASSUME Early PROVE NoSetup(r) OBVIOUS
    <3>1. NoSetup(q) /\ clientConn # c BY <1>2
    <3>2. ASSUME NEW m \in ClientMsg, r = Append(q, m), Writing(c, m) PROVE NoSetup(r)
      <4>1. m.type # "SETUP" BY <2>3, <3>1, <3>2
      <4> QED BY <2>0, <3>1, <3>2, <4>1, RecreateMoves
    <3> QED BY <2>5, <3>1, <3>2
  <2>7. Recreate(r, o2)
    <3>1. CASE o2 = o
      <4>1. ASSUME NEW m \in ClientMsg, r = Append(q, m), Writing(c, m) PROVE Recreate(r, o)
        <5>1. m.type = "SETUP" => o[m.conn] \subseteq m.res BY <1>2, <2>3, <4>1
        <5>2. Recreate(q, o) BY <1>2
        <5> QED BY <2>0, <4>1, <5>1, <5>2, RecreateMoves
      <4> QED BY <1>2, <2>5, <3>1, <4>1
    <3>2. CASE Early BY <2>6, <3>2 DEF Recreate, NoSetup
    <3> QED BY <2>4, <3>1, <3>2
  <2>8. \A a \in Apps : o2[a] \subseteq Made(a)' BY <1>2, <1>3, <2>4
  <2>9. Kept BY <1>1, <1>2, <2>1, <2>4, <2>6, <2>7, <2>8
  <2> QED BY <1>1, <2>9 DEF r, o2, Early2
<1>6. CASE ClientsStep
  <2>1. owed' = owed /\ hpc' = hpc BY <1>6 DEF ClientsStep, serverVars, history
  <2>2. PICK d \in Clients : ClientStep(d) \/ ClientCrash(d) BY <1>6 DEF ClientsStep
  <2>3. CASE Gone(d)
    <3>1. toClient' = [toClient EXCEPT ![d] = <<>>]
          /\ xconn' = [xconn EXCEPT ![d] = [a \in Apps |-> NoXConn]]
      BY <2>3 DEF Gone
    <3>2. CASE c = d
      <4>1. r = <<>> /\ \A a \in Apps : xconn'[c][a].st = "none"
        BY <3>1, <3>2 DEF NoXConn, TypeOK, WireTypeOK, ClientTypeOK
      <4>2. Recreate(r, o2) /\ NoSetup(r) BY <4>1 DEF Recreate, NoSetup
      <4> HIDE DEF r
      <4>3. Kept BY <1>2, <1>3, <2>1, <4>1, <4>2
      <4> QED BY <1>1, <4>3 DEF r
    <3>3. CASE c # d
      <4>1. r = q /\ xconn'[c] = xconn[c]
        BY <3>1, <3>3 DEF TypeOK, WireTypeOK, ClientTypeOK
      <4> QED BY <1>1, <1>2, <1>3, <2>1, <4>1
    <3> QED BY <3>2, <3>3
  <2>4. CASE ~Gone(d)
    <3>0. ClientStep(d) BY <2>2, <2>4 DEF ClientCrash
    <3>1. CASE c = d
      <4>1. Consume(c) /\ q # <<>> BY <2>4, <3>0, <3>1, Reads
      <4>2. \A a \in Apps : ReadInto(Head(q), a, xconn[c][a], xconn'[c][a], live[c])
        BY <2>4, <3>0, <3>1, ReadsOne
      <4>3. r = Tail(q) BY <4>1 DEF Consume, TypeOK, WireTypeOK
      <4> HIDE DEF q, r
      <4>4. Recreate(r, o) /\ (Early => NoSetup(r)) BY <1>2, <1>4, <4>1, <4>3, RecreateMoves
      <4>5. ASSUME NEW a \in Apps, xconn'[c][a].st = "synth"
            PROVE  o[a] \subseteq xconn'[c][a].has /\ ~Early
        <5> DEFINE h == Head(q)
        <5>1. \/ xconn[c][a].st = "synth" /\ xconn[c][a].has \subseteq xconn'[c][a].has
              \/ h.type = "SETUP" /\ h.conn = a /\ xconn'[c][a].has = h.res
          BY <4>2, <4>5 DEF ReadInto
        <5>2. h.type = "SETUP" => o[h.conn] \subseteq h.res /\ ~Early
          BY <1>2, <1>4, <4>1, RecreateMoves
        <5> HIDE DEF h, o, Early
        <5> QED BY <1>2, <5>1, <5>2
      <4>6. Kept BY <1>2, <1>3, <2>1, <4>4, <4>5
      <4> QED BY <1>1, <4>6 DEF r
    <3>2. CASE c # d
      <4>1. Consume(d) /\ xconn'[c] = xconn[c] BY <2>4, <3>0, <3>2, Reads
      <4>2. r = q BY <3>2, <4>1 DEF Consume, TypeOK, WireTypeOK
      <4> QED BY <1>1, <1>2, <1>3, <2>1, <4>1, <4>2
    <3> QED BY <3>1, <3>2
  <2> QED BY <2>3, <2>4
<1>7. CASE AppsStep \/ UNCHANGED vars
  <2>1. UNCHANGED <<toClient, xconn, owed, hpc>>
    BY <1>7 DEF AppsStep, vars, wireVars, clientVars, serverVars, history
  <2> QED BY <1>1, <1>2, <1>3, <2>1
<1> QED BY <1>5, <1>6, <1>7 DEF Next

\* Once a client is live, every resource tracked when it became current is on its
\* display, whatever connects, overlaps, fails or is created meanwhile
\* (synthesis.go:26-27).
THEOREM AllComesBack == Spec => []NothingForgotten
<1>1. Init => KeptInv
  <2> SUFFICES ASSUME Init PROVE KeptInv OBVIOUS
  <2>1. \A c \in Clients : /\ toClient[c] = <<>> /\ hpc[c] = "idle" /\ clientConn # c
                           /\ \A a \in Apps : owed[c][a] = {} /\ xconn[c][a].st = "none"
    BY NoClientAssumption DEF Init, WireInit, ServerInit, ClientInit, NoXConn
  <2>2. Len(<<>>) = 0 /\ 1..0 = {} OBVIOUS
  <2>3. \A c \in Clients : Recreate(toClient[c], owed[c]) /\ NoSetup(toClient[c])
    BY <2>1, <2>2 DEF Recreate, NoSetup
  <2> QED BY <2>1, <2>3 DEF KeptInv
<1>2. Init => RidInv BY DEF Init, AppInit, ServerInit, RidInv
<1>3. TypeOK /\ RidInv /\ [Next]_vars => RidInv' BY RidInvStep
<1>4. KeptInv => NothingForgotten BY DEF KeptInv, NothingForgotten, Serves
<1> QED BY <1>1, <1>2, <1>3, <1>4, KeptStep, TypeCorrect, PTL DEF Spec

-----------------------------------------------------------------------------
(* RequestsHaveConnections.  A client that may be sent a request of an      *)
(* application holds an X connection for it, or has a message before it in  *)
(* its queue that opens one; unless it was resumed beside another, or a     *)
(* superseded reader recorded the application's setup meanwhile.            *)

Held(c) == {a \in Apps : xconn[c][a].st # "none"}
Opening(q, a) == \E i \in 1..Len(q) : OpensFor(q[i], a)

\* In q no request of an application outside X comes before what opens it.
Preceded(q, X) ==
  \A i \in 1..Len(q) : IsRequest(q[i]) =>
    q[i].conn \in X \/ \E j \in 1..i - 1 : OpensFor(q[j], q[i].conn)

\* SETUP messages come before SESSION_LIVE, which was read iff l.
InOrder(q, l) ==
  \A i \in 1..Len(q) : q[i].type = "SETUP" => ~l /\ \A j \in 1..i : q[j].type # "LIVE"

\* The setup replies in q are of applications in X.
Answered(q, X) == \A i \in 1..Len(q) : q[i].kind = "setup" => q[i].conn \in X

Prepared(c, a) ==
  ~srvOpen[c] \/ ~cliOpen[c] \/ a \in Held(c) \/ Opening(toClient[c], a)

Running == HandlerPC \ {"idle", "done"}
PastSynth == HandlerPC \ {"idle", "hello", "closePrev", "resume", "snapshot", "synth"}
Known(a) == apc[a] \notin {"none", "accepted"}

ShutUntilLive == \A c \in Clients \ overlapped : hpc[c] \in BeforeLive => synthActive
Untouched ==
  \A c \in Clients : hpc[c] = "idle" =>
    ~cliOpen[c] /\ ~live[c] /\ toClient[c] = <<>> /\ toServer[c] = <<>>
TrackedOK ==
  /\ \A a \in Apps : /\ apc[a] \in {"tracked", "drain", "lookup", "write", "dropped"} => a \in appState
                     /\ a \in appState \cup ridKnown => Known(a)
  /\ \A c \in Clients : hpc[c] = "deliver" /\ "ac" \in found[c] => Known(hold[c].conn)
SetupsOK ==
  \A c \in Clients : cliOpen[c] =>
    /\ Answered(toServer[c], Held(c))
    /\ hpc[c] = "deliver" /\ hold[c].kind = "setup" => hold[c].conn \in Held(c)
LiveLast ==
  \A c \in Clients \ overlapped :
    /\ InOrder(toClient[c], live[c])
    /\ live[c] \/ HasLive(toClient[c]) => hpc[c] \in PastSynth
PreparedOK ==
  \A c \in Clients, a \in Apps : InTime(c, a) =>
    /\ clientConn = c /\ a \in ridKnown \cap appState /\ Passed(c, a) => Prepared(c, a)
    /\ apc[a] = "write" /\ dst[a] = c => Prepared(c, a)
PrecededOK ==
  \A c \in Clients \ overlapped :
    /\ Preceded(toClient[c], Held(c) \cup late[c])
    /\ \A a \in Apps \ late[c] : xconn[c][a].bad # "request"

OpenInv == /\ HandoverInv /\ ShutUntilLive /\ Untouched /\ TrackedOK
           /\ SetupsOK /\ LiveLast /\ PreparedOK /\ PrecededOK

\* The exceptions only grow in number.
LEMMA TimelyStep ==
  ASSUME TypeOK, [Next]_vars, NEW c \in Clients
  PROVE  /\ c \notin overlapped' => c \notin overlapped
         /\ late[c] \subseteq late'[c]
         /\ \A a \in Apps : InTime(c, a)' => InTime(c, a)
         /\ ~ServerStep => UNCHANGED <<overlapped, late>>
<1>1. overlapped \subseteq overlapped' BY OverlapStep
<1>2. late[c] \subseteq late'[c] /\ (~ServerStep => UNCHANGED <<overlapped, late>>)
  BY DEF Next, ServerStep, History, ClientsStep, AppsStep, vars, history
<1> QED BY <1>1, <1>2 DEF InTime

\* A superseded reader that records a setup is noticed.
LEMMA LateNoted ==
  ASSUME TypeOK, ServerStep, NEW c \in Clients, NEW a \in Apps, InTime(c, a)', clientConn = c,
         hpc'[c] = hpc[c], Passed(c, a), a \in ridKnown'
  PROVE  a \in ridKnown
BY DEF ServerStep, History, InTime

\* A client resumed alone, once current, is the only one being resumed.
LEMMA ByCurrent ==
  ASSUME HandoverInv, NEW c \in Clients, clientConn = c, c \notin overlapped,
         NEW d \in Clients, hpc[d] \in BeforeLive
  PROVE  d = c
BY DEF HandoverInv

-----------------------------------------------------------------------------
(* A message is added to a queue, or the first is taken. *)

LEMMA Grown ==
  ASSUME NEW M, NEW q \in Seq(M), NEW m \in M
  PROVE  /\ \A i \in 1..Len(q) : i \in 1..Len(Append(q, m)) /\ Append(q, m)[i] = q[i]
         /\ \A i \in 1..Len(Append(q, m)) :
              i \in 1..Len(q) \/ (i = Len(q) + 1 /\ Append(q, m)[i] = m)
         /\ Len(q) + 1 \in 1..Len(Append(q, m)) /\ Append(q, m)[Len(q) + 1] = m
<1> DEFINE r == Append(q, m)
           n == Len(q)
<1>1. n \in Nat /\ Len(r) = n + 1 OBVIOUS
<1>2. (\A i \in 1..n : r[i] = q[i]) /\ r[n + 1] = m OBVIOUS
<1> HIDE DEF r, n
<1>3. /\ \A i \in 1..n + 1 : i \in 1..n \/ i = n + 1
      /\ \A i \in 1..n : i \in 1..n + 1
      /\ n + 1 \in 1..n + 1
  BY <1>1
<1> QED BY <1>1, <1>2, <1>3 DEF r, n

LEMMA Shrunk ==
  ASSUME NEW M, NEW q \in Seq(M), q # <<>>
  PROVE  /\ 1 \in 1..Len(q) /\ Head(q) = q[1] /\ Len(q) \in Nat
         /\ \A i \in 1..Len(Tail(q)) : i + 1 \in 1..Len(q) /\ Tail(q)[i] = q[i + 1]
         /\ \A i \in 1..Len(q) : i # 1 => i - 1 \in 1..Len(Tail(q)) /\ Tail(q)[i - 1] = q[i]
<1>1. Len(q) \in Nat /\ Len(q) > 0 /\ Len(Tail(q)) = Len(q) - 1 OBVIOUS
<1>2. \A i \in 1..Len(Tail(q)) : Tail(q)[i] = q[i + 1] OBVIOUS
<1>3. \A i \in 1..Len(q) : i # 1 => i - 1 \in 1..Len(Tail(q)) /\ (i - 1) + 1 = i BY <1>1
<1>4. \A i \in 1..Len(Tail(q)) : i + 1 \in 1..Len(q) BY <1>1
<1>5. 1 \in 1..Len(q) /\ Head(q) = q[1] BY <1>1
<1>6. \A i \in 1..Len(q) : i # 1 => Tail(q)[i - 1] = q[i] BY <1>2, <1>3
<1> QED BY <1>1, <1>2, <1>3, <1>4, <1>5, <1>6

LEMMA OpeningMoves ==
  ASSUME NEW q \in Seq(ClientMsg), NEW a
  PROVE  /\ \A m \in ClientMsg : OpensFor(m, a) \/ Opening(q, a) => Opening(Append(q, m), a)
         /\ Opening(q, a) => q # <<>> /\ (OpensFor(Head(q), a) \/ Opening(Tail(q), a))
<1> USE DEF Opening
<1>1. ASSUME NEW m \in ClientMsg, OpensFor(m, a) \/ Opening(q, a) PROVE Opening(Append(q, m), a)
  BY <1>1, Grown
<1>2. ASSUME Opening(q, a) PROVE q # <<>> /\ (OpensFor(Head(q), a) \/ Opening(Tail(q), a))
  <2>1. PICK i \in 1..Len(q) : OpensFor(q[i], a) BY <1>2
  <2>2. q # <<>> BY <2>1
  <2>3. CASE i = 1 BY <2>1, <2>2, <2>3
  <2>4. CASE i # 1 BY <2>1, <2>2, <2>4, Shrunk
  <2> QED BY <2>2, <2>3, <2>4
<1> QED BY <1>1, <1>2

LEMMA PrecededMoves ==
  ASSUME NEW q \in Seq(ClientMsg), NEW X, Preceded(q, X)
  PROVE  /\ \A m \in ClientMsg : (IsRequest(m) => m.conn \in X \/ Opening(q, m.conn))
                                   => Preceded(Append(q, m), X)
         /\ \A Y : q # <<>> /\ X \subseteq Y /\ (\A a \in Apps : OpensFor(Head(q), a) => a \in Y)
                     => Preceded(Tail(q), Y)
         /\ q # <<>> /\ IsRequest(Head(q)) => Head(q).conn \in X
<1>1. ASSUME NEW m \in ClientMsg, IsRequest(m) => m.conn \in X \/ Opening(q, m.conn)
      PROVE  Preceded(Append(q, m), X)
  <2> DEFINE r == Append(q, m)
  <2> SUFFICES ASSUME NEW i \in 1..Len(r), IsRequest(r[i]), r[i].conn \notin X
               PROVE  \E j \in 1..i - 1 : OpensFor(r[j], r[i].conn)
    BY DEF Preceded
  <2>0. Len(q) \in Nat OBVIOUS
  <2>1. (\A j \in 1..Len(q) : r[j] = q[j]) /\ (i \in 1..Len(q) \/ (i = Len(q) + 1 /\ r[i] = m))
    BY Grown
  <2> HIDE DEF r
  <2>2. CASE i \in 1..Len(q)
    <3>1. PICK j \in 1..i - 1 : OpensFor(q[j], q[i].conn) BY <2>1, <2>2 DEF Preceded
    <3>2. j \in 1..Len(q) BY <2>0, <2>2
    <3> QED BY <2>1, <2>2, <3>1, <3>2
  <2>3. CASE i = Len(q) + 1 /\ r[i] = m
    <3>1. PICK j \in 1..Len(q) : OpensFor(q[j], m.conn) BY <1>1, <2>3 DEF Opening
    <3>2. j \in 1..i - 1 BY <2>0, <2>3
    <3> QED BY <2>1, <2>3, <3>1, <3>2
  <2> QED BY <2>1, <2>2, <2>3
<1>2. ASSUME NEW Y, q # <<>>, X \subseteq Y, \A a \in Apps : OpensFor(Head(q), a) => a \in Y
      PROVE  Preceded(Tail(q), Y)
  <2> DEFINE r == Tail(q)
  <2> SUFFICES ASSUME NEW i \in 1..Len(r), IsRequest(r[i]), r[i].conn \notin Y
               PROVE  \E j \in 1..i - 1 : OpensFor(r[j], r[i].conn)
    BY DEF Preceded
  <2>1. /\ i + 1 \in 1..Len(q) /\ r[i] = q[i + 1] /\ Head(q) = q[1] /\ Len(q) \in Nat
        /\ \A j \in 1..Len(q) : j # 1 => r[j - 1] = q[j]
    BY <1>2, Shrunk
  <2>2. q[i + 1] \in ClientMsg BY <2>1
  <2>3. r[i].conn \in Apps BY <2>1, <2>2 DEF IsRequest, ClientMsg
  <2> HIDE DEF r
  <2>4. PICK j \in 1..i : OpensFor(q[j], r[i].conn) BY <1>2, <2>1 DEF Preceded
  <2>5. j # 1 BY <1>2, <2>1, <2>3, <2>4
  <2>6. j - 1 \in 1..i - 1 /\ j \in 1..Len(q) BY <2>1, <2>4, <2>5
  <2> QED BY <2>1, <2>4, <2>5, <2>6
<1>3. ASSUME q # <<>>, IsRequest(Head(q)) PROVE Head(q).conn \in X
  <2>1. 1 \in 1..Len(q) /\ Head(q) = q[1] BY <1>3, Shrunk
  <2>2. 1..1 - 1 = {} OBVIOUS
  <2> QED BY <1>3, <2>1, <2>2 DEF Preceded
<1> QED BY <1>1, <1>2, <1>3

LEMMA InOrderMoves ==
  ASSUME NEW q \in Seq(ClientMsg), NEW l \in BOOLEAN, InOrder(q, l)
  PROVE  /\ \A m \in ClientMsg : (m.type = "SETUP" => ~l /\ ~HasLive(q)) => InOrder(Append(q, m), l)
         /\ q # <<>> => /\ (Head(q).type = "SETUP" => ~l)
                        /\ \A k \in BOOLEAN : (k => l \/ Head(q).type = "LIVE") => InOrder(Tail(q), k)
<1>1. ASSUME NEW m \in ClientMsg, m.type = "SETUP" => ~l /\ ~HasLive(q)
      PROVE  InOrder(Append(q, m), l)
  <2> DEFINE r == Append(q, m)
  <2> SUFFICES ASSUME NEW i \in 1..Len(r), r[i].type = "SETUP", NEW j \in 1..i
               PROVE  ~l /\ r[j].type # "LIVE"
    <3>1. \A n \in 1..Len(r) : n \in 1..n OBVIOUS
    <3> QED BY <3>1 DEF InOrder
  <2>0. Len(q) \in Nat OBVIOUS
  <2>1. (\A n \in 1..Len(q) : r[n] = q[n]) /\ (i \in 1..Len(q) \/ (i = Len(q) + 1 /\ r[i] = m))
    BY Grown
  <2> HIDE DEF r
  <2>2. CASE i \in 1..Len(q)
    <3>1. j \in 1..Len(q) BY <2>0, <2>2
    <3> QED BY <2>1, <2>2, <3>1 DEF InOrder
  <2>3. CASE i = Len(q) + 1 /\ r[i] = m
    <3>1. ~l /\ \A n \in 1..Len(q) : q[n].type # "LIVE" BY <1>1, <2>3 DEF HasLive
    <3>2. j \in 1..Len(q) \/ j = i BY <2>0, <2>3
    <3> QED BY <2>1, <2>3, <3>1, <3>2
  <2> QED BY <2>1, <2>2, <2>3
<1>2. ASSUME q # <<>>, NEW k \in BOOLEAN, k => l \/ Head(q).type = "LIVE"
      PROVE  InOrder(Tail(q), k)
  <2> DEFINE r == Tail(q)
  <2> SUFFICES ASSUME NEW i \in 1..Len(r), r[i].type = "SETUP", NEW j \in 1..i
               PROVE  ~k /\ r[j].type # "LIVE"
    <3>1. \A n \in 1..Len(r) : n \in 1..n OBVIOUS
    <3> QED BY <3>1 DEF InOrder
  <2>1. /\ Head(q) = q[1] /\ Len(r) \in Nat
        /\ \A n \in 1..Len(r) : n + 1 \in 1..Len(q) /\ r[n] = q[n + 1]
    BY <1>2, Shrunk
  <2> HIDE DEF r
  <2>2. ~l /\ \A n \in 1..i + 1 : q[n].type # "LIVE" BY <2>1 DEF InOrder
  <2>3. 1 \in 1..i + 1 /\ j + 1 \in 1..i + 1 /\ j \in 1..Len(r) BY <2>1
  <2> QED BY <1>2, <2>1, <2>2, <2>3
<1>3. ASSUME q # <<>>, Head(q).type = "SETUP" PROVE ~l
  BY <1>3, Shrunk DEF InOrder
<1> QED BY <1>1, <1>2, <1>3

LEMMA AnsweredMoves ==
  ASSUME NEW q \in Seq(ServerMsg), NEW X, Answered(q, X)
  PROVE  /\ \A Y : X \subseteq Y => Answered(q, Y)
         /\ \A m \in ServerMsg : (m.kind = "setup" => m.conn \in X) => Answered(Append(q, m), X)
         /\ q # <<>> => /\ Answered(Tail(q), X)
                        /\ Head(q).kind = "setup" => Head(q).conn \in X
<1> USE DEF Answered
<1>1. ASSUME NEW m \in ServerMsg, m.kind = "setup" => m.conn \in X PROVE Answered(Append(q, m), X)
  BY <1>1, Grown
<1>2. ASSUME q # <<>>
      PROVE  Answered(Tail(q), X) /\ (Head(q).kind = "setup" => Head(q).conn \in X)
  BY <1>2, Shrunk
<1> QED BY <1>1, <1>2

-----------------------------------------------------------------------------
(* A step of the clients *)

Stopped(c) ==
  /\ ~cliOpen'[c] /\ cliOpen[c]
  /\ toClient'[c] = <<>> /\ toServer'[c] = toServer[c] /\ live'[c] = live[c]
  /\ \A a \in Apps : xconn'[c][a].bad # "request"

ReadOn(c, h) ==
  /\ cliOpen[c] /\ cliOpen'[c]
  /\ toClient[c] # <<>> /\ toClient'[c] = Tail(toClient[c])
  /\ live'[c] => live[c] \/ h.type = "LIVE"
  /\ \A a \in Apps : ReadInto(h, a, xconn[c][a], xconn'[c][a], live[c])
  /\ \/ toServer'[c] = toServer[c]
     \/ \E m \in ServerMsg : /\ toServer'[c] = Append(toServer[c], m)
                             /\ m.kind = "setup" => m.conn \in Held(c)'

Untroubled(c) ==
  /\ toClient'[c] = toClient[c] /\ toServer'[c] = toServer[c]
  /\ cliOpen'[c] = cliOpen[c] /\ live'[c] = live[c] /\ xconn'[c] = xconn[c]

\* What reading a message sends to the server.
LEMMA Sends ==
  ASSUME TypeOK, NEW d \in Clients, ClientStep(d), ~Gone(d), NEW c \in Clients
  PROVE  \/ toServer'[c] = toServer[c]
         \/ /\ c = d
            /\ \E m \in ServerMsg : /\ toServer'[c] = Append(toServer[c], m)
                                    /\ m.kind = "setup" => m.conn \in Held(c)'
<1> USE DEF TypeOK, WireTypeOK, ClientTypeOK
<1>1. CASE UNCHANGED toServer BY <1>1
<1>2. CASE RecvSetupBytes(d)
  <2>1. PICK m \in Inbox(d) :
          /\ m.type = "DATA"
          /\ \/ UNCHANGED toServer
             \/ /\ xconn' = [xconn EXCEPT ![d][m.conn] = FreshXConn]
                /\ Output(d, XOutput(m.conn, "setup", 0))
    BY <1>2 DEF RecvSetupBytes
  <2>0. m \in ClientMsg /\ m.type = "DATA" BY <2>1, InboxType
  <2>2. m.conn \in Apps BY <2>0 DEF ClientMsg
  <2> DEFINE o == XOutput(m.conn, "setup", 0)
  <2>3. o \in ServerMsg /\ o.conn = m.conn BY <2>2, OutputType DEF XOutput
  <2>4. CASE /\ xconn' = [xconn EXCEPT ![d][m.conn] = FreshXConn]
             /\ Output(d, XOutput(m.conn, "setup", 0))
    <3>1. m.conn \in Held(d)' BY <2>2, <2>4 DEF Held, FreshXConn, NoXConn
    <3>2. Output(d, o) BY <2>4
    <3> HIDE DEF o
    <3>3. toServer' = [toServer EXCEPT ![d] = Append(@, o)] BY <3>2 DEF Output
    <3>4. CASE c = d BY <2>3, <3>1, <3>3, <3>4
    <3>5. CASE c # d BY <3>3, <3>5
    <3> QED BY <3>4, <3>5
  <2> QED BY <1>1, <2>1, <2>4
<1>3. CASE RecvRequest(d)
  <2>1. PICK m \in Inbox(d), n \in Nat :
          /\ m.type = "DATA"
          /\ UNCHANGED toServer \/ Output(d, XOutput(m.conn, "reply", n))
    <3>1. PICK m \in Inbox(d) :
            LET x == xconn[d][m.conn] IN
              /\ m.type = "DATA"
              /\ UNCHANGED toServer \/ Output(d, XOutput(m.conn, "reply", x.base + x.cnt + 1))
      BY <1>3 DEF RecvRequest, IsRequest
    <3>0. m \in ClientMsg /\ m.type = "DATA" BY <3>1, InboxType
    <3>2. m.conn \in Apps BY <3>0 DEF ClientMsg
    <3>3. xconn[d][m.conn] \in XConn BY <3>2
    <3>4. xconn[d][m.conn].base + xconn[d][m.conn].cnt + 1 \in Nat BY <3>3 DEF XConn
    <3> QED BY <3>1, <3>4
  <2>0. m \in ClientMsg /\ m.type = "DATA" BY <2>1, InboxType
  <2>2. m.conn \in Apps BY <2>0 DEF ClientMsg
  <2> DEFINE o == XOutput(m.conn, "reply", n)
  <2>3. o \in ServerMsg /\ o.kind # "setup" BY <2>2, OutputType DEF XOutput
  <2> HIDE DEF o
  <2>4. CASE Output(d, o)
    <3>1. toServer' = [toServer EXCEPT ![d] = Append(@, o)] BY <2>4 DEF Output
    <3>2. CASE c = d BY <2>3, <3>1, <3>2
    <3>3. CASE c # d BY <3>1, <3>3
    <3> QED BY <3>2, <3>3
  <2> QED BY <1>1, <2>1, <2>4 DEF o
<1> QED
  BY <1>1, <1>2, <1>3 DEF ClientStep, RecvIgnored, RecvX11Setup, RecvLive, ClientExit

LEMMA ClientMoves ==
  ASSUME TypeOK, ClientsStep, NEW c \in Clients
  PROVE  srvOpen' = srvOpen /\ (Stopped(c) \/ ReadOn(c, Head(toClient[c])) \/ Untroubled(c))
<1> USE DEF TypeOK, WireTypeOK, ClientTypeOK
<1>1. PICK d \in Clients : ClientStep(d) \/ ClientCrash(d) BY DEF ClientsStep
<1>2. CASE Gone(d)
  <2>1. cliOpen[d] /\ srvOpen' = srvOpen
    BY <1>1, <1>2 DEF Gone, ClientCrash, ClientStep, ClientExit, RecvIgnored, RecvX11Setup,
       RecvLive, RecvSetupBytes, RecvRequest, Inbox
  <2>2. CASE c = d BY <1>2, <2>1, <2>2 DEF Gone, Stopped, NoXConn
  <2>3. CASE c # d BY <1>2, <2>3 DEF Gone, Untroubled
  <2> QED BY <2>1, <2>2, <2>3
<1>3. CASE ~Gone(d)
  <2>1. ClientStep(d) BY <1>1, <1>3 DEF ClientCrash
  <2>2. /\ cliOpen[d] /\ toClient[d] # <<>> /\ Consume(d)
        /\ \A e \in Clients : e # d => xconn'[e] = xconn[e]
    BY <1>3, <2>1, Reads
  <2>3. srvOpen' = srvOpen /\ cliOpen' = cliOpen /\ toClient' = [toClient EXCEPT ![d] = Tail(@)]
    BY <2>2 DEF Consume
  <2>4. CASE c = d
    <3>1. \A a \in Apps : ReadInto(Head(toClient[c]), a, xconn[c][a], xconn'[c][a], live[c])
      BY <1>3, <2>1, <2>4, ReadsOne
    <3>2. live'[c] => live[c] \/ Head(toClient[c]).type = "LIVE"
      BY <1>3, <2>1, <2>4, InboxType DEF ClientStep, RecvIgnored, RecvX11Setup, RecvLive,
         RecvSetupBytes, RecvRequest, ClientExit, Inbox, clientVars
    <3>3. toClient'[c] = Tail(toClient[c]) BY <2>3, <2>4
    <3>4. \/ toServer'[c] = toServer[c]
          \/ \E m \in ServerMsg : /\ toServer'[c] = Append(toServer[c], m)
                                  /\ m.kind = "setup" => m.conn \in Held(c)'
      BY <1>3, <2>1, Sends
    <3> QED BY <2>2, <2>3, <2>4, <3>1, <3>2, <3>3, <3>4 DEF ReadOn
  <2>5. CASE c # d
    <3>1. toServer'[c] = toServer[c] BY <1>3, <2>1, <2>5, Sends
    <3>2. live'[c] = live[c]
      BY <1>3, <2>1, <2>5 DEF ClientStep, RecvIgnored, RecvX11Setup, RecvLive,
         RecvSetupBytes, RecvRequest, ClientExit, clientVars
    <3> QED BY <2>2, <2>3, <2>5, <3>1, <3>2 DEF Untroubled
  <2> QED BY <2>3, <2>4, <2>5
<1> QED BY <1>2, <1>3

LEMMA ClientsOpen ==
  ASSUME TypeOK, OpenInv, ClientsStep
  PROVE  OpenInv'
<1> USE DEF TypeOK, WireTypeOK, ClientTypeOK
<1>1. UNCHANGED serverVars /\ srvOpen' = srvOpen
  <2>1. \A c \in Clients : srvOpen' = srvOpen BY ClientMoves
  <2> QED BY <2>1 DEF ClientsStep
<1>0. UNCHANGED <<overlapped, late>> BY DEF ClientsStep, history
<1>2. HandoverInv' /\ ShutUntilLive' /\ TrackedOK'
  BY <1>0, <1>1 DEF OpenInv, HandoverInv, ShutUntilLive, TrackedOK, Known, serverVars, registry,
     tables, relays, locals
<1>3. ASSUME NEW c \in Clients
      PROVE  /\ hpc[c] = "idle" => Untroubled(c)
             /\ Answered(toServer[c], Held(c)) \/ ~cliOpen[c]
             /\ c \notin overlapped => /\ InOrder(toClient[c], live[c])
                                      /\ Preceded(toClient[c], Held(c) \cup late[c])
             /\ Stopped(c) \/ ReadOn(c, Head(toClient[c])) \/ Untroubled(c)
  <2>1. Stopped(c) \/ ReadOn(c, Head(toClient[c])) \/ Untroubled(c) BY ClientMoves
  <2>2. hpc[c] = "idle" => ~cliOpen[c] BY DEF OpenInv, Untouched
  <2> QED BY <2>1, <2>2 DEF OpenInv, SetupsOK, LiveLast, PrecededOK, Stopped, ReadOn
<1>4. ASSUME NEW c \in Clients, ReadOn(c, Head(toClient[c]))
      PROVE  /\ Held(c) \subseteq Held(c)' /\ cliOpen[c]
             /\ Answered(toServer'[c], Held(c)')
             /\ live'[c] \/ HasLive(toClient'[c]) => live[c] \/ HasLive(toClient[c])
             /\ c \notin overlapped =>
                  /\ InOrder(toClient'[c], live'[c])
                  /\ Preceded(toClient'[c], Held(c)' \cup late[c])
                  /\ \A a \in Apps : Opening(toClient[c], a) => a \in Held(c)' \/ Opening(toClient'[c], a)
                  /\ \A a \in Apps \ late[c] : xconn'[c][a].bad # "request"
  <2> DEFINE q == toClient[c]
             r == toClient'[c]
             h == Head(q)
  <2>1. q \in Seq(ClientMsg) /\ q # <<>> /\ r = Tail(q) /\ live[c] \in BOOLEAN /\ live'[c] \in BOOLEAN
    <3>1. live'[c] \in BOOLEAN BY NextType DEF Next
    <3> QED BY <1>4, <3>1 DEF ReadOn
  <2>2. /\ cliOpen[c] /\ (live'[c] => live[c] \/ h.type = "LIVE")
        /\ \A a \in Apps : ReadInto(h, a, xconn[c][a], xconn'[c][a], live[c])
    BY <1>4 DEF ReadOn
  <2>3. /\ c \notin overlapped => InOrder(q, live[c]) /\ Preceded(q, Held(c) \cup late[c])
        /\ Answered(toServer[c], Held(c))
    BY <1>3, <2>2
  <2>4. Held(c) \subseteq Held(c)' BY <2>2 DEF Held, ReadInto
  <2>5. c \notin overlapped => (h.type = "SETUP" => ~live[c]) /\ InOrder(r, live'[c])
    <3> HIDE DEF q, r, h
    <3> QED BY <2>1, <2>2, <2>3, InOrderMoves DEF h
  <2>6. c \notin overlapped => \A a \in Apps : OpensFor(h, a) => a \in Held(c)'
    BY <2>2, <2>5 DEF ReadInto, Held
  <2>7. c \notin overlapped => /\ Preceded(r, Held(c)' \cup late[c])
                              /\ (IsRequest(h) => h.conn \in Held(c) \cup late[c])
    <3> DEFINE X == Held(c) \cup late[c]
               Y == Held(c)' \cup late[c]
    <3> SUFFICES ASSUME c \notin overlapped
                 PROVE  Preceded(r, Y) /\ (IsRequest(h) => h.conn \in X)
      OBVIOUS
    <3>1. X \subseteq Y /\ (\A a \in Apps : OpensFor(h, a) => a \in Y) /\ Preceded(q, X)
      BY <2>3, <2>4, <2>6
    <3> HIDE DEF q, r, h, X, Y
    <3> QED BY <2>1, <3>1, PrecededMoves DEF h
  <2>8. Answered(toServer'[c], Held(c)')
    <3>1. Answered(toServer[c], Held(c)') /\ toServer[c] \in Seq(ServerMsg)
      BY <2>3, <2>4, AnsweredMoves
    <3>2. CASE toServer'[c] = toServer[c] BY <3>1, <3>2
    <3>3. ASSUME NEW m \in ServerMsg, toServer'[c] = Append(toServer[c], m),
                 m.kind = "setup" => m.conn \in Held(c)'
          PROVE  Answered(toServer'[c], Held(c)')
      BY <3>1, <3>3, AnsweredMoves
    <3> QED BY <1>4, <3>2, <3>3 DEF ReadOn
  <2>9. live'[c] \/ HasLive(r) => live[c] \/ HasLive(q)
    <3>1. 1 \in 1..Len(q) /\ h = q[1] /\ \A i \in 1..Len(r) : i + 1 \in 1..Len(q) /\ r[i] = q[i + 1]
      BY <2>1, Shrunk
    <3> HIDE DEF q, r, h
    <3> QED BY <2>2, <3>1 DEF HasLive
  <2>10. ASSUME c \notin overlapped, NEW a \in Apps
         PROVE  /\ Opening(q, a) => a \in Held(c)' \/ Opening(r, a)
                /\ a \notin late[c] => xconn'[c][a].bad # "request"
    <3>1. a \notin late[c] => xconn[c][a].bad # "request" BY <2>10 DEF OpenInv, PrecededOK
    <3>2. a \notin late[c] => xconn'[c][a].bad # "request"
      BY <2>2, <2>7, <2>10, <3>1 DEF ReadInto, Held
    <3> HIDE DEF q, r, h
    <3>3. Opening(q, a) => OpensFor(h, a) \/ Opening(r, a) BY <2>1, OpeningMoves DEF h
    <3> QED BY <2>6, <2>10, <3>2, <3>3
  <2> QED BY <2>2, <2>4, <2>5, <2>7, <2>8, <2>9, <2>10
<1>5. ASSUME NEW c \in Clients, Untroubled(c)
      PROVE  Held(c)' = Held(c)
  BY <1>5 DEF Untroubled, Held
<1>6. Untouched' BY <1>1, <1>3 DEF OpenInv, Untouched, Untroubled, serverVars
<1>7. SetupsOK'
  BY <1>1, <1>3, <1>4, <1>5 DEF OpenInv, SetupsOK, Untroubled, Stopped, serverVars, locals
<1>8. LiveLast'
  <2>1. InOrder(<<>>, TRUE) /\ InOrder(<<>>, FALSE) /\ ~HasLive(<<>>)
    <3>1. Len(<<>>) = 0 /\ 1..0 = {} OBVIOUS
    <3> QED BY <3>1 DEF InOrder, HasLive
  <2> QED
    BY <1>0, <1>1, <1>3, <1>4, <1>5, <2>1 DEF OpenInv, LiveLast, Untroubled, Stopped, serverVars
<1>9. PreparedOK'
  <2>1. ASSUME NEW c \in Clients \ overlapped, NEW a \in Apps, Prepared(c, a)
        PROVE  Prepared(c, a)'
    BY <1>1, <1>3, <1>4, <1>5, <2>1 DEF Prepared, Untroubled, Stopped
  <2>2. UNCHANGED <<clientConn, ridKnown, appState, apc, dst, hpc, todo>>
    BY <1>1 DEF serverVars, registry, tables, relays, locals
  <2>3. \A c \in Clients, a \in Apps : Passed(c, a)' = Passed(c, a) BY <2>2 DEF Passed
  <2>4. \A c \in Clients, a \in Apps : InTime(c, a)' => InTime(c, a) /\ c \notin overlapped
    BY <1>0 DEF InTime
  <2> QED BY <2>1, <2>2, <2>3, <2>4 DEF OpenInv, PreparedOK
<1>10. PrecededOK'
  <2>1. \A X : Preceded(<<>>, X)
    <3>1. Len(<<>>) = 0 /\ 1..0 = {} OBVIOUS
    <3> QED BY <3>1 DEF Preceded
  <2> SUFFICES ASSUME NEW c \in Clients \ overlapped
               PROVE  /\ Preceded(toClient'[c], Held(c)' \cup late[c])
                      /\ \A a \in Apps \ late[c] : xconn'[c][a].bad # "request"
    BY <1>0 DEF PrecededOK
  <2>2. CASE Stopped(c) BY <2>1, <2>2 DEF Stopped
  <2>3. CASE ReadOn(c, Head(toClient[c])) BY <1>4, <2>3
  <2>4. CASE Untroubled(c)
    <3>1. Held(c)' = Held(c) /\ toClient'[c] = toClient[c] /\ xconn'[c] = xconn[c]
      BY <1>5, <2>4 DEF Untroubled
    <3> QED BY <3>1 DEF OpenInv, PrecededOK
  <2> QED BY <1>3, <2>2, <2>3, <2>4
<1> QED BY <1>2, <1>6, <1>7, <1>8, <1>9, <1>10 DEF OpenInv

-----------------------------------------------------------------------------
(* A step of the server *)

\* A handler's step is its own, and leads to SESSION_LIVE and not back.
LEMMA HandlerAt ==
  ASSUME TypeOK, NEW d \in Clients, Handler(d)
  PROVE  /\ hpc[d] \in Running
         /\ hpc'[d] # "idle"
         /\ \A e \in Clients : e # d => hpc'[e] = hpc[e]
         /\ hpc[d] \in PastSynth => hpc'[d] \in PastSynth
         /\ cliOpen' = cliOpen
<1> DEFINE Goal == /\ hpc[d] \in Running
                   /\ hpc'[d] # "idle"
                   /\ \A e \in Clients : e # d => hpc'[e] = hpc[e]
                   /\ hpc[d] \in PastSynth => hpc'[d] \in PastSynth
                   /\ cliOpen' = cliOpen
<1> USE DEF TypeOK, ServerTypeOK, Running, PastSynth, HandlerPC, Goto
<1>1. ASSUME HelloOk(d) \/ HelloRejected(d) \/ ClosePrev(d) \/ SendResume(d)
      PROVE  Goal
  BY <1>1 DEF HelloOk, HelloRejected, ClosePrev, SendResume, wireVars
<1>2. ASSUME SnapshotStates(d) \/ SynthesiseAppConn(d) \/ SendLive(d) \/ ClearSynthActive(d)
      PROVE  Goal
  BY <1>2 DEF SnapshotStates, SynthesiseAppConn, SendLive, AfterLive, ClearSynthActive, wireVars
<1>3. ASSUME ReadStamp(d) \/ InjectNothing(d) \/ WriteInjected(d) \/ CollectPending(d)
      PROVE  Goal
  BY <1>3 DEF ReadStamp, InjectNothing, WriteInjected, CollectPending, wireVars
<1>4. ASSUME ResendSetup(d) \/ StartReading(d) \/ ReadFromClient(d) \/ Deliver(d)
      PROVE  Goal
  BY <1>4 DEF ResendSetup, StartReading, ReadFromClient, Deliver, wireVars
<1>5. ASSUME ReadError(d) \/ Unregister(d) \/ CloseConn(d)
      PROVE  Goal
  BY <1>5 DEF ReadError, Unregister, CloseConn, wireVars
<1> QED BY <1>1, <1>2, <1>3, <1>4, <1>5 DEF Handler

LEMMA RelayAt ==
  ASSUME TypeOK, TrackedOK, NEW a \in Apps, Relay(a)
  PROVE  /\ UNCHANGED <<hpc, clientConn, synthActive, srvOpen, cliOpen, toServer, todo, hold,
                        found, ridKnown>>
         /\ TrackedOK'
         /\ \A b \in Apps : b \in ridKnown' \cap appState' => b \in ridKnown \cap appState
<1>1. UNCHANGED <<hpc, clientConn, synthActive, srvOpen, cliOpen, toServer, todo, hold, found,
                  ridKnown>>
  BY DEF Relay, AcceptApp, TrackApp, SetupUnreadable, SendSetup, ReadRequest, LookupClient,
     WriteRequest, WriteRequestFails, FakeReply, ReadRequestFails, UntrackApp, CloseApp,
     registry, tables, locals, wireVars
<1>0. \A c \in Clients : hpc[c] = "deliver" => hold[c].conn \in Apps
  <2>1. \A c \in Clients : hpc[c] = "deliver" => hold[c] \in ServerMsg
    BY DEF TypeOK, ServerTypeOK
  <2> QED BY <2>1 DEF ServerMsg
<1>2. ASSUME NEW pc, apc' = [apc EXCEPT ![a] = pc], appState' = appState, Known(a),
             pc \notin {"none", "accepted", "tracked"},
             pc \in {"drain", "lookup", "write", "dropped"} =>
               apc[a] \in {"tracked", "drain", "lookup", "write", "dropped"}
      PROVE  TrackedOK' /\ appState' = appState
  <2>1. apc'[a] = pc /\ Known(a)' /\ \A b \in Apps : b # a => apc'[b] = apc[b]
    BY <1>2 DEF TypeOK, ServerTypeOK, Known
  <2>2. \A b \in Apps : Known(b) => Known(b)' BY <2>1 DEF Known
  <2>3. \A b \in Apps : apc'[b] \in {"tracked", "drain", "lookup", "write", "dropped"} =>
                           b \in appState
    BY <1>2, <2>1 DEF TrackedOK
  <2>4. \A b \in Apps : b \in appState \cup ridKnown => Known(b)' BY <2>2 DEF TrackedOK
  <2>5. \A c \in Clients : hpc[c] = "deliver" /\ "ac" \in found[c] => Known(hold[c].conn)'
    BY <1>0, <1>1, <2>2 DEF TrackedOK, Known
  <2> QED BY <1>1, <1>2, <2>3, <2>4, <2>5 DEF TrackedOK, Known
<1> USE DEF GotoApp
<1>3. CASE AcceptApp(a)
  <2>1. apc[a] = "none" /\ apc' = [apc EXCEPT ![a] = "accepted"] /\ appState' = appState
    BY <1>3 DEF AcceptApp
  <2>2. a \notin appState \cup ridKnown BY <2>1 DEF TrackedOK, Known
  <2>3. \A c \in Clients : hpc[c] = "deliver" /\ "ac" \in found[c] => hold[c].conn # a
    BY <2>1 DEF TrackedOK, Known
  <2>4. apc'[a] = "accepted" /\ \A b \in Apps : b # a => apc'[b] = apc[b]
    BY <2>1 DEF TypeOK, ServerTypeOK
  <2> QED BY <1>0, <1>1, <2>1, <2>2, <2>3, <2>4 DEF TrackedOK, Known
<1>4. CASE TrackApp(a)
  <2>1. /\ apc[a] = "accepted" /\ apc' = [apc EXCEPT ![a] = "tracked"]
        /\ appState' = appState \cup {a}
    BY <1>4 DEF TrackApp
  <2>2. a \notin appState \cup ridKnown BY <2>1 DEF TrackedOK, Known
  <2>3. \A c \in Clients : hpc[c] = "deliver" /\ "ac" \in found[c] => hold[c].conn # a
    BY <2>1 DEF TrackedOK, Known
  <2>4. apc'[a] = "tracked" /\ \A b \in Apps : b # a => apc'[b] = apc[b]
    BY <2>1 DEF TypeOK, ServerTypeOK
  <2> QED BY <1>0, <1>1, <2>1, <2>2, <2>3, <2>4 DEF TrackedOK, Known
<1>5. CASE SetupUnreadable(a)
  <2>1. apc[a] = "accepted" /\ apc' = [apc EXCEPT ![a] = "close"] /\ appState' = appState
    BY <1>5 DEF SetupUnreadable, tables
  <2>2. apc'[a] = "close" /\ \A b \in Apps : b # a => apc'[b] = apc[b]
    BY <2>1 DEF TypeOK, ServerTypeOK
  <2> QED BY <1>0, <1>1, <2>1, <2>2 DEF TrackedOK, Known
<1>6. CASE UntrackApp(a)
  <2>1. /\ apc[a] = "untrack" /\ apc' = [apc EXCEPT ![a] = "close"]
        /\ appState' = appState \ {a}
    BY <1>6 DEF UntrackApp
  <2>2. apc'[a] = "close" /\ \A b \in Apps : b # a => apc'[b] = apc[b]
    BY <2>1 DEF TypeOK, ServerTypeOK
  <2> QED BY <1>0, <1>1, <2>1, <2>2 DEF TrackedOK, Known
<1>7. ASSUME SendSetup(a) \/ ReadRequest(a) \/ LookupClient(a) \/ WriteRequest(a)
             \/ WriteRequestFails(a) \/ FakeReply(a) \/ ReadRequestFails(a) \/ CloseApp(a)
      PROVE  TrackedOK' /\ appState' = appState
  <2>1. appState' = appState
    BY <1>7 DEF SendSetup, ReadRequest, LookupClient, WriteRequest, WriteRequestFails,
       FakeReply, ReadRequestFails, CloseApp, tables
  <2>2. PICK pc \in RelayPC :
          /\ apc' = [apc EXCEPT ![a] = pc] /\ Known(a)
          /\ pc \notin {"none", "accepted", "tracked"}
          /\ pc \in {"drain", "lookup", "write", "dropped"} =>
               apc[a] \in {"tracked", "drain", "lookup", "write", "dropped"}
    BY <1>7 DEF SendSetup, ReadRequest, LookupClient, WriteRequest, WriteRequestFails,
       FakeReply, ReadRequestFails, CloseApp, AfterWrite, Known, RelayPC
  <2> QED BY <1>2, <2>1, <2>2
<1>8. TrackedOK' /\ \A b \in Apps : b \in ridKnown \cap appState' => b \in appState
  BY <1>3, <1>4, <1>5, <1>6, <1>7
  DEF Relay, AcceptApp, TrackApp, SetupUnreadable, UntrackApp, TrackedOK, Known, tables
<1> QED BY <1>1, <1>8

LEMMA HandlerTracked ==
  ASSUME TypeOK, TrackedOK, NEW d \in Clients, AcceptClient(d) \/ Handler(d)
  PROVE  TrackedOK' /\ UNCHANGED <<apc, dst, appState>>
<1>1. UNCHANGED <<apc, dst, appState>>
  BY DEF Handler, AcceptClient, HelloOk, HelloRejected, ClosePrev, SendResume,
     SnapshotStates, SynthesiseAppConn, SendLive, ClearSynthActive, ReadStamp, InjectNothing,
     WriteInjected, CollectPending, ResendSetup, StartReading, ReadFromClient, Deliver,
     ReadError, Unregister, CloseConn, relays, tables
<1>2. \A a \in Apps : Known(a)' <=> Known(a) BY <1>1 DEF Known
<1>3. hpc \in [Clients -> HandlerPC] /\ hold \in [Clients -> ServerMsg \cup {NoMsg}]
      /\ found \in [Clients -> SUBSET {"ac", "app"}]
  BY DEF TypeOK, ServerTypeOK
<1>4. \A c \in Clients : hpc[c] = "deliver" => hold[c].conn \in Apps
  <2>1. \A c \in Clients : hpc[c] = "deliver" => hold[c] \in ServerMsg
    BY DEF TypeOK, ServerTypeOK
  <2> QED BY <2>1 DEF ServerMsg
<1>5. ASSUME ridKnown' = ridKnown,
             \A c \in Clients : hpc'[c] = "deliver" =>
                hpc[c] = "deliver" /\ hold'[c] = hold[c] /\ found'[c] = found[c]
      PROVE  TrackedOK'
  <2>1. \A a \in Apps : /\ apc'[a] \in {"tracked", "drain", "lookup", "write", "dropped"} =>
                             a \in appState'
                        /\ a \in appState' \cup ridKnown' => Known(a)'
    BY <1>1, <1>2, <1>5 DEF TrackedOK
  <2>2. ASSUME NEW c \in Clients, hpc'[c] = "deliver", "ac" \in found'[c]
        PROVE  Known(hold[c].conn) /\ hold'[c] = hold[c]
    BY <1>5, <2>2 DEF TrackedOK
  <2>3. \A c \in Clients : hpc'[c] = "deliver" /\ "ac" \in found'[c] => Known(hold[c].conn)'
    BY <1>1, <1>5, <2>2 DEF Known
  <2> QED BY <2>1, <2>3, <1>5 DEF TrackedOK, Known
<1> USE DEF Goto
<1>6. CASE ReadFromClient(d)
  <2>1. /\ ridKnown' = ridKnown /\ hpc' = [hpc EXCEPT ![d] = "deliver"]
        /\ hold' = [hold EXCEPT ![d] = Head(toServer[d])]
        /\ found' = [found EXCEPT ![d] = {x \in {"ac", "app"} :
                        IF x = "ac" THEN Head(toServer[d]).conn \in appState
                                    ELSE Head(toServer[d]).conn \in appConns}]
        /\ toServer[d] # <<>>
    BY <1>6 DEF ReadFromClient, tables
  <2>2. Head(toServer[d]) \in ServerMsg BY <2>1 DEF TypeOK, WireTypeOK
  <2> DEFINE m == Head(toServer[d])
  <2>3. m.conn \in Apps BY <2>2 DEF ServerMsg
  <2>4. hold'[d] = m /\ ("ac" \in found'[d] => m.conn \in appState) BY <1>3, <2>1
  <2> HIDE DEF m
  <2>5. "ac" \in found'[d] => Known(m.conn) BY <2>3, <2>4 DEF TrackedOK
  <2>6. \A c \in Clients : c # d => hpc'[c] = hpc[c] /\ hold'[c] = hold[c] /\ found'[c] = found[c]
    BY <1>3, <2>1
  <2>7. \A c \in Clients : hpc'[c] = "deliver" /\ "ac" \in found'[c] =>
           apc[hold'[c].conn] \notin {"none", "accepted"}
    BY <2>4, <2>5, <2>6 DEF TrackedOK, Known
  <2> QED BY <1>1, <2>1, <2>7 DEF TrackedOK, Known
<1>7. CASE Deliver(d)
  <2>1. /\ \A c \in Clients : hpc'[c] = "deliver" =>
              hpc[c] = "deliver" /\ hold'[c] = hold[c] /\ found'[c] = found[c]
        /\ hpc[d] = "deliver"
    BY <1>3, <1>7 DEF Deliver
  <2>2. ridKnown' \subseteq IF "ac" \in found[d] THEN ridKnown \cup {hold[d].conn} ELSE ridKnown
    BY <1>7 DEF Deliver, RecordsRid
  <2>3. \A a \in ridKnown' \cap Apps : Known(a) BY <2>1, <2>2 DEF TrackedOK
  <2>4. \A c \in Clients : hpc'[c] = "deliver" /\ "ac" \in found'[c] =>
           apc[hold'[c].conn] \notin {"none", "accepted"}
    BY <2>1 DEF TrackedOK, Known
  <2> QED BY <1>1, <2>3, <2>4 DEF TrackedOK, Known
<1> DEFINE Kept == /\ ridKnown' = ridKnown
                   /\ \A c \in Clients : hpc'[c] = "deliver" =>
                        hpc[c] = "deliver" /\ hold'[c] = hold[c] /\ found'[c] = found[c]
<1>8. ASSUME HelloOk(d) \/ HelloRejected(d) \/ ClosePrev(d) \/ SendResume(d) \/ AcceptClient(d)
      PROVE  Kept
  BY <1>3, <1>8 DEF HelloOk, HelloRejected, ClosePrev, SendResume, AcceptClient, locals, tables
<1>9. ASSUME SnapshotStates(d) \/ SynthesiseAppConn(d) \/ SendLive(d) \/ ClearSynthActive(d)
      PROVE  Kept
  BY <1>3, <1>9 DEF SnapshotStates, SynthesiseAppConn, SendLive, AfterLive, ClearSynthActive,
     locals, tables
<1>10. ASSUME ReadStamp(d) \/ InjectNothing(d) \/ WriteInjected(d) \/ CollectPending(d)
       PROVE  Kept
  BY <1>3, <1>10 DEF ReadStamp, InjectNothing, WriteInjected, CollectPending, tables
<1>11. ASSUME ResendSetup(d) \/ StartReading(d) \/ ReadError(d) \/ Unregister(d) \/ CloseConn(d)
       PROVE  Kept
  BY <1>3, <1>11 DEF ResendSetup, StartReading, ReadError, Unregister, CloseConn, locals, tables
<1>12. Kept => TrackedOK' BY <1>5
<1> HIDE DEF Kept
<1> QED BY <1>1, <1>6, <1>7, <1>8, <1>9, <1>10, <1>11, <1>12 DEF Handler

\* The relay stays shut for a client that is resumed alone until it is live.
LEMMA ServerControl ==
  ASSUME TypeOK, HandoverInv, ShutUntilLive, TrackedOK, ServerStep
  PROVE  ShutUntilLive' /\ TrackedOK'
<1> USE DEF TypeOK, ServerTypeOK
<1>0. overlapped \subseteq overlapped' BY OverlapStep DEF Next
<1>1. ASSUME NEW a \in Apps, Relay(a) PROVE ShutUntilLive' /\ TrackedOK'
  BY <1>0, <1>1, RelayAt DEF ShutUntilLive
<1>2. ASSUME NEW d \in Clients, AcceptClient(d) PROVE ShutUntilLive' /\ TrackedOK'
  <2>1. hpc' = [hpc EXCEPT ![d] = "hello"] /\ synthActive' = synthActive
    BY <1>2 DEF AcceptClient, Goto, registry
  <2>2. ShutUntilLive' BY <1>0, <2>1 DEF ShutUntilLive, BeforeLive
  <2> QED BY <1>2, <2>2, HandlerTracked
<1>3. ASSUME NEW d \in Clients, Handler(d) PROVE ShutUntilLive' /\ TrackedOK'
  <2> SUFFICES ASSUME NEW c \in Clients, c \notin overlapped', hpc'[c] \in BeforeLive
               PROVE  synthActive'
    BY <1>3, HandlerTracked DEF ShutUntilLive
  <2>1. c \notin overlapped BY <1>0
  <2>2. CASE HelloOk(d) BY <2>2 DEF HelloOk
  <2>3. CASE ClearSynthActive(d)
    <3>1. hpc[d] = "clear" /\ hpc' = [hpc EXCEPT ![d] = "inject"]
      BY <2>3 DEF ClearSynthActive, Goto
    <3>2. c # d /\ hpc[c] \in BeforeLive /\ hpc[d] \in BeforeLive BY <3>1 DEF BeforeLive
    <3> QED BY <2>1, <3>2 DEF HandoverInv
  <2>4. CASE ~HelloOk(d) /\ ~ClearSynthActive(d)
    <3> USE DEF Goto, registry, BeforeLive
    <3>1. CASE HelloRejected(d) \/ ClosePrev(d) \/ Unregister(d) \/ CloseConn(d)
      BY <2>1, <3>1 DEF HelloRejected, ClosePrev, Unregister, CloseConn, ShutUntilLive
    <3>2. CASE QuietStep(d)
      BY <2>1, <3>2 DEF QuietStep, handoverVars, Registered, ShutUntilLive
    <3> QED BY <1>3, <2>4, <3>1, <3>2, HandlerSteps
  <2> QED BY <2>2, <2>3, <2>4
<1> QED BY <1>1, <1>2, <1>3 DEF ServerStep

LEMMA ServerFrame ==
  ASSUME TypeOK, TrackedOK, ServerStep, NEW c \in Clients
  PROVE  /\ xconn' = xconn /\ live' = live /\ Held(c)' = Held(c)
         /\ Written(c)
         /\ hpc'[c] = "idle" => hpc[c] = "idle" /\ cliOpen'[c] = cliOpen[c]
         /\ hpc[c] # "idle" => cliOpen'[c] = cliOpen[c] /\ (srvOpen'[c] => srvOpen[c])
         /\ hpc[c] = "idle" /\ hpc'[c] # "idle" => hpc'[c] = "hello"
         /\ hpc[c] \in PastSynth => hpc'[c] \in PastSynth
         /\ toServer'[c] = toServer[c] \/ ReadFromClient(c)
         /\ hpc'[c] = "deliver" =>
              ReadFromClient(c) \/ (hpc[c] = "deliver" /\ hold'[c] = hold[c])
<1> DEFINE Goal == /\ hpc'[c] = "idle" => hpc[c] = "idle" /\ cliOpen'[c] = cliOpen[c]
                   /\ hpc[c] # "idle" => cliOpen'[c] = cliOpen[c]
                   /\ hpc[c] = "idle" /\ hpc'[c] # "idle" => hpc'[c] = "hello"
                   /\ hpc[c] \in PastSynth => hpc'[c] \in PastSynth
                   /\ toServer'[c] = toServer[c] \/ ReadFromClient(c)
                   /\ hpc'[c] = "deliver" =>
                        ReadFromClient(c) \/ (hpc[c] = "deliver" /\ hold'[c] = hold[c])
<1> USE DEF TypeOK, ServerTypeOK, WireTypeOK
<1>1. xconn' = xconn /\ live' = live BY DEF ServerStep, clientVars
<1>2. Written(c) BY HandlerWrites, RelayWrites DEF ServerStep
<1>3. hpc[c] # "idle" => (srvOpen'[c] => srvOpen[c]) BY QueueStep DEF Monotone, Next
<1>4. ASSUME NEW a \in Apps, Relay(a) PROVE Goal BY <1>4, RelayAt
<1>5. ASSUME NEW d \in Clients, AcceptClient(d) PROVE Goal
  BY <1>5 DEF AcceptClient, Goto, locals, PastSynth
<1>6. ASSUME NEW d \in Clients, Handler(d) PROVE Goal
  <2>1. /\ hpc[d] \in Running /\ hpc'[d] # "idle" /\ cliOpen' = cliOpen
        /\ \A e \in Clients : e # d => hpc'[e] = hpc[e]
        /\ hpc[d] \in PastSynth => hpc'[d] \in PastSynth
    BY <1>6, HandlerAt
  <2>2. CASE ReadFromClient(d)
    <3>1. toServer' = [toServer EXCEPT ![d] = Tail(@)]
          /\ hold' = [hold EXCEPT ![d] = Head(toServer[d])]
      BY <2>2 DEF ReadFromClient
    <3> QED BY <2>1, <2>2, <3>1 DEF Running
  <2>3. ASSUME ~ReadFromClient(d)
        PROVE  /\ toServer' = toServer
               /\ hpc'[d] # "deliver"
               /\ \A e \in Clients : e # d => hold'[e] = hold[e]
    BY <1>6, <2>3 DEF Handler, HelloOk, HelloRejected, ClosePrev, SendResume,
     SnapshotStates, SynthesiseAppConn, SendLive, AfterLive, ClearSynthActive, ReadStamp,
     InjectNothing, WriteInjected, CollectPending, ResendSetup, StartReading, Deliver,
     ReadError, Unregister, CloseConn, wireVars, locals, Goto
  <2> HIDE DEF TypeOK, ServerTypeOK, WireTypeOK
  <2>4. CASE c = d BY <2>1, <2>2, <2>3, <2>4 DEF Running
  <2>5. CASE c # d BY <2>1, <2>2, <2>3, <2>5
  <2> QED BY <2>4, <2>5
<1>7. Goal BY <1>4, <1>5, <1>6 DEF ServerStep
<1> QED BY <1>1, <1>2, <1>3, <1>7 DEF Held

LEMMA ServerQueues ==
  ASSUME TypeOK, OpenInv, GateInv, ServerStep
  PROVE  Untouched' /\ SetupsOK' /\ LiveLast' /\ PrecededOK'
<1> USE DEF TypeOK, WireTypeOK, ClientTypeOK
<1>0. HandoverInv /\ TrackedOK /\ Untouched /\ SetupsOK /\ LiveLast /\ PreparedOK /\ PrecededOK
  BY DEF OpenInv
<1>1. Untouched'
  <2> SUFFICES ASSUME NEW c \in Clients, hpc'[c] = "idle"
               PROVE  ~cliOpen'[c] /\ ~live'[c] /\ toClient'[c] = <<>> /\ toServer'[c] = <<>>
    BY DEF Untouched
  <2>1. /\ hpc[c] = "idle" /\ cliOpen'[c] = cliOpen[c] /\ live' = live /\ Written(c)
        /\ toServer'[c] = toServer[c] \/ ReadFromClient(c)
    BY <1>0, ServerFrame
  <2>2. ~ReadFromClient(c) BY <2>1 DEF ReadFromClient
  <2> QED BY <1>0, <2>1, <2>2 DEF Untouched, Written
<1>2. SetupsOK'
  <2> SUFFICES ASSUME NEW c \in Clients, cliOpen'[c]
               PROVE  /\ Answered(toServer'[c], Held(c))
                      /\ hpc'[c] = "deliver" /\ hold'[c].kind = "setup" => hold'[c].conn \in Held(c)
    <3>1. \A c \in Clients : Held(c)' = Held(c) BY <1>0, ServerFrame
    <3> QED BY <3>1 DEF SetupsOK
  <2>1. CASE hpc[c] = "idle"
    <3>1. toServer[c] = <<>> /\ (hpc'[c] # "idle" => hpc'[c] = "hello")
          /\ (toServer'[c] = toServer[c] \/ ReadFromClient(c))
      BY <1>0, <2>1, ServerFrame DEF Untouched
    <3>2. ~ReadFromClient(c) BY <2>1 DEF ReadFromClient
    <3>3. toServer'[c] = <<>> /\ Len(<<>>) = 0 /\ 1..0 = {} BY <3>1, <3>2
    <3> QED BY <2>1, <3>1, <3>3 DEF Answered
  <2>2. CASE hpc[c] # "idle"
    <3>1. /\ cliOpen[c] /\ (toServer'[c] = toServer[c] \/ ReadFromClient(c))
          /\ hpc'[c] = "deliver" =>
               ReadFromClient(c) \/ (hpc[c] = "deliver" /\ hold'[c] = hold[c])
      BY <1>0, <2>2, ServerFrame
    <3>2. Answered(toServer[c], Held(c)) /\ toServer[c] \in Seq(ServerMsg)
      BY <1>0, <3>1 DEF SetupsOK
    <3>3. CASE ReadFromClient(c)
      <4>1. toServer[c] # <<>> /\ toServer'[c] = Tail(toServer[c]) /\ hold'[c] = Head(toServer[c])
        BY <3>3 DEF ReadFromClient, ServerTypeOK
      <4> QED BY <3>2, <4>1, AnsweredMoves
    <3>4. CASE ~ReadFromClient(c) BY <1>0, <3>1, <3>4 DEF SetupsOK
    <3> QED BY <3>3, <3>4
  <2> QED BY <2>1, <2>2
<1>3. ASSUME NEW c \in Clients \ overlapped
      PROVE  /\ InOrder(toClient'[c], live[c])
             /\ Preceded(toClient'[c], Held(c) \cup late[c])
             /\ HasLive(toClient'[c]) => HasLive(toClient[c]) \/ hpc'[c] \in PastSynth
  <2> DEFINE q == toClient[c]
             r == toClient'[c]
             X == Held(c) \cup late[c]
  <2>1. /\ q \in Seq(ClientMsg) /\ live[c] \in BOOLEAN
        /\ InOrder(q, live[c]) /\ Preceded(q, X)
        /\ live[c] \/ HasLive(q) => hpc[c] \in PastSynth
    BY <1>0 DEF LiveLast, PrecededOK
  <2>2. CASE r = q BY <2>1, <2>2
  <2>3. ASSUME NEW m \in ClientMsg, Writing(c, m), r = Append(q, m), srvOpen[c], cliOpen[c]
        PROVE  /\ InOrder(r, live[c]) /\ Preceded(r, X)
               /\ HasLive(r) => HasLive(q) \/ hpc'[c] \in PastSynth
    <3>1. m.type = "LIVE" => hpc'[c] \in PastSynth
      <4> SUFFICES ASSUME m.type = "LIVE" PROVE hpc'[c] \in PastSynth OBVIOUS
      <4>1. clientConn = c /\ \E d \in Clients : SendLive(d)
        BY <2>3 DEF Writing, X11Data, X11Setup
      <4>2. PICK d \in Clients : SendLive(d) BY <4>1
      <4>3. d = c BY <1>0, <4>1, <4>2, ByCurrent DEF SendLive, BeforeLive
      <4> QED BY <4>2, <4>3 DEF SendLive, AfterLive, Goto, PastSynth, HandlerPC, ServerTypeOK
    <3>2. m.type = "SETUP" => ~live[c] /\ ~HasLive(q)
      <4> SUFFICES ASSUME m.type = "SETUP" PROVE hpc[c] \notin PastSynth BY <2>1
      <4>1. clientConn = c /\ \E d \in Clients : SynthesiseAppConn(d)
        BY <2>3 DEF Writing, X11Data, X11Setup
      <4>2. PICK d \in Clients : SynthesiseAppConn(d) BY <4>1
      <4>3. d = c BY <1>0, <4>1, <4>2, ByCurrent DEF SynthesiseAppConn, BeforeLive
      <4> QED BY <4>2, <4>3 DEF SynthesiseAppConn, PastSynth
    <3>3. IsRequest(m) => m.conn \in X \/ Opening(q, m.conn)
      <4> SUFFICES ASSUME IsRequest(m) PROVE m.conn \in X \/ Opening(q, m.conn) OBVIOUS
      <4>1. PICK a \in Apps : WriteRequest(a) /\ dst[a] = c /\ m.conn = a
        BY <2>3 DEF Writing, X11Data, X11Setup, IsRequest
      <4>2. a \notin late[c] => Prepared(c, a)
        BY <1>0, <4>1 DEF PreparedOK, WriteRequest, InTime
      <4> QED BY <2>3, <4>1, <4>2 DEF Prepared
    <3> HIDE DEF q, r, X
    <3>4. InOrder(r, live[c]) BY <2>1, <2>3, <3>2, InOrderMoves
    <3>5. Preceded(r, X) BY <2>1, <2>3, <3>3, PrecededMoves
    <3>6. HasLive(r) => HasLive(q) \/ m.type = "LIVE"
      <4>1. \A i \in 1..Len(r) : (i \in 1..Len(q) /\ r[i] = q[i]) \/ r[i] = m
        BY <2>1, <2>3, Grown
      <4> QED BY <4>1 DEF HasLive
    <3> QED BY <3>1, <3>4, <3>5, <3>6
  <2>4. Written(c) BY <1>0, ServerFrame
  <2> HIDE DEF q, r, X
  <2>5. r = q \/ (srvOpen[c] /\ cliOpen[c] /\ \E m \in ClientMsg : Writing(c, m) /\ r = Append(q, m))
    BY <2>4 DEF Written, q, r
  <2>6. /\ InOrder(r, live[c]) /\ Preceded(r, X)
        /\ HasLive(r) => HasLive(q) \/ hpc'[c] \in PastSynth
    BY <2>1, <2>2, <2>3, <2>5
  <2> QED BY <2>6 DEF q, r, X
<1>4. \A c \in Clients : /\ live' = live /\ xconn' = xconn /\ Held(c)' = Held(c)
                         /\ hpc[c] \in PastSynth => hpc'[c] \in PastSynth
  BY <1>0, ServerFrame
<1>7. \A c \in Clients : (c \notin overlapped' => c \notin overlapped) /\ late[c] \subseteq late'[c]
  BY TimelyStep DEF Next
<1>5. LiveLast' BY <1>0, <1>3, <1>4, <1>7 DEF LiveLast
<1>6. PrecededOK'
  <2> SUFFICES ASSUME NEW c \in Clients, c \notin overlapped'
               PROVE  /\ Preceded(toClient'[c], Held(c)' \cup late'[c])
                      /\ \A a \in Apps \ late'[c] : xconn'[c][a].bad # "request"
    BY DEF PrecededOK
  <2>1. c \notin overlapped /\ late[c] \subseteq late'[c] BY <1>7
  <2>2. Preceded(toClient'[c], Held(c) \cup late[c]) /\ Held(c)' = Held(c) BY <1>3, <1>4, <2>1
  <2>3. Preceded(toClient'[c], Held(c)' \cup late'[c]) BY <2>1, <2>2 DEF Preceded
  <2> QED BY <1>0, <1>4, <2>1, <2>3 DEF PrecededOK
<1> QED BY <1>1, <1>2, <1>5, <1>6

\* Who may be sent a request has been so before, or has just been given its
\* connection.
LEMMA NewlyPassed ==
  ASSUME TypeOK, OpenInv, GateInv, ServerStep, NEW c \in Clients, NEW a \in Apps,
         InTime(c, a)', clientConn' = c, a \in ridKnown' \cap appState', Passed(c, a)'
  PROVE  \/ clientConn = c /\ a \in ridKnown \cap appState /\ Passed(c, a)
         \/ clientConn = c /\ SynthesiseAppConn(c) /\ a \in todo[c] /\ a \notin todo'[c]
         \/ Deliver(c) /\ hold[c].kind = "setup" /\ hold[c].conn = a
<1> DEFINE Goal ==
             \/ clientConn = c /\ a \in ridKnown \cap appState /\ Passed(c, a)
             \/ clientConn = c /\ SynthesiseAppConn(c) /\ a \in todo[c] /\ a \notin todo'[c]
             \/ Deliver(c) /\ hold[c].kind = "setup" /\ hold[c].conn = a
<1> USE DEF TypeOK, ServerTypeOK
<1>0. TrackedOK BY DEF OpenInv
<1>1. ASSUME NEW b \in Apps, Relay(b) PROVE Goal
  BY <1>0, <1>1, RelayAt DEF Passed
<1>2. ASSUME NEW d \in Clients, AcceptClient(d) PROVE Goal
  <2>1. /\ clientConn' = clientConn /\ UNCHANGED <<ridKnown, appState, todo>>
        /\ hpc'[d] = "hello" /\ \A e \in Clients : e # d => hpc'[e] = hpc[e]
    BY <1>2 DEF AcceptClient, Goto, registry, tables, locals
  <2> QED BY <2>1 DEF Passed, Registered
<1>3. ASSUME NEW d \in Clients, HelloOk(d) PROVE Goal
  BY <1>3 DEF HelloOk, Goto, Passed
<1>4. ASSUME NEW d \in Clients, Handler(d), ~HelloOk(d) PROVE Goal
  <2>1. clientConn' \in {clientConn, NoClient}
    BY <1>4 DEF Handler, HelloRejected, ClosePrev, SendResume,
     SnapshotStates, SynthesiseAppConn, SendLive, ClearSynthActive, ReadStamp,
     InjectNothing, WriteInjected, CollectPending, ResendSetup, StartReading, ReadFromClient,
     Deliver, ReadError, Unregister, AfterUnregister, CloseConn, registry
  <2>2. clientConn = c BY <2>1, NoClientAssumption
  <2>3. CASE d # c
    <3>1. hpc'[c] = hpc[c] BY <1>4, <2>3, HandlerAt
    <3>2. todo'[c] = todo[c]
      BY <1>4, <2>3 DEF Handler, HelloRejected, ClosePrev, SendResume,
       SnapshotStates, SynthesiseAppConn, SendLive, ClearSynthActive, ReadStamp,
       InjectNothing, WriteInjected, CollectPending, ResendSetup, StartReading, ReadFromClient,
       Deliver, ReadError, Unregister, CloseConn, locals
    <3>3. appState' = appState BY <1>0, <1>4, HandlerTracked
    <3>4. Passed(c, a) BY <3>1, <3>2 DEF Passed
    <3>5. a \in ridKnown BY <2>2, <3>1, <3>4, LateNoted
    <3> QED BY <2>2, <3>3, <3>4, <3>5
  <2>4. hpc[c] \in Registered BY <2>2 DEF GateInv
  <2> USE DEF Goto, Passed, Registered, tables, locals
  <2>5. CASE HelloRejected(c) \/ ClosePrev(c) \/ SendResume(c) \/ Unregister(c) \/ CloseConn(c)
    BY <2>5 DEF HelloRejected, ClosePrev, SendResume, Unregister, CloseConn
  <2>6. CASE SnapshotStates(c)
    <3>1. hpc'[c] = "synth" /\ todo'[c] = appState /\ appState' = appState
      BY <2>6 DEF SnapshotStates
    <3> QED BY <3>1
  <2>7. CASE SynthesiseAppConn(c)
    <3>1. hpc' = hpc /\ UNCHANGED <<ridKnown, appState>> BY <2>7 DEF SynthesiseAppConn
    <3> QED BY <2>2, <2>7, <3>1
  <2>8. CASE SendLive(c) \/ ClearSynthActive(c) \/ ReadError(c)
    BY <2>2, <2>8 DEF SendLive, ClearSynthActive, ReadError
  <2>9. CASE ReadStamp(c) \/ InjectNothing(c) \/ WriteInjected(c) \/ CollectPending(c)
    BY <2>2, <2>9 DEF ReadStamp, InjectNothing, WriteInjected, CollectPending
  <2>10. CASE ResendSetup(c) \/ StartReading(c) \/ ReadFromClient(c)
    BY <2>2, <2>10 DEF ResendSetup, StartReading, ReadFromClient
  <2>11. CASE Deliver(c)
    <3>1. /\ hpc[c] = "deliver" /\ appState' = appState
          /\ ridKnown' = ridKnown \/ (ridKnown' = ridKnown \cup {hold[c].conn}
                                      /\ hold[c].kind = "setup")
      BY <2>11 DEF Deliver, RecordsRid
    <3> QED BY <2>2, <2>11, <3>1
  <2> QED
    BY <1>4, <2>3, <2>5, <2>6, <2>7, <2>8, <2>9, <2>10, <2>11 DEF Handler
<1> QED BY <1>1, <1>2, <1>3, <1>4 DEF ServerStep

LEMMA NewlyLookedUp ==
  ASSUME TypeOK, ServerStep, NEW c \in Clients, NEW a \in Apps, apc'[a] = "write", dst'[a] = c
  PROVE  \/ apc[a] = "write" /\ dst[a] = c
         \/ apc[a] = "lookup" /\ clientConn = c /\ ~synthActive
<1> USE DEF TypeOK, ServerTypeOK
<1>1. ASSUME NEW d \in Clients, AcceptClient(d) \/ Handler(d) PROVE UNCHANGED <<apc, dst>>
  BY <1>1 DEF Handler, AcceptClient, HelloOk, HelloRejected, ClosePrev, SendResume,
     SnapshotStates, SynthesiseAppConn, SendLive, ClearSynthActive, ReadStamp, InjectNothing,
     WriteInjected, CollectPending, ResendSetup, StartReading, ReadFromClient, Deliver,
     ReadError, Unregister, CloseConn, relays
<1>2. ASSUME NEW b \in Apps, Relay(b), ~LookupClient(b)
      PROVE  \A e \in Apps : apc'[e] = "write" => apc[e] = "write" /\ dst'[e] = dst[e]
  BY <1>2 DEF Relay, AcceptApp, TrackApp, SetupUnreadable, SendSetup, ReadRequest,
     WriteRequest, AfterWrite, WriteRequestFails, FakeReply, ReadRequestFails, UntrackApp,
     CloseApp, GotoApp
<1>3. ASSUME NEW b \in Apps, LookupClient(b)
      PROVE  \/ apc[a] = "write" /\ dst[a] = c
             \/ apc[a] = "lookup" /\ clientConn = c /\ ~synthActive
  BY <1>3 DEF LookupClient, GotoApp, Shut
<1> QED BY <1>1, <1>2, <1>3 DEF ServerStep

LEMMA ServerPrepared ==
  ASSUME TypeOK, OpenInv, GateInv, OnceInv, RidInv, ServerStep
  PROVE  PreparedOK'
<1> USE DEF TypeOK, WireTypeOK, ServerTypeOK
<1>0. TrackedOK /\ SetupsOK /\ ShutUntilLive /\ PreparedOK BY DEF OpenInv
<1>6. \A c \in Clients, a \in Apps : InTime(c, a)' => InTime(c, a) /\ c \notin overlapped
  BY TimelyStep DEF Next, InTime
<1>5. \A c \in Clients : toClient[c] \in Seq(ClientMsg) OBVIOUS
<1>1. ASSUME NEW c \in Clients, NEW a \in Apps, Prepared(c, a), hpc[c] # "idle"
      PROVE  Prepared(c, a)'
  <2>1. /\ Held(c)' = Held(c) /\ cliOpen'[c] = cliOpen[c] /\ (srvOpen'[c] => srvOpen[c])
        /\ Written(c)
    BY <1>0, <1>1, ServerFrame
  <2>2. ASSUME Opening(toClient[c], a) PROVE Opening(toClient'[c], a)
    <3>1. ASSUME NEW m \in ClientMsg, toClient'[c] = Append(toClient[c], m)
          PROVE  Opening(toClient'[c], a)
      BY <1>5, <2>2, <3>1, OpeningMoves
    <3> QED BY <2>1, <2>2, <3>1 DEF Written
  <2> QED BY <1>1, <2>1, <2>2 DEF Prepared
<1>2. ASSUME NEW c \in Clients, clientConn = c PROVE hpc[c] # "idle" /\ hpc[c] \in Registered
  BY <1>2 DEF GateInv, Registered
<1>3. ASSUME NEW c \in Clients, NEW a \in Apps, InTime(c, a)', clientConn' = c,
             a \in ridKnown' \cap appState', Passed(c, a)'
      PROVE  Prepared(c, a)'
  <2>1. CASE clientConn = c /\ a \in ridKnown \cap appState /\ Passed(c, a)
    BY <1>0, <1>1, <1>2, <1>3, <1>6, <2>1 DEF PreparedOK
  <2>2. CASE clientConn = c /\ SynthesiseAppConn(c) /\ a \in todo[c] /\ a \notin todo'[c]
    <3>1. PICK b \in todo[c] :
            /\ todo' = [todo EXCEPT ![c] = @ \ {b}]
            /\ IF Skipped(b) THEN UNCHANGED toClient
               ELSE WriteToCurrent(X11Setup(b, seqNum[b], Tracked(b)))
      BY <2>2 DEF SynthesiseAppConn
    <3>2. b = a BY <2>2, <3>1
    <3>3. ridKnown' = ridKnown /\ srvOpen' = srvOpen /\ cliOpen' = cliOpen
      BY <2>2 DEF SynthesiseAppConn, tables
    <3> DEFINE m == X11Setup(a, seqNum[a], Tracked(a))
    <3>4. m \in ClientMsg BY TrackedType, MessageTypes
    <3>5. OpensFor(m, a) BY DEF OpensFor, X11Setup
    <3>6. WriteToCurrent(m) BY <1>3, <3>1, <3>2, <3>3 DEF Skipped
    <3> HIDE DEF m
    <3>7. srvOpen[c] /\ cliOpen[c] => toClient'[c] = Append(toClient[c], m)
      BY <2>2, <3>6, NoClientAssumption DEF WriteToCurrent, WriteIgnored
    <3>8. srvOpen[c] /\ cliOpen[c] => Opening(toClient'[c], a)
      <4> SUFFICES ASSUME srvOpen[c], cliOpen[c] PROVE Opening(toClient'[c], a) OBVIOUS
      <4>1. Opening(Append(toClient[c], m), a) BY <1>5, <3>4, <3>5, OpeningMoves
      <4> QED BY <3>7, <4>1
    <3> QED BY <3>3, <3>8 DEF Prepared
  <2>3. CASE Deliver(c) /\ hold[c].kind = "setup" /\ hold[c].conn = a
    <3>1. hpc[c] = "deliver" BY <2>3 DEF Deliver
    <3>2. cliOpen[c] => a \in Held(c) BY <1>0, <2>3, <3>1 DEF SetupsOK
    <3>3. Held(c)' = Held(c) /\ cliOpen'[c] = cliOpen[c] BY <1>0, <3>1, ServerFrame
    <3> QED BY <3>2, <3>3 DEF Prepared
  <2> QED BY <1>3, <2>1, <2>2, <2>3, NewlyPassed
<1>4. ASSUME NEW c \in Clients, NEW a \in Apps, InTime(c, a)', apc'[a] = "write", dst'[a] = c
      PROVE  Prepared(c, a)'
  <2>0. InTime(c, a) /\ c \notin overlapped BY <1>4, <1>6
  <2>1. CASE apc[a] = "write" /\ dst[a] = c
    <3>1. hpc[c] # "idle" BY <2>1 DEF GateInv
    <3> QED BY <1>0, <1>1, <2>0, <2>1, <3>1 DEF PreparedOK
  <2>2. CASE apc[a] = "lookup" /\ clientConn = c /\ ~synthActive
    <3>1. a \in appState BY <1>0, <2>2 DEF TrackedOK
    <3>2. a \in ridKnown
      <4>1. seqNum[a] \in 1..Len(reqs[a]) BY <2>2 DEF OnceInv, Working
      <4> QED BY <4>1 DEF RidInv, AppTypeOK
    <3>3. hpc[c] \in Registered /\ hpc[c] \notin BeforeLive
      BY <1>0, <1>2, <2>0, <2>2 DEF ShutUntilLive
    <3>4. Passed(c, a) BY <3>3 DEF Passed, BeforeLive
    <3> QED BY <1>0, <1>1, <1>2, <2>0, <2>2, <3>1, <3>2, <3>4 DEF PreparedOK
  <2> QED BY <1>4, <2>1, <2>2, NewlyLookedUp
<1> QED BY <1>3, <1>4 DEF PreparedOK

LEMMA OpenStep ==
  ASSUME TypeOK, RidInv, OnceInv, GateInv, OpenInv, [Next]_vars
  PROVE  OpenInv'
<1>1. CASE ServerStep
  BY <1>1, HandoverInvStep, ServerControl, ServerQueues, ServerPrepared DEF OpenInv
<1>2. CASE ClientsStep BY <1>2, ClientsOpen
<1>3. CASE AppsStep \/ UNCHANGED vars
  <2>1. UNCHANGED <<wireVars, serverVars, clientVars>> BY <1>3 DEF AppsStep, vars
  <2>2. UNCHANGED <<srvOpen, cliOpen, toClient, toServer, clientConn, synthActive, appState,
                    ridKnown, hpc, todo, hold, found, apc, dst, live, xconn, overlapped, late>>
    BY <1>3, <2>1 DEF wireVars, serverVars, clientVars, registry, tables, locals, relays, AppsStep,
       vars, history
  <2>3. HandoverInv' /\ ShutUntilLive' /\ Untouched' /\ TrackedOK'
    BY <2>2 DEF OpenInv, HandoverInv, ShutUntilLive, Untouched, TrackedOK, Known
  <2>4. SetupsOK' /\ LiveLast' /\ PrecededOK'
    BY <2>2 DEF OpenInv, SetupsOK, LiveLast, PrecededOK, Held
  <2>5. PreparedOK' BY <2>2 DEF OpenInv, PreparedOK, Prepared, Passed, Held, InTime
  <2> QED BY <2>3, <2>4, <2>5 DEF OpenInv
<1> QED BY <1>1, <1>2, <1>3 DEF Next

\* All these hold together, from the first state on.
LEMMA OpenAlways == Spec => [](TypeOK /\ RidInv /\ OnceInv /\ GateInv /\ OpenInv)
<1>1. Init => OpenInv
  <2> SUFFICES ASSUME Init PROVE OpenInv OBVIOUS
  <2>1. \A c \in Clients : /\ toClient[c] = <<>> /\ toServer[c] = <<>> /\ hpc[c] = "idle"
                           /\ clientConn # c /\ ~live[c] /\ ~cliOpen[c]
                           /\ \A a \in Apps : xconn[c][a].bad = "no"
    BY NoClientAssumption DEF Init, WireInit, ServerInit, ClientInit, NoXConn
  <2>2. \A a \in Apps : apc[a] = "none" BY DEF Init, ServerInit
  <2>3. appState = {} /\ ridKnown = {} BY DEF Init, ServerInit
  <2>4. Len(<<>>) = 0 /\ 1..0 = {} OBVIOUS
  <2>5. HandoverInv /\ ShutUntilLive /\ Untouched /\ SetupsOK
    BY <2>1 DEF HandoverInv, ShutUntilLive, Untouched, SetupsOK, BeforeLive
  <2>6. TrackedOK /\ PreparedOK BY <2>1, <2>2, <2>3 DEF TrackedOK, PreparedOK
  <2>7. LiveLast /\ PrecededOK
    BY <2>1, <2>4 DEF LiveLast, PrecededOK, InOrder, HasLive, Preceded
  <2> QED BY <2>5, <2>6, <2>7 DEF OpenInv
<1>2. Init => GateInv /\ RidInv
  BY NoClientAssumption
  DEF Init, AppInit, ServerInit, WireInit, ClientInit, GateInv, Gated, BeforeLive, RidInv
<1>3. TypeOK /\ OpenInv /\ GateInv /\ [Next]_vars => GateInv' BY GateInvStep DEF OpenInv
<1>4. TypeOK /\ RidInv /\ [Next]_vars => RidInv' BY RidInvStep
<1>5. Init => OnceInv BY OnceInit
<1>6. TypeOK /\ RidInv /\ OnceInv /\ GateInv /\ OpenInv /\ [Next]_vars => OpenInv' BY OpenStep
<1> QED
  BY <1>1, <1>2, <1>3, <1>4, <1>5, <1>6, OnceStep, TypeCorrect, PTL DEF Spec

\* A request never reaches a client as the setup bytes of a new X connection,
\* whichever clients connect, overlap, crash and come back and whenever
\* applications connect; the exceptions are a client resumed beside another and
\* an application whose setup a superseded reader recorded after the client's
\* synthesis had passed it (client.go:733-794, synthesis.go:34-42, server.go:393-400).
THEOREM ConnectionsFirst == Spec => []RequestsHaveConnections
<1>1. OpenInv => RequestsHaveConnections
  BY DEF OpenInv, PrecededOK, RequestsHaveConnections, InTime
<1> QED BY <1>1, OpenAlways, PTL

-----------------------------------------------------------------------------
(* FreshRepliesExact.  An X connection opened by the application's own setup *)
(* bytes is written every request of the application from the first on, so  *)
(* that the display numbers them as the application does; with the same two *)
(* exceptions.                                                              *)

Requests(m, a) == IsRequest(m) /\ m.conn = a
SetupFor(m, a) == m.type = "SETUP" /\ m.conn = a

\* The requests of a in q are those numbered k + 1 to l, in that order.
Stream(q, a, k, l) ==
  /\ k <= l
  /\ \A i \in 1..Len(q) : Requests(q[i], a) => q[i].n \in k + 1..l
  /\ \A i, j \in 1..Len(q) : Requests(q[i], a) /\ Requests(q[j], a) /\ i < j => q[i].n < q[j].n
  /\ \A n \in k + 1..l : \E i \in 1..Len(q) : Requests(q[i], a) /\ q[i].n = n

NoRequest(q, a) == \A i \in 1..Len(q) : ~Requests(q[i], a)
NoReply(q, a) == \A i \in 1..Len(q) : ~Answers(q[i], a)

\* c's X connection for a was not recreated, and no message in its queue will.
Original(c, a) ==
  xconn[c][a].st # "synth" /\ \A i \in 1..Len(toClient[c]) : ~SetupFor(toClient[c][i], a)

Reaches(c) == srvOpen[c] /\ cliOpen[c]

\* The last request of a that its relay has done with.
DoneWith(a) == IF apc[a] \in {"lookup", "write"} THEN seqNum[a] - 1 ELSE seqNum[a]

\* The relay of a sends to c.
Target(c, a) == (clientConn = c /\ Passed(c, a)) \/ (apc[a] = "write" /\ dst[a] = c)

DstPast ==
  \A c \in Clients \ overlapped, a \in Apps :
    apc[a] = "write" /\ dst[a] = c => hpc[c] \in PastSynth
SilentOK ==
  \A c \in Clients, a \in Apps : InTime(c, a) /\ (hpc[c] \notin PastSynth \/ seqNum[a] = 0) =>
    NoRequest(toClient[c], a) /\ xconn[c][a].cnt = 0
CountsOK ==
  \A c \in Clients, a \in Apps : InTime(c, a) =>
    /\ xconn[c][a].st # "synth" => xconn[c][a].base = 0
    /\ xconn[c][a].st = "none" => xconn[c][a].cnt = 0
RecreatedOK ==
  \A c \in Clients, a \in appState \cap ridKnown :
    /\ InTime(c, a) /\ clientConn = c /\ Passed(c, a) /\ Reaches(c)
    /\ hpc[c] \in {"synth", "clear"} \/ (apc[a] = "write" /\ dst[a] # c)
    => ~Original(c, a)
StreamOK ==
  \A c \in Clients, a \in Apps : InTime(c, a) /\ Original(c, a) =>
    /\ \E l \in Nat : Stream(toClient[c], a, xconn[c][a].cnt, l)
    /\ a \in appState /\ Target(c, a) /\ Reaches(c) =>
         Stream(toClient[c], a, xconn[c][a].cnt, DoneWith(a))
LastOK ==
  \A a \in Apps :
    /\ waiting[a] \in {0, Len(reqs[a])}
    /\ \A n \in seqNum[a] + 1..Len(reqs[a]) : reqs[a][n] = "query" => n = Len(reqs[a])
    /\ apc[a] \in Working /\ IsQuery(a) => seqNum[a] = Len(reqs[a])
    /\ \A c \in Clients : \A i \in 1..Len(toClient[c]) :
         Asks(toClient[c][i], a) => toClient[c][i].n = Len(reqs[a])
RepliesOK ==
  \A c \in Clients, a \in Apps : InTime(c, a) =>
    /\ cliOpen[c] /\ a \notin Held(c) => NoReply(toServer[c], a)
    /\ xconn[c][a].st = "fresh" =>
         \A i \in 1..Len(toServer[c]) : Answers(toServer[c][i], a) => toServer[c][i].seq = waiting[a]

FreshInv ==
  /\ DstPast /\ SilentOK /\ CountsOK /\ RecreatedOK /\ StreamOK /\ LastOK /\ RepliesOK

\* A message is added to a stream, or its first is taken.
LEMMA StreamMoves ==
  ASSUME NEW q \in Seq(ClientMsg), NEW a \in Apps, NEW k \in Nat, NEW l \in Nat, Stream(q, a, k, l)
  PROVE  /\ \A m \in ClientMsg :
              /\ ~Requests(m, a) => Stream(Append(q, m), a, k, l)
              /\ Requests(m, a) /\ m.n = l + 1 => Stream(Append(q, m), a, k, l + 1)
         /\ q # <<>> /\ ~Requests(Head(q), a) => Stream(Tail(q), a, k, l)
         /\ q # <<>> /\ Requests(Head(q), a) =>
              Head(q).n = k + 1 /\ Stream(Tail(q), a, k + 1, l)
<1> DEFINE n == Len(q)
<1>0. n \in Nat OBVIOUS
<1>1. /\ k <= l
      /\ \A i \in 1..n : Requests(q[i], a) => q[i].n \in k + 1..l
      /\ \A i, j \in 1..n : Requests(q[i], a) /\ Requests(q[j], a) /\ i < j => q[i].n < q[j].n
      /\ \A s \in k + 1..l : \E i \in 1..n : Requests(q[i], a) /\ q[i].n = s
  BY DEF Stream
<1>2. ASSUME NEW m \in ClientMsg, NEW r, NEW h \in Nat, h >= l, Len(r) = n + 1,
             \A i \in 1..n : r[i] = q[i], r[n + 1] = m,
             Requests(m, a) => m.n = l + 1 /\ h = l + 1, ~Requests(m, a) => h = l
      PROVE  Stream(r, a, k, h)
  <2> HIDE DEF n
  <2>0. \A i \in 1..n + 1 : i \in 1..n \/ i = n + 1 BY <1>0
  <2>1. \A i \in 1..n + 1 : Requests(r[i], a) => r[i].n \in k + 1..h
    BY <1>0, <1>1, <1>2, <2>0
  <2>2. ASSUME NEW i \in 1..n + 1, NEW j \in 1..n + 1, Requests(r[i], a), Requests(r[j], a), i < j
        PROVE  r[i].n < r[j].n
    <3>1. i \in 1..n BY <1>0, <2>2
    <3>2. CASE j \in 1..n BY <1>1, <1>2, <2>2, <3>1, <3>2
    <3>3. CASE j = n + 1
      <4>1. r[i] = q[i] /\ q[i].n \in k + 1..l BY <1>1, <1>2, <2>2, <3>1
      <4>2. r[j].n = l + 1 BY <1>2, <2>2, <3>3
      <4> QED BY <4>1, <4>2
    <3> QED BY <2>0, <3>2, <3>3
  <2>3. ASSUME NEW s \in k + 1..h PROVE \E i \in 1..n + 1 : Requests(r[i], a) /\ r[i].n = s
    <3>1. CASE s \in k + 1..l
      <4>1. PICK i \in 1..n : Requests(q[i], a) /\ q[i].n = s BY <1>1, <3>1
      <4>2. i \in 1..n + 1 BY <1>0
      <4> QED BY <1>2, <4>1, <4>2
    <3>2. CASE s \notin k + 1..l
      <4>1. Requests(m, a) /\ s = l + 1 BY <1>2, <2>3, <3>2
      <4>2. n + 1 \in 1..n + 1 BY <1>0
      <4> QED BY <1>2, <4>1, <4>2
    <3> QED BY <3>1, <3>2
  <2>4. k <= h BY <1>1, <1>2
  <2> QED BY <1>2, <2>1, <2>2, <2>3, <2>4 DEF Stream
<1>3. ASSUME NEW m \in ClientMsg
      PROVE  /\ ~Requests(m, a) => Stream(Append(q, m), a, k, l)
             /\ Requests(m, a) /\ m.n = l + 1 => Stream(Append(q, m), a, k, l + 1)
  <2> DEFINE r == Append(q, m)
  <2>1. Len(r) = n + 1 /\ (\A i \in 1..n : r[i] = q[i]) /\ r[n + 1] = m OBVIOUS
  <2>2. l + 1 \in Nat /\ l + 1 >= l /\ l >= l OBVIOUS
  <2> HIDE DEF r, n
  <2> QED BY <1>2, <2>1, <2>2 DEF r
<1>4. ASSUME q # <<>>, NEW h \in Nat, Requests(Head(q), a) => Head(q).n = k + 1 /\ h = k + 1,
             ~Requests(Head(q), a) => h = k, h <= l
      PROVE  Stream(Tail(q), a, h, l)
  <2> DEFINE r == Tail(q)
             t == Len(r)
  <2>1. /\ 1 \in 1..n /\ Head(q) = q[1]
        /\ \A i \in 1..t : i + 1 \in 1..n /\ r[i] = q[i + 1]
        /\ \A i \in 1..n : i # 1 => i - 1 \in 1..t /\ r[i - 1] = q[i]
    BY <1>4, Shrunk
  <2> HIDE DEF r, t, n
  <2>2. ASSUME NEW i \in 1..t, Requests(r[i], a) PROVE r[i].n \in h + 1..l
    <3>1. i + 1 \in 1..n /\ r[i] = q[i + 1] /\ 1 < i + 1 BY <2>1
    <3>2. r[i].n \in k + 1..l BY <1>1, <2>2, <3>1
    <3>3. CASE ~Requests(Head(q), a) BY <1>4, <3>2, <3>3
    <3>4. CASE Requests(Head(q), a)
      <4>1. q[1].n < q[i + 1].n BY <1>1, <2>1, <2>2, <3>1, <3>4
      <4> QED BY <1>4, <2>1, <3>1, <3>2, <3>4, <4>1
    <3> QED BY <3>3, <3>4
  <2>3. ASSUME NEW i \in 1..t, NEW j \in 1..t, Requests(r[i], a), Requests(r[j], a), i < j
        PROVE  r[i].n < r[j].n
    <3>1. i + 1 \in 1..n /\ j + 1 \in 1..n /\ i + 1 < j + 1 /\ r[i] = q[i + 1] /\ r[j] = q[j + 1]
      BY <2>1, <2>3
    <3> QED BY <1>1, <2>3, <3>1
  <2>4. ASSUME NEW s \in h + 1..l PROVE \E i \in 1..t : Requests(r[i], a) /\ r[i].n = s
    <3>1. s # k + 1 \/ ~Requests(Head(q), a) BY <1>4
    <3>2. s \in k + 1..l BY <1>4
    <3>3. PICK i \in 1..n : Requests(q[i], a) /\ q[i].n = s BY <1>1, <3>2
    <3>4. i # 1 BY <1>4, <2>1, <3>1, <3>3
    <3> QED BY <2>1, <3>3, <3>4
  <2> QED BY <1>4, <2>2, <2>3, <2>4 DEF Stream, r, t
<1>5. ASSUME q # <<>>, Requests(Head(q), a) PROVE Head(q).n = k + 1 /\ k + 1 <= l
  <2>1. 1 \in 1..n /\ Head(q) = q[1] BY <1>5, Shrunk
  <2> HIDE DEF n
  <2>2. q[1].n \in k + 1..l BY <1>1, <1>5, <2>1
  <2>3. PICK i \in 1..n : Requests(q[i], a) /\ q[i].n = k + 1
    <3>1. k + 1 \in k + 1..l BY <2>2
    <3> QED BY <1>1, <3>1
  <2>4. i = 1 \/ 1 < i BY <1>0
  <2>5. CASE 1 < i
    <3>1. q[1].n < q[i].n BY <1>1, <1>5, <2>1, <2>3, <2>5
    <3> QED BY <2>2, <2>3, <3>1
  <2> QED BY <2>1, <2>2, <2>3, <2>4, <2>5
<1>6. q # <<>> /\ ~Requests(Head(q), a) => Stream(Tail(q), a, k, l) BY <1>1, <1>4
<1>7. q # <<>> /\ Requests(Head(q), a) => Head(q).n = k + 1 /\ Stream(Tail(q), a, k + 1, l)
  <2>1. k + 1 \in Nat OBVIOUS
  <2> QED BY <1>4, <1>5, <2>1
<1> QED BY <1>3, <1>6, <1>7

LEMMA NoRequestMoves ==
  ASSUME NEW q \in Seq(ClientMsg), NEW a \in Apps, NoRequest(q, a)
  PROVE  /\ \A k \in Nat : Stream(q, a, k, k)
         /\ \A m \in ClientMsg : ~Requests(m, a) => NoRequest(Append(q, m), a)
         /\ q # <<>> => ~Requests(Head(q), a) /\ NoRequest(Tail(q), a)
<1> USE DEF NoRequest
<1>1. ASSUME NEW k \in Nat PROVE Stream(q, a, k, k)
  <2>1. k + 1..k = {} /\ k <= k OBVIOUS
  <2> QED BY <2>1 DEF Stream
<1>2. \A m \in ClientMsg : ~Requests(m, a) => NoRequest(Append(q, m), a) BY Grown
<1>3. q # <<>> => ~Requests(Head(q), a) /\ NoRequest(Tail(q), a)
  <2> SUFFICES ASSUME q # <<>> PROVE ~Requests(Head(q), a) /\ NoRequest(Tail(q), a) OBVIOUS
  <2> QED BY Shrunk
<1> QED BY <1>1, <1>2, <1>3

LEMMA NoReplyMoves ==
  ASSUME NEW q \in Seq(ServerMsg), NEW a \in Apps
  PROVE  /\ NoReply(q, a) /\ q # <<>> => NoReply(Tail(q), a)
         /\ NoReply(q, a) => \A m \in ServerMsg : ~Answers(m, a) => NoReply(Append(q, m), a)
<1> USE DEF NoReply
<1>1. ASSUME NoReply(q, a), q # <<>> PROVE NoReply(Tail(q), a) BY <1>1, Shrunk
<1>2. ASSUME NoReply(q, a), NEW m \in ServerMsg, ~Answers(m, a) PROVE NoReply(Append(q, m), a)
  BY <1>2, Grown
<1> QED BY <1>1, <1>2

-----------------------------------------------------------------------------
(* FreshRepliesExact: what a client's reading h does to the number of requests *)
(* it has written on its X connection for a, x becoming y, and what it replies. *)

CountsRead(h, a, x, y) ==
  /\ y.cnt \in {0, x.cnt} \/ Requests(h, a)
  /\ y.st # "synth" =>
       /\ x.st # "synth" /\ y.base = 0
       /\ y.cnt = IF Requests(h, a) THEN x.cnt + 1 ELSE x.cnt
  /\ y.st = "none" => x.st = "none" /\ y.cnt = x.cnt
  /\ y.st = "synth" => x.st = "synth" \/ SetupFor(h, a)
  /\ y.st = "fresh" => x.st = "fresh" \/ (x.st = "none" /\ ~Requests(h, a))

\* What is added to the messages for the server is the display's answer.
Replied(h, a, x, q, r) ==
  \/ r = q
  \/ \E m \in ServerMsg :
       /\ r = Append(q, m)
       /\ Answers(m, a) => /\ Requests(h, a) /\ Asks(h, a) /\ x.st # "none"
                           /\ m.seq = x.base + x.cnt + 1

ReadFor(c, a) ==
  /\ cliOpen[c] /\ cliOpen'[c] /\ toClient[c] # <<>> /\ toClient'[c] = Tail(toClient[c])
  /\ CountsRead(Head(toClient[c]), a, xconn[c][a], xconn'[c][a])
  /\ Replied(Head(toClient[c]), a, xconn[c][a], toServer[c], toServer'[c])
  /\ SetupFor(Head(toClient[c]), a) => live[c] \/ xconn'[c][a].st = "synth"

LostFor(c, a) ==
  /\ ~cliOpen'[c] /\ toClient'[c] = <<>> /\ toServer'[c] = toServer[c]
  /\ xconn'[c][a] = NoXConn

LEMMA ReadsFor ==
  ASSUME TypeOK, CountsOK, NEW c \in Clients, ClientStep(c), ~Gone(c), NEW a \in Apps,
         InTime(c, a), Requests(Head(toClient[c]), a) => xconn[c][a].st # "none"
  PROVE  ReadFor(c, a)
<1> DEFINE h == Head(toClient[c])
           x == xconn[c][a]
           y == xconn'[c][a]
           Done(m) == /\ CountsRead(m, a, x, y) /\ Replied(m, a, x, toServer[c], toServer'[c])
                      /\ SetupFor(m, a) => live[c] \/ y.st = "synth"
<1>0. \A m \in Inbox(c) : m = h /\ m \in ClientMsg
  BY InboxType DEF Inbox, TypeOK
<1>1. x \in XConn /\ xconn \in [Clients -> [Apps -> XConn]] /\ toServer \in [Clients -> Seq(ServerMsg)]
      /\ toClient \in [Clients -> Seq(ClientMsg)]
  BY DEF TypeOK, ClientTypeOK, WireTypeOK
<1>2. /\ x.st # "synth" => x.base = 0
      /\ x.st = "none" => x.cnt = 0
      /\ x.st \in {"none", "synth", "fresh"} /\ x.cnt \in Nat /\ x.base \in Nat
      /\ Requests(h, a) => x.st # "none"
  <2>1. x.st \in {"none", "synth", "fresh"} /\ x.cnt \in Nat /\ x.base \in Nat BY <1>1 DEF XConn
  <2> QED BY <2>1 DEF CountsOK
<1>3. ASSUME NEW m \in Inbox(c), Done(m) PROVE ReadFor(c, a)
  <2>1. /\ cliOpen[c] /\ toClient[c] # <<>> /\ toClient' = [toClient EXCEPT ![c] = Tail(@)]
        /\ cliOpen' = cliOpen
    BY Reads DEF Consume
  <2>2. toClient'[c] = Tail(toClient[c]) BY <1>1, <2>1
  <2>3. m = h BY <1>0
  <2> QED BY <1>3, <2>1, <2>2, <2>3 DEF ReadFor
<1> HIDE DEF h
<1> USE DEF CountsRead, Replied
<1>4. CASE RecvIgnored(c)
  <2>1. PICK m \in Inbox(c) : m.type = "RESUME" \/ (live[c] /\ m.type \in {"SETUP", "LIVE"})
    BY <1>4 DEF RecvIgnored
  <2>2. y = x /\ toServer'[c] = toServer[c] BY <1>4 DEF RecvIgnored, clientVars
  <2>3. Done(m) BY <1>2, <2>1, <2>2 DEF Requests, IsRequest, SetupFor
  <2> QED BY <1>3, <2>3
<1>5. CASE RecvX11Setup(c)
  <2>1. PICK m \in Inbox(c) :
          /\ m.type = "SETUP"
          /\ xconn' = [xconn EXCEPT ![c][m.conn] =
                         [NoXConn EXCEPT !.st = "synth", !.base = m.seq, !.has = m.res]]
    BY <1>5 DEF RecvX11Setup
  <2>2. m.conn \in Apps BY <1>0, <2>1 DEF ClientMsg
  <2>3. toServer'[c] = toServer[c] /\ ~Requests(m, a) BY <1>5, <2>1 DEF RecvX11Setup, Requests, IsRequest
  <2>4. CASE m.conn = a
    <3>1. y.st = "synth" /\ y.cnt = 0 BY <1>1, <2>1, <2>4 DEF NoXConn
    <3>2. Done(m) BY <2>1, <2>3, <2>4, <3>1 DEF SetupFor
    <3> QED BY <1>3, <3>2
  <2>5. CASE m.conn # a
    <3>1. y = x BY <1>1, <2>1, <2>2, <2>5
    <3>2. Done(m) BY <1>2, <2>3, <2>5, <3>1 DEF SetupFor
    <3> QED BY <1>3, <3>2
  <2> QED BY <2>4, <2>5
<1>6. CASE RecvLive(c)
  <2>1. PICK m \in Inbox(c) :
          /\ m.type = "LIVE"
          /\ xconn' = [xconn EXCEPT ![c] = [b \in Apps |->
                         IF xconn[c][b].st = "synth"
                           THEN [xconn[c][b] EXCEPT !.cnt = 0, !.base = FinalSeq(xconn[c][b], m, b)]
                           ELSE xconn[c][b]]]
    BY <1>6 DEF RecvLive
  <2>2. toServer'[c] = toServer[c] /\ ~Requests(m, a) /\ ~SetupFor(m, a)
    BY <1>6, <2>1 DEF RecvLive, Requests, IsRequest, SetupFor
  <2>3. y = IF x.st = "synth" THEN [x EXCEPT !.cnt = 0, !.base = FinalSeq(x, m, a)] ELSE x
    BY <1>1, <2>1
  <2>4. x.st = "synth" => y.st = "synth" /\ y.cnt = 0
    <3>1. x.st = "synth" => y = [x EXCEPT !.cnt = 0, !.base = FinalSeq(x, m, a)] BY <2>3
    <3> QED BY <1>1, <3>1 DEF XConn
  <2>5. x.st # "synth" => y = x BY <2>3
  <2> HIDE DEF x, y
  <2>6. Done(m) BY <1>2, <2>2, <2>4, <2>5
  <2> QED BY <1>3, <2>6
<1>7. CASE RecvSetupBytes(c)
  <2>1. PICK m \in Inbox(c) :
          /\ m.type = "DATA" /\ m.n = 0
          /\ IF xconn[c][m.conn].st = "none"
               THEN /\ xconn' = [xconn EXCEPT ![c][m.conn] = FreshXConn]
                    /\ Output(c, XOutput(m.conn, "setup", 0))
               ELSE /\ xconn' = [xconn EXCEPT ![c][m.conn] = [@ EXCEPT !.bad = "setup"]]
                    /\ UNCHANGED toServer
    BY <1>7 DEF RecvSetupBytes
  <2>2. m.conn \in Apps BY <1>0, <2>1 DEF ClientMsg
  <2>3. ~Requests(m, a) /\ ~SetupFor(m, a) BY <2>1 DEF Requests, IsRequest, SetupFor
  <2> DEFINE o == XOutput(m.conn, "setup", 0)
  <2>4. o \in ServerMsg /\ ~Answers(o, a) BY <2>2, OutputType DEF XOutput, Answers
  <2>5. UNCHANGED toServer \/ Output(c, o) BY <2>1
  <2> HIDE DEF o
  <2>6. Replied(m, a, x, toServer[c], toServer'[c]) BY <1>1, <2>4, <2>5 DEF Output
  <2>7. CASE m.conn = a
    <3>1. CASE x.st = "none"
      <4>1. y = FreshXConn BY <1>1, <2>1, <2>2, <2>7, <3>1
      <4>2. y.st = "fresh" /\ y.cnt = 0 /\ y.base = 0 BY <4>1 DEF FreshXConn, NoXConn
      <4>3. Done(m) BY <1>2, <2>3, <2>6, <3>1, <4>2
      <4> QED BY <1>3, <4>3
    <3>2. CASE x.st # "none"
      <4>1. y = [x EXCEPT !.bad = "setup"] BY <1>1, <2>1, <2>2, <2>7, <3>2
      <4>2. y.st = x.st /\ y.cnt = x.cnt /\ y.base = x.base BY <1>1, <4>1 DEF XConn
      <4> HIDE DEF x, y
      <4>3. Done(m) BY <1>2, <2>3, <2>6, <3>2, <4>2
      <4> QED BY <1>3, <4>3
    <3> QED BY <3>1, <3>2
  <2>8. CASE m.conn # a
    <3>1. y = x BY <1>1, <2>1, <2>2, <2>8
    <3>2. Done(m) BY <1>2, <2>3, <2>6, <3>1
    <3> QED BY <1>3, <3>2
  <2> QED BY <2>7, <2>8
<1>8. CASE RecvRequest(c)
  <2>1. PICK m \in Inbox(c) :
          /\ IsRequest(m)
          /\ LET z == xconn[c][m.conn] IN
               IF z.st = "none"
                 THEN /\ xconn' = [xconn EXCEPT ![c][m.conn] =
                                     [NoXConn EXCEPT !.st = "fresh", !.bad = "request"]]
                      /\ UNCHANGED toServer
                 ELSE /\ xconn' = [xconn EXCEPT ![c][m.conn] = Counted(z, m)]
                      /\ IF m.query /\ z.bad = "no" /\ (live[c] \/ z.st = "fresh")
                           THEN Output(c, XOutput(m.conn, "reply", z.base + z.cnt + 1))
                           ELSE UNCHANGED toServer
    BY <1>8 DEF RecvRequest
  <2> DEFINE z == xconn[c][m.conn]
             o == XOutput(m.conn, "reply", z.base + z.cnt + 1)
  <2>2. m.conn \in Apps /\ m.type = "DATA" /\ ~SetupFor(m, a)
    BY <1>0, <2>1 DEF ClientMsg, IsRequest, SetupFor
  <2>3. m = h BY <1>0
  <2>4. z.base \in Nat /\ z.cnt \in Nat BY <1>1, <2>2 DEF XConn
  <2>5. o \in ServerMsg /\ o.conn = m.conn /\ o.seq = z.base + z.cnt + 1
    <3>1. z.base + z.cnt + 1 \in Nat BY <2>4
    <3> HIDE DEF z
    <3> QED BY <2>2, <3>1, OutputType DEF XOutput
  <2>6. UNCHANGED toServer \/ (m.query /\ z.st # "none" /\ Output(c, o)) BY <2>1
  <2>7. CASE m.conn = a
    <3>1. Requests(m, a) /\ z = x /\ z.st # "none" BY <1>2, <2>1, <2>3, <2>7 DEF Requests
    <3>2. y = Counted(x, m) BY <1>1, <2>1, <2>2, <2>7, <3>1
    <3>3. y.st = x.st /\ y.cnt = x.cnt + 1 /\ y.base = x.base BY <1>1, <3>2 DEF Counted, XConn
    <3>4. Replied(m, a, x, toServer[c], toServer'[c])
      <4>1. m.query => Asks(m, a) BY <2>2, <2>7 DEF Asks
      <4>2. o.seq = x.base + x.cnt + 1 /\ x.st # "none" BY <2>5, <3>1
      <4> HIDE DEF o, x
      <4>3. UNCHANGED toServer \/ (m.query /\ toServer'[c] = Append(toServer[c], o))
        BY <1>1, <2>6 DEF Output
      <4> QED BY <2>5, <3>1, <4>1, <4>2, <4>3
    <3> HIDE DEF x, y
    <3>5. Done(m) BY <1>2, <2>2, <3>1, <3>3, <3>4
    <3> QED BY <1>3, <3>5
  <2>8. CASE m.conn # a
    <3>1. ~Requests(m, a) BY <2>8 DEF Requests
    <3>2. y = x BY <1>1, <2>1, <2>2, <2>8
    <3>3. Replied(m, a, x, toServer[c], toServer'[c])
      <4>1. ~Answers(o, a) BY <2>5, <2>8 DEF Answers
      <4> HIDE DEF o
      <4> QED BY <1>1, <2>5, <2>6, <4>1 DEF Output
    <3>4. Done(m) BY <1>2, <2>2, <3>1, <3>2, <3>3
    <3> QED BY <1>3, <3>4
  <2> QED BY <2>7, <2>8
<1> QED BY <1>4, <1>5, <1>6, <1>7, <1>8 DEF ClientStep, ClientExit

LEMMA ClientMovesFor ==
  ASSUME TypeOK, CountsOK, ClientsStep, NEW c \in Clients, NEW a \in Apps, InTime(c, a),
         Requests(Head(toClient[c]), a) /\ toClient[c] # <<>> => xconn[c][a].st # "none"
  PROVE  /\ srvOpen' = srvOpen
         /\ LostFor(c, a) \/ ReadFor(c, a) \/ Untroubled(c)
<1> USE DEF TypeOK, WireTypeOK, ClientTypeOK
<1>1. PICK d \in Clients : ClientStep(d) \/ ClientCrash(d) BY DEF ClientsStep
<1>2. srvOpen' = srvOpen BY ClientMoves
<1>3. CASE Gone(d)
  <2>1. CASE c = d BY <1>2, <1>3, <2>1 DEF Gone, LostFor
  <2>2. CASE c # d BY <1>2, <1>3, <2>2 DEF Gone, Untroubled
  <2> QED BY <2>1, <2>2
<1>4. CASE ~Gone(d)
  <2>1. ClientStep(d) BY <1>1, <1>4 DEF ClientCrash
  <2>2. CASE c = d
    <3>1. toClient[c] # <<>> BY <1>4, <2>1, <2>2, Reads
    <3> QED BY <1>2, <1>4, <2>1, <2>2, <3>1, ReadsFor
  <2>3. CASE c # d
    <3>1. Consume(d) /\ xconn'[c] = xconn[c] BY <1>4, <2>1, <2>3, Reads
    <3>2. toClient'[c] = toClient[c] /\ cliOpen'[c] = cliOpen[c] BY <2>3, <3>1 DEF Consume
    <3>3. toServer'[c] = toServer[c] BY <1>4, <2>1, <2>3, Sends
    <3>4. live'[c] = live[c]
      BY <1>4, <2>1, <2>3 DEF ClientStep, RecvIgnored, RecvX11Setup, RecvLive,
         RecvSetupBytes, RecvRequest, ClientExit, clientVars
    <3> QED BY <1>2, <3>1, <3>2, <3>3, <3>4 DEF Untroubled
  <2> QED BY <2>2, <2>3
<1> QED BY <1>3, <1>4

-----------------------------------------------------------------------------
(* FreshRepliesExact: what a step of the server does to what is known of a *)

SteadyFor(a) ==
  /\ seqNum'[a] = seqNum[a] /\ apc'[a] = apc[a] /\ dst'[a] = dst[a]
  /\ a \in appState' <=> a \in appState

LEMMA ServerFor ==
  ASSUME TypeOK, TrackedOK, ServerStep, NEW a \in Apps
  PROVE  /\ reqs' = reqs /\ waiting'[a] \in {0, waiting[a]}
         /\ Relay(a) \/ (SteadyFor(a) /\ ~WriteRequest(a))
<1> DEFINE Goal == reqs' = reqs /\ waiting'[a] \in {0, waiting[a]}
<1> USE DEF TypeOK, AppTypeOK
<1>1. ASSUME NEW d \in Clients, AcceptClient(d) \/ Handler(d)
      PROVE  Goal /\ SteadyFor(a) /\ ~WriteRequest(a)
  <2>1. UNCHANGED <<apc, dst, appState>> BY <1>1, HandlerTracked
  <2>2. UNCHANGED seqNum
    BY <1>1 DEF Handler, AcceptClient, HelloOk, HelloRejected, ClosePrev, SendResume,
     SnapshotStates, SynthesiseAppConn, SendLive, ClearSynthActive, ReadStamp,
     InjectNothing, WriteInjected, CollectPending, ResendSetup, StartReading, ReadFromClient,
     Deliver, ReadError, Unregister, CloseConn, tables
  <2>3. ASSUME Deliver(d) \/ WriteInjected(d) PROVE Goal
    <3>1. UNCHANGED appVars \/ \E k, kind, n : AppWrite(k, kind, n)
      BY <2>3 DEF Deliver, WriteInjected
    <3> QED BY <3>1 DEF AppWrite, appVars
  <2>4. ASSUME ~(Deliver(d) \/ WriteInjected(d)) PROVE Goal
    BY <1>1, <2>4 DEF Handler, AcceptClient, HelloOk, HelloRejected, ClosePrev, SendResume,
     SnapshotStates, SynthesiseAppConn, SendLive, ClearSynthActive, ReadStamp,
     InjectNothing, CollectPending, ResendSetup, StartReading, ReadFromClient,
     ReadError, Unregister, CloseConn, appVars
  <2>5. ~WriteRequest(a)
    BY <2>1 DEF WriteRequest, AfterWrite, GotoApp, ServerTypeOK
  <2> QED BY <2>1, <2>2, <2>3, <2>4, <2>5 DEF SteadyFor
<1>2. ASSUME NEW b \in Apps, Relay(b) PROVE Goal
  BY <1>2 DEF Relay, AcceptApp, TrackApp, SetupUnreadable, SendSetup, ReadRequest, LookupClient,
     WriteRequest, WriteRequestFails, FakeReply, ReadRequestFails, UntrackApp, CloseApp,
     appVars, AppWrite
<1>3. ASSUME NEW b \in Apps, Relay(b), b # a PROVE SteadyFor(a)
  BY <1>3 DEF SteadyFor, Relay, AcceptApp, TrackApp, SetupUnreadable, SendSetup, ReadRequest,
     LookupClient, WriteRequest, AfterWrite, WriteRequestFails, FakeReply, ReadRequestFails,
     UntrackApp, CloseApp, tables, relays, GotoApp, ServerTypeOK
<1>4. ASSUME SteadyFor(a) PROVE ~WriteRequest(a)
  BY <1>4 DEF SteadyFor, WriteRequest, AfterWrite, GotoApp, ServerTypeOK
<1> QED BY <1>1, <1>2, <1>3, <1>4 DEF ServerStep

\* A request written is its relay's.
LEMMA WrittenFor ==
  ASSUME TypeOK, NEW c \in Clients, NEW a \in Apps, NEW m, Writing(c, m)
  PROVE  /\ Requests(m, a) =>
              /\ WriteRequest(a) /\ dst[a] = c /\ apc[a] = "write" /\ m.n = seqNum[a]
              /\ m.query = IsQuery(a)
         /\ Asks(m, a) => WriteRequest(a) /\ IsQuery(a) /\ m.n = seqNum[a]
         /\ WriteRequest(a) => apc[a] = "write"
<1> USE DEF Writing, X11Data, X11Setup, Requests, IsRequest, Asks
<1>1. Requests(m, a) => \E b \in Apps : WriteRequest(b) /\ dst[b] = c /\ m = X11Data(b, seqNum[b], IsQuery(b))
  OBVIOUS
<1>2. Asks(m, a) => \E b \in Apps : WriteRequest(b) /\ m = X11Data(b, seqNum[b], IsQuery(b))
  OBVIOUS
<1>3. ASSUME Requests(m, a)
      PROVE  WriteRequest(a) /\ dst[a] = c /\ m.n = seqNum[a] /\ m.query = IsQuery(a)
  <2>1. PICK b \in Apps : WriteRequest(b) /\ dst[b] = c /\ m = X11Data(b, seqNum[b], IsQuery(b))
    BY <1>1, <1>3
  <2>2. b = a BY <1>3, <2>1
  <2> QED BY <2>1, <2>2
<1>4. ASSUME Asks(m, a) PROVE WriteRequest(a) /\ IsQuery(a) /\ m.n = seqNum[a]
  <2>1. PICK b \in Apps : WriteRequest(b) /\ m = X11Data(b, seqNum[b], IsQuery(b)) BY <1>2, <1>4
  <2>2. b = a /\ m.query = IsQuery(b) BY <1>4, <2>1
  <2> QED BY <1>4, <2>1, <2>2
<1> QED BY <1>3, <1>4 DEF WriteRequest

LEMMA ServerDstPast ==
  ASSUME TypeOK, OpenInv, GateInv, DstPast, ServerStep
  PROVE  DstPast'
<1> SUFFICES ASSUME NEW c \in Clients, c \notin overlapped', NEW a \in Apps, apc'[a] = "write",
                    dst'[a] = c
             PROVE  hpc'[c] \in PastSynth
  BY DEF DstPast
<1>0. TrackedOK /\ ShutUntilLive /\ c \notin overlapped BY OverlapStep DEF OpenInv, Next
<1>1. hpc[c] \in PastSynth => hpc'[c] \in PastSynth BY <1>0, ServerFrame
<1>2. CASE apc[a] = "write" /\ dst[a] = c BY <1>0, <1>1, <1>2 DEF DstPast
<1>3. CASE clientConn = c /\ ~synthActive
  <2>1. hpc[c] \in Registered /\ hpc[c] \notin BeforeLive
    BY <1>0, <1>3 DEF GateInv, ShutUntilLive
  <2>2. hpc[c] \in PastSynth
    BY <2>1 DEF Registered, BeforeLive, PastSynth, HandlerPC
  <2> QED BY <1>1, <2>2
<1> QED BY <1>2, <1>3, NewlyLookedUp

LEMMA ServerSilent ==
  ASSUME TypeOK, OpenInv, OnceInv, DstPast, SilentOK, ServerStep
  PROVE  SilentOK'
<1> SUFFICES ASSUME NEW c \in Clients, NEW a \in Apps, InTime(c, a)',
                    hpc'[c] \notin PastSynth \/ seqNum'[a] = 0
             PROVE  NoRequest(toClient'[c], a) /\ xconn'[c][a].cnt = 0
  BY DEF SilentOK
<1>1. /\ hpc[c] \in PastSynth => hpc'[c] \in PastSynth
      /\ xconn' = xconn /\ Written(c)
  BY ServerFrame DEF OpenInv
<1>2. seqNum'[a] \in Nat /\ seqNum'[a] >= seqNum[a] /\ seqNum[a] \in Nat
  BY SeqGrows DEF Next, TypeOK, ServerTypeOK
<1>0. InTime(c, a) BY TimelyStep DEF Next
<1>3. hpc[c] \notin PastSynth \/ seqNum[a] = 0 BY <1>1, <1>2
<1>4. NoRequest(toClient[c], a) /\ xconn[c][a].cnt = 0 BY <1>0, <1>3 DEF SilentOK
<1>5. ASSUME NEW m \in ClientMsg, Writing(c, m), toClient'[c] = Append(toClient[c], m)
      PROVE  NoRequest(toClient'[c], a)
  <2>1. ~Requests(m, a)
    <3> SUFFICES ASSUME Requests(m, a) PROVE FALSE OBVIOUS
    <3>1. apc[a] = "write" /\ dst[a] = c BY <1>5, WrittenFor
    <3>2. hpc[c] \in PastSynth BY <1>0, <3>1 DEF DstPast, InTime
    <3>3. seqNum[a] \in 1..Len(reqs[a]) BY <3>1 DEF OnceInv, Working
    <3> QED BY <1>3, <3>2, <3>3
  <2>2. toClient[c] \in Seq(ClientMsg) BY DEF TypeOK, WireTypeOK
  <2> QED BY <1>4, <1>5, <2>1, <2>2, NoRequestMoves
<1> QED BY <1>1, <1>4, <1>5 DEF Written

LEMMA ServerLast ==
  ASSUME TypeOK, OpenInv, OnceInv, LastOK, ServerStep
  PROVE  LastOK'
<1> SUFFICES ASSUME NEW a \in Apps
             PROVE  /\ waiting'[a] \in {0, Len(reqs'[a])}
                    /\ \A n \in seqNum'[a] + 1..Len(reqs'[a]) :
                         reqs'[a][n] = "query" => n = Len(reqs'[a])
                    /\ apc'[a] \in Working /\ IsQuery(a)' => seqNum'[a] = Len(reqs'[a])
                    /\ \A c \in Clients : \A i \in 1..Len(toClient'[c]) :
                         Asks(toClient'[c][i], a) => toClient'[c][i].n = Len(reqs'[a])
  BY DEF LastOK
<1> DEFINE L == Len(reqs[a])
<1>0. TrackedOK BY DEF OpenInv
<1>1. reqs' = reqs /\ waiting'[a] \in {0, waiting[a]} /\ (Relay(a) \/ SteadyFor(a))
  BY <1>0, ServerFor
<1>2. /\ waiting[a] \in {0, L}
      /\ \A n \in seqNum[a] + 1..L : reqs[a][n] = "query" => n = L
      /\ apc[a] \in Working /\ IsQuery(a) => seqNum[a] = L
      /\ \A c \in Clients : \A i \in 1..Len(toClient[c]) :
           Asks(toClient[c][i], a) => toClient[c][i].n = L
  BY DEF LastOK
<1>3. L \in Nat /\ seqNum[a] \in Nat BY DEF TypeOK, AppTypeOK, ServerTypeOK
<1>4. CASE ReadRequest(a)
  <2>1. seqNum'[a] = seqNum[a] + 1 /\ seqNum[a] < L
    BY <1>4 DEF ReadRequest, TypeOK, ServerTypeOK
  <2>2. seqNum'[a] \in seqNum[a] + 1..L BY <1>3, <2>1
  <2>3. IsQuery(a)' => seqNum'[a] = L BY <1>1, <1>2, <2>2 DEF IsQuery
  <2>4. seqNum'[a] + 1..L \subseteq seqNum[a] + 1..L BY <1>3, <2>1
  <2>5. toClient' = toClient BY <1>4 DEF ReadRequest, wireVars
  <2> HIDE DEF L
  <2> QED BY <1>1, <1>2, <2>3, <2>4, <2>5 DEF L
<1>5. CASE ~ReadRequest(a)
  <2>1. seqNum'[a] = seqNum[a] /\ (apc'[a] \in Working => apc[a] \in Working)
    <3>1. CASE SteadyFor(a) BY <3>1 DEF SteadyFor
    <3>2. CASE Relay(a)
      BY <1>5, <3>2 DEF Relay, AcceptApp, TrackApp, SetupUnreadable, SendSetup,
         LookupClient, WriteRequest, AfterWrite, WriteRequestFails, FakeReply, ReadRequestFails,
         UntrackApp, CloseApp, tables, GotoApp, Working, TypeOK, ServerTypeOK
    <3> QED BY <1>1, <3>1, <3>2
  <2>2. IsQuery(a)' <=> IsQuery(a) BY <1>1, <2>1 DEF IsQuery
  <2>3. ASSUME NEW c \in Clients, NEW i \in 1..Len(toClient'[c]), Asks(toClient'[c][i], a)
        PROVE  toClient'[c][i].n = L
    <3>1. toClient[c] \in Seq(ClientMsg) /\ Written(c)
      BY <1>0, ServerFrame DEF TypeOK, WireTypeOK
    <3>2. CASE toClient'[c] = toClient[c] BY <1>2, <2>3, <3>2
    <3>3. ASSUME NEW m \in ClientMsg, Writing(c, m), toClient'[c] = Append(toClient[c], m)
          PROVE  toClient'[c][i].n = L
      <4>1. CASE i \in 1..Len(toClient[c]) /\ toClient'[c][i] = toClient[c][i]
        BY <1>2, <2>3, <4>1
      <4>2. CASE toClient'[c][i] = m
        <5>1. WriteRequest(a) /\ IsQuery(a) /\ m.n = seqNum[a] /\ apc[a] = "write"
          BY <2>3, <3>3, <4>2, WrittenFor
        <5> QED BY <1>2, <4>2, <5>1 DEF Working
      <4>3. /\ i \in 1..Len(Append(toClient[c], m))
            /\ \A j \in 1..Len(toClient[c]) : Append(toClient[c], m)[j] = toClient[c][j]
        BY <2>3, <3>1, <3>3, Grown
      <4>4. i \in 1..Len(toClient[c]) \/ Append(toClient[c], m)[i] = m BY <3>1, <4>3, Grown
      <4> QED BY <3>3, <4>1, <4>2, <4>3, <4>4
    <3> QED BY <3>1, <3>2, <3>3 DEF Written
  <2> HIDE DEF L
  <2> QED BY <1>1, <1>2, <2>1, <2>2, <2>3 DEF L
<1> QED BY <1>4, <1>5

-----------------------------------------------------------------------------
(* FreshRepliesExact: the streams, in a step of the server *)

\* An X connection that was recreated stays so.
LEMMA OriginalBefore ==
  ASSUME TypeOK, TrackedOK, ServerStep, NEW c \in Clients, NEW a \in Apps, Original(c, a)'
  PROVE  /\ Original(c, a)
         /\ \A m \in ClientMsg : toClient'[c] = Append(toClient[c], m) => ~SetupFor(m, a)
<1>1. xconn' = xconn /\ Written(c) BY ServerFrame
<1>2. toClient[c] \in Seq(ClientMsg) BY DEF TypeOK, WireTypeOK
<1>3. ASSUME NEW m \in ClientMsg, toClient'[c] = Append(toClient[c], m)
      PROVE  Original(c, a) /\ ~SetupFor(m, a)
  <2> DEFINE q == toClient[c]
             r == toClient'[c]
  <2>1. /\ \A i \in 1..Len(q) : i \in 1..Len(r) /\ r[i] = q[i]
        /\ Len(q) + 1 \in 1..Len(r) /\ r[Len(q) + 1] = m
    BY <1>2, <1>3, Grown
  <2> QED BY <1>1, <2>1 DEF Original
<1>4. CASE toClient'[c] = toClient[c] BY <1>1, <1>4, <1>3 DEF Original
<1> QED BY <1>1, <1>3, <1>4 DEF Written

\* Its synthesis recreates it.
LEMMA SetupSent ==
  ASSUME TypeOK, NEW c \in Clients, NEW a \in Apps, SynthesiseAppConn(c), clientConn = c,
         a \in todo[c], a \notin todo'[c], a \in ridKnown, Reaches(c)
  PROVE  ~Original(c, a)'
<1> USE DEF TypeOK, ServerTypeOK, WireTypeOK
<1>1. PICK b \in todo[c] :
        /\ todo' = [todo EXCEPT ![c] = @ \ {b}]
        /\ IF Skipped(b) THEN UNCHANGED toClient
           ELSE WriteToCurrent(X11Setup(b, seqNum[b], Tracked(b)))
  BY DEF SynthesiseAppConn
<1>2. b = a BY <1>1
<1> DEFINE m == X11Setup(a, seqNum[a], Tracked(a))
<1>3. m \in ClientMsg BY TrackedType, MessageTypes
<1>4. SetupFor(m, a) BY DEF SetupFor, X11Setup
<1>5. WriteToCurrent(m) BY <1>1, <1>2 DEF Skipped
<1> HIDE DEF m
<1>6. toClient'[c] = Append(toClient[c], m)
  BY <1>5, NoClientAssumption DEF WriteToCurrent, WriteIgnored, Reaches
<1>7. toClient[c] \in Seq(ClientMsg) OBVIOUS
<1>8. Len(toClient[c]) + 1 \in 1..Len(toClient'[c]) /\ toClient'[c][Len(toClient[c]) + 1] = m
  BY <1>3, <1>6, <1>7, Grown
<1> QED BY <1>4, <1>8 DEF Original

LEMMA LookupFor ==
  ASSUME TypeOK, TrackedOK, ServerStep, NEW a \in Apps, apc'[a] = "write"
  PROVE  (apc[a] = "write" /\ dst'[a] = dst[a]) \/ dst'[a] = clientConn
<1>1. CASE SteadyFor(a) BY <1>1 DEF SteadyFor
<1>2. CASE Relay(a)
  BY <1>2 DEF Relay, AcceptApp, TrackApp, SetupUnreadable, SendSetup, ReadRequest,
     LookupClient, WriteRequest, AfterWrite, WriteRequestFails, FakeReply, ReadRequestFails,
     UntrackApp, CloseApp, GotoApp, TypeOK, ServerTypeOK
<1> QED BY <1>1, <1>2, ServerFor

LEMMA SynthBefore ==
  ASSUME TypeOK, TrackedOK, ServerStep, NEW c \in Clients, hpc'[c] \in {"synth", "clear"}
  PROVE  hpc[c] \in {"snapshot", "synth", "clear"}
<1> USE DEF TypeOK, ServerTypeOK
<1>1. ASSUME NEW a \in Apps, Relay(a) PROVE hpc' = hpc BY <1>1, RelayAt
<1>2. ASSUME NEW d \in Clients, AcceptClient(d) PROVE hpc[c] \in {"snapshot", "synth", "clear"}
  BY <1>2 DEF AcceptClient, Goto
<1>3. ASSUME NEW d \in Clients, Handler(d) PROVE hpc[c] \in {"snapshot", "synth", "clear"}
  <2> DEFINE Goal == hpc[c] \in {"snapshot", "synth", "clear"}
  <2>1. ASSUME HelloOk(d) \/ HelloRejected(d) \/ ClosePrev(d) \/ SendResume(d) PROVE Goal
    BY <2>1 DEF HelloOk, HelloRejected, ClosePrev, SendResume, Goto
  <2>2. ASSUME SnapshotStates(d) \/ SynthesiseAppConn(d) \/ SendLive(d) \/ ClearSynthActive(d)
        PROVE  Goal
    BY <2>2 DEF SnapshotStates, SynthesiseAppConn, SendLive, AfterLive, ClearSynthActive, Goto
  <2>3. ASSUME ReadStamp(d) \/ InjectNothing(d) \/ WriteInjected(d) \/ CollectPending(d)
        PROVE  Goal
    BY <2>3 DEF ReadStamp, InjectNothing, WriteInjected, CollectPending, Goto
  <2>4. ASSUME ResendSetup(d) \/ StartReading(d) \/ ReadFromClient(d) \/ Deliver(d) PROVE Goal
    <3>1. CASE ResendSetup(d) BY <3>1 DEF ResendSetup
    <3>2. CASE StartReading(d) BY <3>2 DEF StartReading, Goto
    <3>3. CASE ReadFromClient(d) BY <3>3 DEF ReadFromClient, Goto
    <3>4. CASE Deliver(d)
      <4>1. hpc' = [hpc EXCEPT ![d] = "read"] BY <3>4 DEF Deliver, Goto
      <4> QED BY <4>1
    <3> QED BY <2>4, <3>1, <3>2, <3>3, <3>4
  <2>5. ASSUME ReadError(d) \/ Unregister(d) \/ CloseConn(d) PROVE Goal
    BY <2>5 DEF ReadError, Unregister, CloseConn, Goto
  <2> QED BY <1>3, <2>1, <2>2, <2>3, <2>4, <2>5 DEF Handler
<1> QED BY <1>1, <1>2, <1>3 DEF ServerStep

\* A relay that holds a request is that of a recorded and tracked application.
LEMMA WorkingKnown ==
  ASSUME TypeOK, TrackedOK, OnceInv, RidInv, NEW a \in Apps, apc[a] \in Working
  PROVE  a \in appState \cap ridKnown /\ seqNum[a] \in Nat /\ seqNum[a] > 0
<1>1. seqNum[a] \in 1..Len(reqs[a]) /\ Len(reqs[a]) \in Nat
  BY DEF OnceInv, TypeOK, AppTypeOK
<1> QED BY <1>1 DEF TrackedOK, RidInv, Working, TypeOK, AppTypeOK

LEMMA ServerRecreated ==
  ASSUME TypeOK, OpenInv, OnceInv, RidInv, GateInv, RecreatedOK, ServerStep
  PROVE  RecreatedOK'
<1> SUFFICES ASSUME NEW c \in Clients, NEW a \in Apps, a \in appState', a \in ridKnown',
                    InTime(c, a)', clientConn' = c, Passed(c, a)', Reaches(c)', Original(c, a)',
                    hpc'[c] \in {"synth", "clear"} \/ (apc'[a] = "write" /\ dst'[a] # c)
             PROVE  FALSE
  <2>1. appState' \subseteq Apps /\ ridKnown' \subseteq Apps
    BY NextType DEF Next, TypeOK, ServerTypeOK
  <2> QED BY <2>1 DEF RecreatedOK
<1>0. TrackedOK /\ InTime(c, a) BY TimelyStep DEF OpenInv, Next
<1>1. Original(c, a) BY <1>0, OriginalBefore
<1>2. /\ hpc[c] # "idle" => cliOpen'[c] = cliOpen[c] /\ (srvOpen'[c] => srvOpen[c])
      /\ hpc[c] = "idle" /\ hpc'[c] # "idle" => hpc'[c] = "hello"
  BY <1>0, ServerFrame
<1>3. hpc'[c] \in Registered BY DEF Passed
<1>4. Reaches(c) BY <1>2, <1>3 DEF Reaches, Registered
<1>5. apc'[a] = "write" => (apc[a] = "write" /\ dst'[a] = dst[a]) \/ dst'[a] = clientConn
  BY <1>0, LookupFor
<1>6. CASE clientConn = c /\ a \in ridKnown \cap appState /\ Passed(c, a)
  <2>1. hpc'[c] \in {"synth", "clear"} => hpc[c] \in {"snapshot", "synth", "clear"}
    BY <1>0, SynthBefore
  <2>2. hpc[c] # "snapshot" BY <1>6 DEF Passed
  <2>3. hpc[c] \in {"synth", "clear"} \/ (apc[a] = "write" /\ dst[a] # c)
    BY <1>5, <1>6, <2>1, <2>2
  <2> QED BY <1>0, <1>1, <1>4, <1>6, <2>3 DEF RecreatedOK
<1>7. CASE clientConn = c /\ SynthesiseAppConn(c) /\ a \in todo[c] /\ a \notin todo'[c]
  <2>1. a \in ridKnown BY <1>7 DEF SynthesiseAppConn, tables
  <2> QED BY <1>4, <1>7, <2>1, SetupSent
<1>8. CASE Deliver(c) /\ hold[c].kind = "setup" /\ hold[c].conn = a
  <2>1. /\ hpc[c] = "deliver" /\ hpc'[c] = "read" /\ clientConn' = clientConn
        /\ UNCHANGED <<apc, dst>>
    BY <1>8 DEF Deliver, Goto, registry, relays, TypeOK, ServerTypeOK
  <2>2. apc[a] = "write" /\ dst[a] # c BY <2>1
  <2>3. a \in appState \cap ridKnown BY <1>0, <2>2, WorkingKnown DEF Working
  <2>4. Passed(c, a) BY <2>1 DEF Passed, Registered
  <2> QED BY <1>0, <1>1, <1>4, <2>1, <2>2, <2>3, <2>4 DEF RecreatedOK
<1> QED BY <1>6, <1>7, <1>8, NewlyPassed

\* Where the relay of a sends, it has been sending, unless a has made no request.
LEMMA TargetBefore ==
  ASSUME TypeOK, OpenInv, RidInv, RidInv', GateInv, ServerStep,
         NEW c \in Clients, NEW a \in Apps, InTime(c, a)',
         Original(c, a)', a \in appState', Target(c, a)', Reaches(c)', seqNum'[a] # 0
  PROVE  a \in appState /\ Target(c, a) /\ Reaches(c)
<1>0. TrackedOK /\ ShutUntilLive /\ c \notin overlapped BY TimelyStep DEF OpenInv, Next, InTime
<1>1. seqNum'[a] \in Nat /\ seqNum[a] \in Nat /\ reqs' \in [Apps -> Seq(ReqKind)]
  BY NextType DEF Next, TypeOK, ServerTypeOK, AppTypeOK
<1>2. a \in ridKnown'
  <2>1. Len(reqs'[a]) \in Nat BY <1>1
  <2> QED BY <1>1, <2>1 DEF RidInv
<1>3. /\ hpc[c] # "idle" => cliOpen'[c] = cliOpen[c] /\ (srvOpen'[c] => srvOpen[c])
      /\ hpc[c] = "idle" /\ hpc'[c] # "idle" => hpc'[c] = "hello"
  BY <1>0, ServerFrame
<1>4. CASE clientConn' = c /\ Passed(c, a)'
  <2>1. Reaches(c) BY <1>3, <1>4 DEF Passed, Reaches, Registered
  <2>2. CASE clientConn = c /\ a \in ridKnown \cap appState /\ Passed(c, a)
    BY <2>1, <2>2 DEF Target
  <2>3. CASE clientConn = c /\ SynthesiseAppConn(c) /\ a \in todo[c] /\ a \notin todo'[c]
    <3>1. a \in ridKnown BY <1>2, <2>3 DEF SynthesiseAppConn, tables
    <3> QED BY <2>1, <2>3, <3>1, SetupSent
  <2>4. CASE Deliver(c) /\ hold[c].kind = "setup" /\ hold[c].conn = a
    <3>1. hpc[c] = "deliver" /\ clientConn' = clientConn /\ appState' = appState
      BY <2>4 DEF Deliver, registry
    <3> QED BY <1>4, <2>1, <3>1 DEF Passed, Registered, Target
  <2> QED BY <1>2, <1>4, <2>2, <2>3, <2>4, NewlyPassed
<1>5. CASE apc'[a] = "write" /\ dst'[a] = c
  <2>1. CASE apc[a] = "write" /\ dst[a] = c
    <3>1. hpc[c] # "idle" BY <2>1 DEF GateInv
    <3>2. a \in appState BY <1>0, <2>1 DEF TrackedOK
    <3> QED BY <1>3, <2>1, <3>1, <3>2 DEF Target, Reaches
  <2>2. CASE apc[a] = "lookup" /\ clientConn = c /\ ~synthActive
    <3>1. hpc[c] \in Registered /\ hpc[c] \notin BeforeLive
      BY <1>0, <2>2 DEF GateInv, ShutUntilLive
    <3>2. Passed(c, a) /\ hpc[c] # "idle" BY <3>1 DEF Passed, Registered, BeforeLive
    <3>3. a \in appState BY <1>0, <2>2 DEF TrackedOK
    <3> QED BY <1>3, <2>2, <3>2, <3>3 DEF Target, Reaches
  <2> QED BY <1>5, <2>1, <2>2, NewlyLookedUp
<1> QED BY <1>4, <1>5 DEF Target

LEMMA ServerStreams ==
  ASSUME TypeOK, OpenInv, OnceInv, RidInv, GateInv, GateReopens, RecreatedOK, SilentOK, StreamOK,
         RidInv', SilentOK', OnceInv', ServerStep
  PROVE  StreamOK'
<1> SUFFICES ASSUME NEW c \in Clients, NEW a \in Apps, InTime(c, a)', Original(c, a)'
             PROVE  /\ \E l \in Nat : Stream(toClient'[c], a, xconn'[c][a].cnt, l)
                    /\ a \in appState' /\ Target(c, a)' /\ Reaches(c)' =>
                         Stream(toClient'[c], a, xconn'[c][a].cnt, DoneWith(a)')
  BY DEF StreamOK
<1> DEFINE q == toClient[c]
           r == toClient'[c]
           k == xconn[c][a].cnt
           s == seqNum[a]
<1>0. TrackedOK /\ HandoverInv /\ InTime(c, a) BY TimelyStep DEF OpenInv, Next
<1>1. q \in Seq(ClientMsg) /\ k \in Nat /\ s \in Nat
  BY DEF TypeOK, WireTypeOK, ClientTypeOK, XConn, ServerTypeOK
<1>2. /\ Original(c, a)
      /\ \A m \in ClientMsg : r = Append(q, m) => ~SetupFor(m, a)
  BY <1>0, OriginalBefore
<1>3. xconn'[c][a].cnt = k /\ Written(c) BY <1>0, ServerFrame
<1>4. /\ \E l \in Nat : Stream(q, a, k, l)
      /\ a \in appState /\ Target(c, a) /\ Reaches(c) => Stream(q, a, k, DoneWith(a))
  BY <1>0, <1>2 DEF StreamOK
<1>5. \/ r = q
      \/ Reaches(c) /\ \E m \in ClientMsg : Writing(c, m) /\ r = Append(q, m)
  BY <1>3 DEF Written, Reaches
\* A step that writes no request of a leaves its stream alone.
<1>6. ASSUME NEW l \in Nat, Stream(q, a, k, l), ~(WriteRequest(a) /\ dst[a] = c)
      PROVE  Stream(r, a, k, l)
  <2>1. ASSUME NEW m \in ClientMsg, Writing(c, m), r = Append(q, m) PROVE Stream(r, a, k, l)
    <3>1. ~Requests(m, a) BY <1>6, <2>1, WrittenFor
    <3> HIDE DEF q, r, k
    <3> QED BY <1>1, <1>6, <2>1, <3>1, StreamMoves
  <2> QED BY <1>5, <1>6, <2>1
\* One that does prolongs it.
<1>7. ASSUME WriteRequest(a), dst[a] = c, Reaches(c)
      PROVE  Stream(r, a, k, s)
  <2>1. apc[a] = "write" BY <1>7 DEF WriteRequest
  <2>2. a \in appState /\ s > 0 BY <1>0, <2>1, WorkingKnown DEF Working
  <2>3. Stream(q, a, k, s - 1) BY <1>4, <1>7, <2>1, <2>2 DEF Target, DoneWith
  <2> DEFINE m == X11Data(a, s, IsQuery(a))
  <2>4. m \in ClientMsg /\ Requests(m, a) /\ m.n = (s - 1) + 1
    BY <1>1, <2>2 DEF X11Data, ClientMsg, IsQuery, Requests, IsRequest
  <2>5. r = Append(q, m)
    BY <1>7 DEF WriteRequest, Write, Reaches, TypeOK, WireTypeOK
  <2>6. s - 1 \in Nat /\ (s - 1) + 1 = s BY <1>1, <2>2
  <2> HIDE DEF q, r, k, s, m
  <2>7. Stream(r, a, k, (s - 1) + 1) BY <1>1, <2>3, <2>4, <2>5, <2>6, StreamMoves
  <2> QED BY <2>6, <2>7
<1>8. \E l \in Nat : Stream(r, a, k, l)
  <2>1. CASE WriteRequest(a) /\ dst[a] = c /\ Reaches(c)
    BY <1>1, <1>7, <2>1
  <2>2. CASE ~(WriteRequest(a) /\ dst[a] = c) BY <1>4, <1>6, <2>2
  <2>3. CASE ~Reaches(c) BY <1>4, <1>5, <2>3
  <2> QED BY <2>1, <2>2, <2>3
<1>9. ASSUME a \in appState', Target(c, a)', Reaches(c)'
      PROVE  Stream(r, a, k, DoneWith(a)')
  <2>1. CASE seqNum'[a] = 0
    <3>1. NoRequest(r, a) /\ k = 0 BY <1>3, <2>1 DEF SilentOK
    <3>2. apc'[a] \notin Working BY <2>1 DEF OnceInv
    <3>3. DoneWith(a)' = 0 BY <2>1, <3>2 DEF DoneWith, Working
    <3>4. r \in Seq(ClientMsg) BY NextType DEF Next, TypeOK, WireTypeOK
    <3> HIDE DEF r, k
    <3>5. 0 \in Nat /\ Stream(r, a, 0, 0) BY <3>1, <3>4, NoRequestMoves
    <3> QED BY <3>1, <3>3, <3>5
  <2>2. CASE seqNum'[a] # 0
    <3>1. a \in appState /\ Target(c, a) /\ Reaches(c) BY <1>0, <1>9, <2>2, TargetBefore
    <3>2. Stream(q, a, k, DoneWith(a)) BY <1>4, <3>1
    <3>3. DoneWith(a) \in Nat
      <4>1. apc[a] \in {"lookup", "write"} => s > 0 BY <1>0, WorkingKnown DEF Working
      <4> QED BY <1>1, <4>1 DEF DoneWith
    <3>4. ASSUME ~WriteRequest(a), DoneWith(a)' = DoneWith(a) PROVE Stream(r, a, k, DoneWith(a)')
      <4> HIDE DEF r, q, k
      <4> QED BY <1>6, <3>2, <3>3, <3>4
    <3>5. ASSUME clientConn = c, Passed(c, a), apc[a] \in Working,
                 hpc[c] \in {"synth", "clear"} \/ (apc[a] = "write" /\ dst[a] # c)
          PROVE  FALSE
      <4>1. a \in appState \cap ridKnown BY <1>0, <3>5, WorkingKnown
      <4> QED BY <1>0, <1>2, <3>1, <3>5, <4>1 DEF RecreatedOK
    <3>6. CASE ~Relay(a)
      <4>1. SteadyFor(a) /\ ~WriteRequest(a) BY <1>0, <3>6, ServerFor
      <4>2. DoneWith(a)' = DoneWith(a) BY <4>1 DEF SteadyFor, DoneWith
      <4> QED BY <3>4, <4>1, <4>2
    <3>7. CASE AcceptApp(a) \/ TrackApp(a) \/ SetupUnreadable(a)
      <4>1. apc[a] \in {"none", "accepted"} BY <3>7 DEF AcceptApp, TrackApp, SetupUnreadable
      <4> QED BY <1>0, <3>1, <4>1 DEF TrackedOK, Known
    <3>8. CASE SendSetup(a) \/ FakeReply(a) \/ ReadRequestFails(a) \/ UntrackApp(a) \/ CloseApp(a)
      <4>1. /\ apc[a] \notin {"lookup", "write"} /\ apc'[a] \notin {"lookup", "write"}
            /\ seqNum' = seqNum
        BY <3>8 DEF SendSetup, FakeReply, ReadRequestFails, UntrackApp, CloseApp, tables, GotoApp,
           TypeOK, ServerTypeOK
      <4>2. DoneWith(a)' = DoneWith(a) BY <4>1 DEF DoneWith
      <4>3. ~WriteRequest(a) BY <4>1 DEF WriteRequest
      <4> QED BY <3>4, <4>2, <4>3
    <3>9. CASE ReadRequest(a)
      <4>1. /\ apc[a] = "drain" /\ apc'[a] = "lookup" /\ seqNum'[a] = seqNum[a] + 1
        BY <3>9 DEF ReadRequest, GotoApp, TypeOK, ServerTypeOK
      <4>2. DoneWith(a)' = DoneWith(a) BY <1>1, <4>1 DEF DoneWith
      <4>3. ~WriteRequest(a) BY <4>1 DEF WriteRequest
      <4> QED BY <3>4, <4>2, <4>3
    <3>10. CASE LookupClient(a)
      <4>1. /\ apc[a] = "lookup" /\ seqNum' = seqNum
            /\ ~Shut => apc'[a] = "write"
        BY <3>10 DEF LookupClient, GotoApp, tables, TypeOK, ServerTypeOK
      <4>2. CASE ~Shut
        <5>1. DoneWith(a)' = DoneWith(a) BY <4>1, <4>2 DEF DoneWith
        <5>2. ~WriteRequest(a) BY <4>1 DEF WriteRequest
        <5> QED BY <3>4, <5>1, <5>2
      <4>3. CASE Shut
        <5>1. clientConn = c /\ Passed(c, a) BY <3>1, <4>1 DEF Target
        <5>2. synthActive BY <4>3, <5>1, NoClientAssumption DEF Shut
        <5>3. PICK d \in Clients : hpc[d] \in BeforeLive BY <5>2 DEF GateReopens
        <5>5. d = c BY <1>0, <5>1, <5>3, ByCurrent DEF InTime
        <5>6. hpc[c] \in {"synth", "clear"} BY <5>1, <5>3, <5>5 DEF Passed, BeforeLive
        <5> QED BY <3>5, <4>1, <5>1, <5>6 DEF Working
      <4> QED BY <4>2, <4>3
    <3>11. CASE WriteRequest(a) \/ WriteRequestFails(a)
      <4>1. apc[a] = "write" /\ apc'[a] \notin {"lookup", "write"} /\ seqNum'[a] = s
        BY <3>11 DEF WriteRequest, AfterWrite, WriteRequestFails, GotoApp, tables,
           TypeOK, ServerTypeOK
      <4>2. DoneWith(a)' = s BY <4>1 DEF DoneWith
      <4>3. CASE dst[a] # c
        <5>1. clientConn = c /\ Passed(c, a) BY <3>1, <4>1, <4>3 DEF Target
        <5> QED BY <3>5, <4>1, <4>3, <5>1 DEF Working
      <4>4. CASE dst[a] = c
        <5>1. ~WriteRequestFails(a)
          BY <3>1, <4>4 DEF WriteRequestFails, WriteError, Reaches
        <5> QED BY <1>7, <3>1, <3>11, <4>2, <4>4, <5>1
      <4> QED BY <4>3, <4>4
    <3> QED BY <3>6, <3>7, <3>8, <3>9, <3>10, <3>11 DEF Relay
  <2> QED BY <2>1, <2>2
<1> QED BY <1>3, <1>8, <1>9

LEMMA ServerReplies ==
  ASSUME TypeOK, OpenInv, OnceInv', RepliesOK, ServerStep
  PROVE  RepliesOK'
<1> SUFFICES ASSUME NEW c \in Clients, NEW a \in Apps, InTime(c, a)'
             PROVE  /\ cliOpen'[c] /\ a \notin Held(c)' => NoReply(toServer'[c], a)
                    /\ xconn'[c][a].st = "fresh" => \A i \in 1..Len(toServer'[c]) :
                         Answers(toServer'[c][i], a) => toServer'[c][i].seq = waiting'[a]
  BY DEF RepliesOK
<1> DEFINE q == toServer[c]
           r == toServer'[c]
<1>0. TrackedOK /\ InTime(c, a) BY TimelyStep DEF OpenInv, Next
<1>1. /\ xconn' = xconn /\ Held(c)' = Held(c) /\ (r = q \/ ReadFromClient(c))
      /\ hpc[c] # "idle" => cliOpen'[c] = cliOpen[c]
  BY <1>0, ServerFrame
<1>2. q \in Seq(ServerMsg) BY DEF TypeOK, WireTypeOK
<1>3. r = q \/ (q # <<>> /\ r = Tail(q))
  BY <1>1 DEF ReadFromClient, TypeOK, WireTypeOK
<1>4. waiting'[a] \in {0, waiting[a]} BY <1>0, ServerFor
<1>5. ASSUME cliOpen'[c], a \notin Held(c)' PROVE NoReply(r, a)
  <2>1. CASE hpc[c] = "idle"
    <3>1. q = <<>> /\ ~ReadFromClient(c) BY <2>1 DEF OpenInv, Untouched, ReadFromClient
    <3>2. r = <<>> /\ Len(<<>>) = 0 /\ 1..0 = {} BY <1>1, <3>1
    <3> QED BY <3>2 DEF NoReply
  <2>2. CASE hpc[c] # "idle"
    <3>1. NoReply(q, a) BY <1>0, <1>1, <1>5, <2>2 DEF RepliesOK
    <3> QED BY <1>2, <1>3, <3>1, NoReplyMoves
  <2> QED BY <2>1, <2>2
<1>6. ASSUME xconn'[c][a].st = "fresh", NEW i \in 1..Len(r), Answers(r[i], a)
      PROVE  r[i].seq = waiting'[a]
  <2>1. waiting'[a] # 0
    <3>1. <<"returned", c, i>> \in Returned(a)' BY <1>6 DEF Returned
    <3> QED BY <3>1 DEF OnceInv, OnceFor, Places
  <2>2. \E j \in 1..Len(q) : q[j] = r[i]
    <3>1. CASE r = q BY <1>6, <3>1
    <3>2. CASE q # <<>> /\ r = Tail(q)
      <4>1. i + 1 \in 1..Len(q) /\ r[i] = q[i + 1] BY <1>2, <1>6, <3>2, Shrunk
      <4> QED BY <4>1
    <3> QED BY <1>3, <3>1, <3>2
  <2> QED BY <1>0, <1>1, <1>4, <1>6, <2>1, <2>2 DEF RepliesOK
<1> QED BY <1>5, <1>6

-----------------------------------------------------------------------------
(* FreshRepliesExact: a step of the clients *)

\* The request a client reads on a connection that was not recreated is the
\* next of its application, and if it is a query the awaited one.
LEMMA HeadExact ==
  ASSUME TypeOK, OpenInv, GateInv, OnceInv, StreamOK, LastOK, NEW c \in Clients, NEW a \in Apps,
         InTime(c, a), toClient[c] # <<>>, Requests(Head(toClient[c]), a), xconn[c][a].st = "fresh"
  PROVE  /\ Head(toClient[c]).n = xconn[c][a].cnt + 1
         /\ Asks(Head(toClient[c]), a) => waiting[a] = xconn[c][a].cnt + 1
<1> DEFINE q == toClient[c]
           h == Head(q)
           k == xconn[c][a].cnt
<1>1. q \in Seq(ClientMsg) /\ k \in Nat
  BY DEF TypeOK, WireTypeOK, ClientTypeOK, XConn
<1>2. 1 \in 1..Len(q) /\ h = q[1] BY <1>1, Shrunk
<1>3. live[c]
  <2>1. 1..1 - 1 = {} OBVIOUS
  <2> QED BY <1>2, <2>1 DEF GateInv, Gated, Requests, InTime
<1>4. Original(c, a)
  BY <1>3 DEF Original, SetupFor, OpenInv, LiveLast, InOrder, InTime
<1>5. PICK l \in Nat : Stream(q, a, k, l) BY <1>4 DEF StreamOK
<1>6. h.n = k + 1
  <2> HIDE DEF q, k
  <2>1. q # <<>> /\ Requests(Head(q), a) BY DEF q
  <2> QED BY <1>1, <1>5, <2>1, StreamMoves
<1>7. ASSUME Asks(h, a) PROVE waiting[a] = k + 1
  <2>1. q[1].n = Len(reqs[a]) /\ waiting[a] \in {0, Len(reqs[a])} BY <1>2, <1>7 DEF LastOK
  <2>2. <<"sent", c, 1>> \in Sent(a) BY <1>2, <1>7 DEF Sent
  <2>3. waiting[a] # 0 BY <2>2 DEF OnceInv, OnceFor, Places
  <2> QED BY <1>2, <1>6, <2>1, <2>3
<1> QED BY <1>6, <1>7

LEMMA ClientsFresh ==
  ASSUME TypeOK, OpenInv, GateInv, OnceInv, FreshInv, ClientsStep
  PROVE  FreshInv'
<1> USE DEF FreshInv
<1>0. UNCHANGED <<appVars, serverVars>> /\ srvOpen' = srvOpen
  <2>1. ClientsStep => UNCHANGED <<appVars, serverVars>> BY DEF ClientsStep
  <2>2. \A c \in Clients : srvOpen' = srvOpen BY ClientMoves
  <2> QED BY <2>1, <2>2 DEF ClientsStep
<1>1. /\ UNCHANGED <<reqs, waiting, hpc, seqNum, apc, dst, appState, ridKnown, clientConn, todo,
                     overlapped, late>>
      /\ srvOpen' = srvOpen
  BY <1>0 DEF appVars, serverVars, registry, tables, locals, relays, ClientsStep, history
<1>2. \A c \in Clients, a \in Apps :
        /\ Passed(c, a)' = Passed(c, a) /\ Target(c, a)' = Target(c, a)
        /\ DoneWith(a)' = DoneWith(a) /\ IsQuery(a)' = IsQuery(a) /\ InTime(c, a)' = InTime(c, a)
  BY <1>1 DEF Passed, Target, DoneWith, IsQuery, InTime
<1> DEFINE Kept(c, a) ==
             /\ NoRequest(toClient[c], a) /\ xconn[c][a].cnt = 0 =>
                  NoRequest(toClient'[c], a) /\ xconn'[c][a].cnt = 0
             /\ xconn'[c][a].st # "synth" => xconn'[c][a].base = 0
             /\ xconn'[c][a].st = "none" => xconn'[c][a].cnt = 0
             /\ Reaches(c)' => Reaches(c) /\ (Original(c, a)' => Original(c, a))
             /\ Original(c, a)' =>
                  /\ \E l \in Nat : Stream(toClient'[c], a, xconn'[c][a].cnt, l)
                  /\ a \in appState /\ Target(c, a) /\ Reaches(c)' =>
                       Stream(toClient'[c], a, xconn'[c][a].cnt, DoneWith(a))
             /\ cliOpen'[c] /\ a \notin Held(c)' => NoReply(toServer'[c], a)
             /\ xconn'[c][a].st = "fresh" => \A i \in 1..Len(toServer'[c]) :
                  Answers(toServer'[c][i], a) => toServer'[c][i].seq = waiting[a]
<1>3. ASSUME NEW c \in Clients, NEW a \in Apps, InTime(c, a) PROVE Kept(c, a)
  <2>0. InTime(c, a) BY <1>3
  <2> USE <2>0
  <2> DEFINE q == toClient[c]
             r == toClient'[c]
             h == Head(q)
             x == xconn[c][a]
             y == xconn'[c][a]
             D == DoneWith(a)
  <2>1. /\ q \in Seq(ClientMsg) /\ x \in XConn /\ x.cnt \in Nat /\ x.base \in Nat
        /\ live[c] \in BOOLEAN /\ toServer[c] \in Seq(ServerMsg)
    BY DEF TypeOK, WireTypeOK, ClientTypeOK, XConn
  <2>2. Requests(h, a) /\ q # <<>> => x.st # "none"
    <3> SUFFICES ASSUME Requests(h, a), q # <<>> PROVE x.st # "none" OBVIOUS
    <3> DEFINE X == Held(c) \cup late[c]
    <3>1. Preceded(q, X) BY DEF OpenInv, PrecededOK, InTime
    <3> HIDE DEF q, X
    <3>2. h.conn \in X BY <2>1, <3>1, PrecededMoves DEF Requests
    <3> QED BY <3>2 DEF X, Held, Requests, InTime
  <2>3. LostFor(c, a) \/ ReadFor(c, a) \/ Untroubled(c) BY <2>2, ClientMovesFor
  <2>4. CASE Untroubled(c)
    <3>1. /\ toClient'[c] = toClient[c] /\ toServer'[c] = toServer[c] /\ cliOpen'[c] = cliOpen[c]
          /\ xconn'[c] = xconn[c]
      BY <2>4 DEF Untroubled
    <3>2. /\ Reaches(c)' = Reaches(c) /\ Original(c, a)' = Original(c, a)
          /\ (a \in Held(c))' = (a \in Held(c))
      BY <1>1, <3>1 DEF Reaches, Original, Held
    <3> QED BY <3>1, <3>2 DEF CountsOK, StreamOK, RepliesOK
  <2>5. CASE LostFor(c, a)
    <3>1. /\ ~cliOpen'[c] /\ r = <<>> /\ toServer'[c] = toServer[c]
          /\ y.st = "none" /\ y.cnt = 0 /\ y.base = 0
      BY <2>5 DEF LostFor, NoXConn
    <3>2. ~Reaches(c)' BY <3>1 DEF Reaches
    <3>3. <<>> \in Seq(ClientMsg) /\ Len(<<>>) = 0 /\ 1..0 = {} /\ 0 \in Nat OBVIOUS
    <3>4. NoRequest(<<>>, a) BY <3>3 DEF NoRequest
    <3>5. Stream(<<>>, a, 0, 0) BY <3>3, <3>4, NoRequestMoves
    <3> QED BY <3>1, <3>2, <3>3, <3>4, <3>5
  <2>6. CASE ReadFor(c, a)
    <3>1. /\ cliOpen[c] /\ cliOpen'[c] /\ q # <<>> /\ r = Tail(q)
          /\ CountsRead(h, a, x, y) /\ Replied(h, a, x, toServer[c], toServer'[c])
          /\ SetupFor(h, a) => live[c] \/ y.st = "synth"
      BY <2>6 DEF ReadFor
    <3>2. Reaches(c)' = Reaches(c) BY <1>1, <3>1 DEF Reaches
    <3>3. /\ 1 \in 1..Len(q) /\ h = q[1]
          /\ \A i \in 1..Len(r) : i + 1 \in 1..Len(q) /\ r[i] = q[i + 1]
          /\ \A i \in 1..Len(q) : i # 1 => i - 1 \in 1..Len(r) /\ r[i - 1] = q[i]
      BY <2>1, <3>1, Shrunk
    <3>4. h.type = "SETUP" => ~live[c]
      BY <3>3 DEF OpenInv, LiveLast, InOrder, InTime
    <3>5. Original(c, a)' => Original(c, a)
      <4> SUFFICES ASSUME Original(c, a)' PROVE Original(c, a) OBVIOUS
      <4>1. y.st # "synth" /\ \A i \in 1..Len(r) : ~SetupFor(r[i], a) BY DEF Original
      <4>2. x.st # "synth" BY <3>1, <4>1 DEF CountsRead
      <4>3. ~SetupFor(h, a) BY <3>1, <3>4, <4>1 DEF SetupFor
      <4>4. \A i \in 1..Len(q) : ~SetupFor(q[i], a)
        <5> HIDE DEF q, r, h
        <5> QED BY <3>3, <4>1, <4>3
      <4> QED BY <4>2, <4>4 DEF Original
    <3>6. NoRequest(q, a) /\ x.cnt = 0 => NoRequest(r, a) /\ y.cnt = 0
      <4> SUFFICES ASSUME NoRequest(q, a), x.cnt = 0 PROVE NoRequest(r, a) /\ y.cnt = 0 OBVIOUS
      <4>1. ~Requests(h, a) /\ NoRequest(r, a)
        <5> HIDE DEF q, r
        <5> QED BY <2>1, <3>1, NoRequestMoves
      <4> QED BY <3>1, <4>1 DEF CountsRead
    <3>7. /\ y.st # "synth" => y.base = 0
          /\ y.st = "none" => y.cnt = 0
      BY <3>1 DEF CountsRead, CountsOK
    <3>8. ASSUME Original(c, a)', NEW l \in Nat, Stream(q, a, x.cnt, l)
          PROVE  Stream(r, a, y.cnt, l)
      <4>1. y.cnt = IF Requests(h, a) THEN x.cnt + 1 ELSE x.cnt
        BY <3>1, <3>8 DEF CountsRead, Original
      <4>2. x.cnt \in Nat /\ q \in Seq(ClientMsg) /\ q # <<>> /\ r = Tail(q) BY <2>1, <3>1
      <4> DEFINE k == x.cnt
                 z == y.cnt
      <4>3. k \in Nat /\ Stream(q, a, k, l) /\ z = (IF Requests(h, a) THEN k + 1 ELSE k)
        BY <3>8, <4>1, <4>2
      <4> HIDE DEF k, z, q, r
      <4>4. Stream(r, a, z, l) BY <4>2, <4>3, StreamMoves
      <4> QED BY <4>4 DEF z
    <3>9. Original(c, a)' =>
            /\ \E l \in Nat : Stream(r, a, y.cnt, l)
            /\ a \in appState /\ Target(c, a) /\ Reaches(c)' => Stream(r, a, y.cnt, D)
      <4> SUFFICES ASSUME Original(c, a)'
                   PROVE  /\ \E l \in Nat : Stream(r, a, y.cnt, l)
                          /\ a \in appState /\ Target(c, a) /\ Reaches(c)' => Stream(r, a, y.cnt, D)
        OBVIOUS
      <4>1. /\ \E l \in Nat : Stream(q, a, x.cnt, l)
            /\ a \in appState /\ Target(c, a) /\ Reaches(c) => Stream(q, a, x.cnt, D)
        BY <3>5 DEF StreamOK
      <4>2. D \in Nat
        <5>1. apc[a] \in {"lookup", "write"} => seqNum[a] \in 1..Len(reqs[a])
          BY DEF OnceInv, Working
        <5>2. seqNum[a] \in Nat BY DEF TypeOK, ServerTypeOK
        <5> QED BY <5>1, <5>2 DEF DoneWith
      <4> HIDE DEF q, r, x, y, D
      <4> QED BY <3>2, <3>8, <4>1, <4>2
    <3>11. a \notin Held(c)' => NoReply(toServer'[c], a)
      <4> SUFFICES ASSUME a \notin Held(c)' PROVE NoReply(toServer'[c], a) OBVIOUS
      <4>1. x.st = "none" BY <3>1 DEF CountsRead, Held
      <4>2. NoReply(toServer[c], a) BY <3>1, <4>1 DEF RepliesOK, Held
      <4>3. CASE toServer'[c] = toServer[c] BY <4>2, <4>3
      <4>4. ASSUME NEW m \in ServerMsg, toServer'[c] = Append(toServer[c], m), ~Answers(m, a)
            PROVE  NoReply(toServer'[c], a)
        BY <2>1, <4>2, <4>4, NoReplyMoves
      <4> QED BY <3>1, <4>1, <4>3, <4>4 DEF Replied
    <3>12. ASSUME y.st = "fresh", NEW i \in 1..Len(toServer'[c]), Answers(toServer'[c][i], a)
           PROVE  toServer'[c][i].seq = waiting[a]
      <4> DEFINE p == toServer[c]
                 t == toServer'[c]
      <4>1. \A j \in 1..Len(p) : Answers(p[j], a) => p[j].seq = waiting[a]
        <5>1. CASE x.st = "fresh" BY <5>1 DEF RepliesOK
        <5>2. CASE x.st = "none"
          <6>1. NoReply(p, a) BY <3>1, <5>2 DEF RepliesOK, Held
          <6> QED BY <6>1 DEF NoReply
        <5> QED BY <3>1, <3>12, <5>1, <5>2 DEF CountsRead
      <4>2. ASSUME NEW m \in ServerMsg, t = Append(p, m), Answers(m, a),
                   Requests(h, a), Asks(h, a), x.st # "none", m.seq = x.base + x.cnt + 1
            PROVE  m.seq = waiting[a]
        <5>1. x.st = "fresh" BY <3>1, <3>12, <4>2 DEF CountsRead
        <5>2. x.base = 0 BY <5>1 DEF CountsOK
        <5>3. waiting[a] = x.cnt + 1 BY <3>1, <4>2, <5>1, HeadExact
        <5> QED BY <2>1, <4>2, <5>2, <5>3
      <4>3. CASE t = p BY <3>12, <4>1, <4>3
      <4>4. ASSUME NEW m \in ServerMsg, t = Append(p, m),
                   Answers(m, a) => m.seq = waiting[a]
            PROVE  t[i].seq = waiting[a]
        <5>1. (i \in 1..Len(p) /\ t[i] = p[i]) \/ t[i] = m
          <6>1. p \in Seq(ServerMsg) BY <2>1
          <6> HIDE DEF p, t
          <6>2. i \in 1..Len(Append(p, m)) BY <3>12, <4>4 DEF t
          <6> QED BY <4>4, <6>1, <6>2, Grown
        <5> QED BY <3>12, <4>1, <4>4, <5>1
      <4> QED BY <3>1, <4>2, <4>3, <4>4 DEF Replied
    <3> HIDE DEF q, r, x, y, D, h
    <3>13. Kept(c, a)
      BY <3>1, <3>2, <3>5, <3>6, <3>7, <3>9, <3>11, <3>12 DEF q, r, x, y, D
    <3> QED BY <3>13
  <2> QED BY <2>3, <2>4, <2>5, <2>6
<1> HIDE DEF Kept
<1>4. DstPast' BY <1>1 DEF DstPast
<1>5. SilentOK'
  <2>1. \A c \in Clients, a \in Apps :
          InTime(c, a) /\ NoRequest(toClient[c], a) /\ xconn[c][a].cnt = 0 =>
          NoRequest(toClient'[c], a) /\ xconn'[c][a].cnt = 0
    BY <1>3 DEF Kept
  <2> QED BY <1>1, <1>2, <2>1 DEF SilentOK
<1>6. CountsOK' BY <1>2, <1>3 DEF CountsOK, Kept
<1>7. RecreatedOK'
  <2>1. \A c \in Clients, a \in Apps : InTime(c, a) /\ Reaches(c)' =>
          Reaches(c) /\ (Original(c, a)' => Original(c, a))
    BY <1>3 DEF Kept
  <2>2. appState \subseteq Apps BY DEF TypeOK, ServerTypeOK
  <2> QED BY <1>1, <1>2, <2>1, <2>2 DEF RecreatedOK
<1>8. StreamOK'
  <2>1. \A c \in Clients, a \in Apps : InTime(c, a) /\ Original(c, a)' =>
                  /\ \E l \in Nat : Stream(toClient'[c], a, xconn'[c][a].cnt, l)
                  /\ a \in appState /\ Target(c, a) /\ Reaches(c)' =>
                       Stream(toClient'[c], a, xconn'[c][a].cnt, DoneWith(a))
    BY <1>3 DEF Kept
  <2> QED BY <1>1, <1>2, <2>1 DEF StreamOK
<1>9. LastOK'
  <2>1. \A a \in Apps, c \in Clients : \A i \in 1..Len(toClient'[c]) :
                  Asks(toClient'[c][i], a) => toClient'[c][i].n = Len(reqs[a])
    <3> SUFFICES ASSUME NEW a \in Apps, NEW c \in Clients, NEW i \in 1..Len(toClient'[c]),
                        Asks(toClient'[c][i], a)
                 PROVE  toClient'[c][i].n = Len(reqs[a])
      OBVIOUS
    <3>1. toClient[c] \in Seq(ClientMsg) BY DEF TypeOK, WireTypeOK
    <3>2. Stopped(c) \/ ReadOn(c, Head(toClient[c])) \/ Untroubled(c) BY ClientMoves
    <3>3. CASE Stopped(c) BY <3>3 DEF Stopped
    <3>4. CASE ReadOn(c, Head(toClient[c]))
      <4>1. toClient[c] # <<>> /\ toClient'[c] = Tail(toClient[c]) BY <3>4 DEF ReadOn
      <4>2. i + 1 \in 1..Len(toClient[c]) /\ toClient'[c][i] = toClient[c][i + 1]
        BY <3>1, <4>1, Shrunk
      <4> QED BY <4>2 DEF LastOK
    <3>5. CASE Untroubled(c) BY <3>5 DEF Untroubled, LastOK
    <3> QED BY <3>2, <3>3, <3>4, <3>5
  <2>2. \A a \in Apps : IsQuery(a)' = IsQuery(a) BY <1>1 DEF IsQuery
  <2> QED BY <1>1, <2>1, <2>2 DEF LastOK
<1>10. RepliesOK'
  <2>1. \A c \in Clients, a \in Apps : InTime(c, a) =>
             /\ cliOpen'[c] /\ a \notin Held(c)' => NoReply(toServer'[c], a)
             /\ xconn'[c][a].st = "fresh" => \A i \in 1..Len(toServer'[c]) :
                  Answers(toServer'[c][i], a) => toServer'[c][i].seq = waiting[a]
    BY <1>3 DEF Kept
  <2> QED BY <1>1, <1>2, <2>1 DEF RepliesOK
<1> QED BY <1>4, <1>5, <1>6, <1>7, <1>8, <1>9, <1>10

-----------------------------------------------------------------------------
(* FreshRepliesExact: a step of the applications, and the theorem *)

\* An application makes a request only when no query of its is outstanding.
LEMMA RequestAlone ==
  ASSUME TypeOK, OnceInv, NEW a \in Apps, waiting[a] = 0
  PROVE  /\ \A n \in seqNum[a] + 1..Len(reqs[a]) : reqs[a][n] # "query"
         /\ ~(apc[a] \in Working /\ IsQuery(a))
         /\ \A c \in Clients : /\ \A i \in 1..Len(toClient[c]) : ~Asks(toClient[c][i], a)
                               /\ NoReply(toServer[c], a)
<1>1. Places(a) = {} BY DEF OnceInv, OnceFor
<1>2. InSocket(a) = {} /\ InRelay(a) = {} /\ Sent(a) = {} /\ Returned(a) = {} BY <1>1 DEF Places
<1>3. ASSUME NEW n \in seqNum[a] + 1..Len(reqs[a]), reqs[a][n] = "query" PROVE FALSE
  <2>1. <<"socket", a, n>> \in InSocket(a) BY <1>3 DEF InSocket
  <2> QED BY <1>2, <2>1
<1>4. ASSUME apc[a] \in Working, IsQuery(a) PROVE FALSE
  <2>1. <<"relay", a, 0>> \in InRelay(a) BY <1>4 DEF InRelay
  <2> QED BY <1>2, <2>1
<1>5. ASSUME NEW c \in Clients, NEW i \in 1..Len(toClient[c]), Asks(toClient[c][i], a) PROVE FALSE
  <2>1. <<"sent", c, i>> \in Sent(a) BY <1>5 DEF Sent
  <2> QED BY <1>2, <2>1
<1>6. ASSUME NEW c \in Clients, NEW i \in 1..Len(toServer[c]), Answers(toServer[c][i], a)
      PROVE  FALSE
  <2>1. <<"returned", c, i>> \in Returned(a) BY <1>6 DEF Returned
  <2> QED BY <1>2, <2>1
<1> QED BY <1>3, <1>4, <1>5, <1>6 DEF NoReply

\* What the applications do by themselves leaves the streams alone.
LEMMA StreamsKept ==
  ASSUME TypeOK, RecreatedOK, StreamOK,
         UNCHANGED <<srvOpen, cliOpen, toClient, clientConn, appState, ridKnown, seqNum, hpc, todo,
                     apc, dst, xconn, overlapped, late>>
  PROVE  RecreatedOK' /\ StreamOK'
<1>1. \A c \in Clients : Reaches(c)' = Reaches(c) BY DEF Reaches
<1>2. \A c \in Clients, a \in Apps :
        /\ Passed(c, a)' = Passed(c, a) /\ Original(c, a)' = Original(c, a)
        /\ InTime(c, a)' = InTime(c, a)
  BY DEF Passed, Original, InTime
<1>3. \A c \in Clients, a \in Apps : Target(c, a)' = Target(c, a) BY <1>2 DEF Target
<1>4. \A a \in Apps : DoneWith(a)' = DoneWith(a) BY DEF DoneWith
<1>5. appState \subseteq Apps BY DEF TypeOK, ServerTypeOK
<1>6. RecreatedOK' BY <1>1, <1>2, <1>5 DEF RecreatedOK
<1>7. StreamOK' BY <1>1, <1>2, <1>3, <1>4 DEF StreamOK
<1> QED BY <1>6, <1>7

LEMMA AppsFresh ==
  ASSUME TypeOK, OnceInv, FreshInv, AppsStep
  PROVE  FreshInv'
<1> USE DEF FreshInv, TypeOK, AppTypeOK
<1>1. UNCHANGED <<wireVars, serverVars, clientVars>> BY DEF AppsStep
<1>2. UNCHANGED <<srvOpen, cliOpen, toClient, toServer, clientConn, appState, ridKnown, seqNum,
                  hpc, todo, apc, dst, xconn, overlapped, late>>
  BY <1>1 DEF wireVars, serverVars, clientVars, registry, tables, locals, relays, AppsStep, history
<1>3. DstPast' /\ SilentOK' /\ CountsOK' BY <1>2 DEF DstPast, SilentOK, CountsOK, InTime
<1>4. RecreatedOK' /\ StreamOK' BY <1>2, StreamsKept
<1>5. ASSUME NEW a \in Apps
      PROVE  \/ reqs'[a] = reqs[a] /\ waiting'[a] = waiting[a]
             \/ /\ waiting[a] = 0
                /\ \E kind \in ReqKind :
                     /\ reqs'[a] = Append(reqs[a], kind)
                     /\ waiting'[a] = IF kind = "query" THEN Len(reqs[a]) + 1 ELSE 0
  <2>1. PICK b \in Apps : AppConnect(b) \/ (\E kind \in ReqKind : AppRequest(b, kind)) \/ AppQuit(b)
    BY DEF AppsStep
  <2>2. CASE AppConnect(b) \/ AppQuit(b) BY <2>2 DEF AppConnect, AppQuit
  <2>3. CASE \E kind \in ReqKind : AppRequest(b, kind)
    <3>1. PICK kind \in ReqKind : AppRequest(b, kind) BY <2>3
    <3>2. CASE a = b BY <3>1, <3>2 DEF AppRequest
    <3>3. CASE a # b BY <3>1, <3>3 DEF AppRequest
    <3> QED BY <3>2, <3>3
  <2> QED BY <2>1, <2>2, <2>3
<1>6. LastOK'
  <2> SUFFICES ASSUME NEW a \in Apps
               PROVE  /\ waiting'[a] \in {0, Len(reqs'[a])}
                      /\ \A n \in seqNum[a] + 1..Len(reqs'[a]) :
                           reqs'[a][n] = "query" => n = Len(reqs'[a])
                      /\ apc[a] \in Working /\ IsQuery(a)' => seqNum[a] = Len(reqs'[a])
                      /\ \A c \in Clients : \A i \in 1..Len(toClient[c]) :
                           Asks(toClient[c][i], a) => toClient[c][i].n = Len(reqs'[a])
    BY <1>2 DEF LastOK
  <2>1. CASE reqs'[a] = reqs[a] /\ waiting'[a] = waiting[a]
    <3>1. IsQuery(a)' = IsQuery(a) BY <1>2, <2>1 DEF IsQuery
    <3> QED BY <2>1, <3>1 DEF LastOK
  <2>2. ASSUME waiting[a] = 0, NEW kind \in ReqKind, reqs'[a] = Append(reqs[a], kind),
               waiting'[a] = IF kind = "query" THEN Len(reqs[a]) + 1 ELSE 0
        PROVE  /\ waiting'[a] \in {0, Len(reqs'[a])}
               /\ \A n \in seqNum[a] + 1..Len(reqs'[a]) :
                    reqs'[a][n] = "query" => n = Len(reqs'[a])
               /\ apc[a] \in Working /\ IsQuery(a)' => seqNum[a] = Len(reqs'[a])
               /\ \A c \in Clients : \A i \in 1..Len(toClient[c]) :
                    Asks(toClient[c][i], a) => toClient[c][i].n = Len(reqs'[a])
    <3>1. reqs[a] \in Seq(ReqKind) /\ Len(reqs[a]) \in Nat /\ seqNum[a] \in Nat
      BY DEF ServerTypeOK
    <3>2. /\ Len(reqs'[a]) = Len(reqs[a]) + 1
          /\ \A n \in 1..Len(reqs[a]) : reqs'[a][n] = reqs[a][n]
      BY <2>2, <3>1
    <3>3. \A n \in seqNum[a] + 1..Len(reqs'[a]) : n = Len(reqs'[a]) \/ n \in seqNum[a] + 1..Len(reqs[a])
      BY <3>1, <3>2
    <3>4. \A n \in seqNum[a] + 1..Len(reqs[a]) : n \in 1..Len(reqs[a]) /\ reqs[a][n] # "query"
      BY <2>2, <3>1, RequestAlone
    <3>5. apc[a] \in Working => ~IsQuery(a)'
      <4>1. apc[a] \in Working => seqNum[a] \in 1..Len(reqs[a]) /\ ~IsQuery(a)
        BY <2>2, RequestAlone DEF OnceInv
      <4> QED BY <1>2, <3>2, <4>1 DEF IsQuery
    <3>6. \A c \in Clients : \A i \in 1..Len(toClient[c]) : ~Asks(toClient[c][i], a)
      BY <2>2, RequestAlone
    <3> QED BY <2>2, <3>2, <3>3, <3>4, <3>5, <3>6
  <2> QED BY <1>5, <2>1, <2>2
<1>7. RepliesOK'
  <2> SUFFICES ASSUME NEW c \in Clients, NEW a \in Apps, InTime(c, a)
               PROVE  /\ cliOpen[c] /\ a \notin Held(c) => NoReply(toServer[c], a)
                      /\ xconn[c][a].st = "fresh" => \A i \in 1..Len(toServer[c]) :
                           Answers(toServer[c][i], a) => toServer[c][i].seq = waiting'[a]
    BY <1>2 DEF RepliesOK, Held, NoReply, InTime
  <2>1. CASE waiting'[a] = waiting[a] BY <2>1 DEF RepliesOK
  <2>2. CASE waiting[a] = 0
    <3>1. NoReply(toServer[c], a) BY <2>2, RequestAlone
    <3> QED BY <3>1 DEF NoReply
  <2> QED BY <1>5, <2>1, <2>2
<1> QED BY <1>3, <1>4, <1>6, <1>7

LEMMA FreshStep ==
  ASSUME TypeOK, RidInv, OnceInv, GateInv, GateReopens, OpenInv, FreshInv, RidInv', OnceInv',
         [Next]_vars
  PROVE  FreshInv'
<1>1. CASE ServerStep
  <2>1. CountsOK' BY <1>1, ServerFrame, TimelyStep DEF FreshInv, CountsOK, OpenInv
  <2>2. DstPast' /\ SilentOK' BY <1>1, ServerDstPast, ServerSilent DEF FreshInv
  <2>3. RecreatedOK' BY <1>1, ServerRecreated DEF FreshInv
  <2>4. StreamOK' BY <1>1, <2>2, ServerStreams DEF FreshInv
  <2>5. LastOK' /\ RepliesOK' BY <1>1, ServerLast, ServerReplies DEF FreshInv
  <2> QED BY <2>1, <2>2, <2>3, <2>4, <2>5 DEF FreshInv
<1>2. CASE ClientsStep BY <1>2, ClientsFresh
<1>3. CASE AppsStep BY <1>3, AppsFresh
<1>4. CASE UNCHANGED vars
  <2>1. UNCHANGED <<srvOpen, cliOpen, toClient, toServer, reqs, waiting, clientConn, appState,
                    ridKnown, seqNum, hpc, todo, apc, dst, xconn, overlapped, late>>
    BY <1>4 DEF vars, wireVars, appVars, serverVars, clientVars, registry, tables, locals, relays,
       history
  <2>2. DstPast' /\ SilentOK' /\ CountsOK'
    BY <2>1 DEF FreshInv, DstPast, SilentOK, CountsOK, InTime
  <2>3. RecreatedOK' /\ StreamOK' BY <2>1, StreamsKept DEF FreshInv
  <2>4. LastOK' /\ RepliesOK' BY <2>1 DEF FreshInv, LastOK, RepliesOK, Held, IsQuery, InTime
  <2> QED BY <2>2, <2>3, <2>4 DEF FreshInv
<1> QED BY <1>1, <1>2, <1>3, <1>4 DEF Next

LEMMA FreshInit == Init => FreshInv
<1> SUFFICES ASSUME Init PROVE FreshInv OBVIOUS
<1>1. \A c \in Clients : /\ toClient[c] = <<>> /\ toServer[c] = <<>> /\ hpc[c] = "idle"
                         /\ clientConn # c
                         /\ \A a \in Apps : xconn[c][a] = NoXConn
  BY NoClientAssumption DEF Init, WireInit, ServerInit, ClientInit
<1>2. \A a \in Apps : apc[a] = "none" /\ reqs[a] = <<>> /\ waiting[a] = 0 /\ seqNum[a] = 0
  BY DEF Init, AppInit, ServerInit
<1>3. appState = {} BY DEF Init, ServerInit
<1>4. Len(<<>>) = 0 /\ 1..0 = {} /\ 0 + 1..0 = {} /\ 0 \in Nat /\ <<>> \in Seq(ClientMsg) OBVIOUS
<1>5. \A a \in Apps : NoRequest(<<>>, a) /\ NoReply(<<>>, a) BY <1>4 DEF NoRequest, NoReply
<1>6. DstPast /\ SilentOK /\ CountsOK /\ RecreatedOK
  BY <1>1, <1>2, <1>3, <1>5 DEF DstPast, SilentOK, CountsOK, RecreatedOK, NoXConn
<1>7. StreamOK
  <2>1. \A a \in Apps : Stream(<<>>, a, 0, 0) BY <1>4, <1>5, NoRequestMoves
  <2> QED BY <1>1, <1>3, <1>4, <2>1 DEF StreamOK, NoXConn
<1>8. LastOK BY <1>1, <1>2, <1>4 DEF LastOK, Working
<1>9. RepliesOK BY <1>1, <1>4, <1>5 DEF RepliesOK
<1> QED BY <1>6, <1>7, <1>8, <1>9 DEF FreshInv

\* A reply on an X connection opened by the application's own setup bytes bears
\* the number of the query it answers: every request the application made has
\* been written to that connection, once and in order, whatever was dropped
\* meanwhile and whichever clients took each other's place; with the exceptions
\* of ConnectionsFirst (server.go:176-205 and 393-400, client.go:733-794).
THEOREM FreshExact == Spec => []FreshRepliesExact
<1>1. Init => FreshInv BY FreshInit
<1>2. TypeOK /\ RidInv /\ OnceInv /\ GateInv /\ GateReopens /\ OpenInv /\ FreshInv
        /\ RidInv' /\ OnceInv' /\ [Next]_vars => FreshInv'
  BY FreshStep
<1>3. TypeOK /\ FreshInv => FreshRepliesExact
  <2> SUFFICES ASSUME TypeOK, FreshInv, NEW c \in Clients, NEW i \in 1..Len(toServer[c]),
                      toServer[c][i].kind = "reply",
                      xconn[c][toServer[c][i].conn].st = "fresh",
                      InTime(c, toServer[c][i].conn)
               PROVE  toServer[c][i].seq = waiting[toServer[c][i].conn]
    BY DEF FreshRepliesExact
  <2>1. toServer[c][i] \in ServerMsg BY DEF TypeOK, WireTypeOK
  <2>2. toServer[c][i].conn \in Apps BY <2>1 DEF ServerMsg
  <2> QED BY <2>2 DEF FreshInv, RepliesOK, Answers
<1> QED
  BY <1>1, <1>2, <1>3, OpenAlways, RelayUnblocked, PTL DEF Spec
=============================================================================
