------------------------------- MODULE Outage -------------------------------
(***************************************************************************)
(* What the tracker of one application connection expects the display to   *)
(* say, while clients come and go: a ConfigureNotify for each              *)
(* ConfigureWindow request (Window.PendingConfigures), and the major       *)
(* opcode of an extension for each QueryExtension request                  *)
(* (pendingQueryExt, extByOpcode), found by the 16-bit number of its       *)
(* reply.  A toolkit counts its ConfigureWindow requests down by the       *)
(* events it gets and does not draw before the count is zero.              *)
(*                                                                         *)
(* One client is connected at a time; a handler may outlive its client.    *)
(* Numbers that reach the application are exact (see SynthRelay).          *)
(***************************************************************************)
EXTENDS Naturals, Sequences, FiniteSets

CONSTANTS
  Windows,     \* mapped top-level windows
  Extensions,  \* names of extensions
  NoName,      \* none of these
  MajorOf,     \* the display's opcode of each extension, 0 for one it has not
  Modulus,     \* of sequence numbers
  MaxRequests, \* bound
  MaxClients   \* bound

Majors == {MajorOf[n] : n \in Extensions} \ {0}
Opcodes == {MajorOf[n] : n \in Extensions}

ASSUME NamesAssumption == Extensions \cap {NoName, "other", "none"} = {}
ASSUME MajorAssumption ==
  /\ MajorOf \in [Extensions -> Nat]
  /\ \A m, n \in Extensions : MajorOf[m] = MajorOf[n] /\ MajorOf[m] # 0 => m = n
ASSUME OutageBoundsAssumption ==
  Modulus \in Nat \ {0} /\ MaxRequests \in Nat /\ MaxClients \in Nat

VARIABLES
  \* the handler of the client connection
  handler,     \* "none", "resume", "synth", "open", "inject", "read", "learn" or "write"
  synthActive,
  alive,       \* the client process
  clients,     \* how many have connected
  drained,     \* pendingCfgs of runSynthesis
  reply,       \* the reply being delivered
  \* the tracker
  seqNum,
  pendingConfigures, pendingQueryExt, extByOpcode,
  \* the relay of the application's requests
  relay,       \* "idle", "tracked", "write" or "dropped"
  request,     \* the request being relayed
  asked,       \* requests on their way to the display or unanswered by it
  \* the application
  count,       \* its configure_request_count of each window
  known,       \* the opcode it believes an extension to have, 0 for none
  waiting,     \* it waits for a reply
  \* history
  total,       \* requests made
  old,         \* count, when the last synthesis began
  stranded,    \* a QueryExtension request was never answered by a display
  lost         \* what became of the query waited for

handlerVars == <<handler, synthActive, alive, clients, drained, reply>>
trackerVars == <<seqNum, pendingConfigures, pendingQueryExt, extByOpcode>>
relayVars   == <<relay, request>>
appVars     == <<count, known, waiting>>
vars == <<handlerVars, trackerVars, relayVars, asked, appVars, total, old, stranded, lost>>

Configure(w) == [type |-> "configure", window |-> w]
QueryExt(n)  == [type |-> "queryExtension", name |-> n]
ExtQuery(m)  == [type |-> "extension", major |-> m]
Query        == [type |-> "core"]
Nothing      == [type |-> "none"]
NeedsReply(q) == q.type \in {"queryExtension", "extension", "core"}
NoReply == [type |-> "none", seq |-> 0, present |-> FALSE, major |-> 0]

Init ==
  /\ handler = "none" /\ synthActive = FALSE /\ alive = FALSE /\ clients = 0
  /\ drained = [w \in Windows |-> 0] /\ reply = NoReply
  /\ seqNum = 0 /\ pendingConfigures = [w \in Windows |-> 0]
  /\ pendingQueryExt = [s \in 0..Modulus - 1 |-> NoName]
  /\ extByOpcode = [m \in Majors |-> NoName]
  /\ relay = "idle" /\ request = [what |-> Nothing, seq |-> 0, client |-> 0] /\ asked = <<>>
  /\ count = [w \in Windows |-> 0] /\ known = [n \in Extensions |-> 0] /\ waiting = FALSE
  /\ total = 0 /\ old = [w \in Windows |-> 0] /\ stranded = FALSE /\ lost = "no"
-----------------------------------------------------------------------------
(* The application and the relay of its requests. *)

Requests ==
  {Configure(w) : w \in Windows} \cup {QueryExt(n) : n \in Extensions} \cup {Query}
    \cup {ExtQuery(known[n]) : n \in {e \in Extensions : known[e] # 0}}

\* A request is made and tracked: ProcessRequest counts it and notes what to
\* expect.  One query at a time is waited for; other requests may follow it.
Track(q) ==
  LET n == (seqNum + 1) % Modulus
      more(f) == [w \in Windows |-> f[w] + IF q = Configure(w) THEN 1 ELSE 0]
  IN
  /\ relay = "idle" /\ total < MaxRequests
  /\ waiting => ~NeedsReply(q)
  /\ total' = total + 1
  /\ seqNum' = n
  /\ request' = [what |-> q, seq |-> n, client |-> 0]
  /\ relay' = "tracked"
  /\ waiting' = (waiting \/ NeedsReply(q))
  /\ lost' = IF waiting THEN lost ELSE "no"
  /\ pendingConfigures' = more(pendingConfigures)
  /\ count' = more(count)
  /\ pendingQueryExt' = IF q.type = "queryExtension"
                        THEN [pendingQueryExt EXCEPT ![n] = q.name] ELSE pendingQueryExt
  /\ UNCHANGED <<handlerVars, extByOpcode, asked, known, old, stranded>>

\* sendMsgsToClient looks at clientConn and synthActive, and then lets go of the lock.
Lookup ==
  /\ relay = "tracked"
  /\ relay' = IF handler = "none" \/ synthActive THEN "dropped" ELSE "write"
  /\ request' = [request EXCEPT !.client = clients]
  /\ UNCHANGED <<handlerVars, trackerVars, asked, appVars, total, old, stranded, lost>>

\* A request that the display will never answer.
Strand(q) == stranded' = (stranded \/ q.type = "queryExtension")

\* The request goes to the client found by Lookup, which may be gone: then the
\* write fails, or the request disappears.
Write ==
  /\ relay = "write"
  /\ IF alive /\ request.client = clients
     THEN /\ relay' = "idle"
          /\ asked' = Append(asked, [what |-> request.what, seq |-> request.seq])
          /\ UNCHANGED <<stranded, lost>>
     ELSE /\ UNCHANGED asked
          /\ \/ relay' = "dropped" /\ UNCHANGED <<stranded, lost>>
             \/ /\ relay' = "idle"
                /\ Strand(request.what)
                /\ lost' = IF NeedsReply(request.what) THEN "wire" ELSE lost
  /\ UNCHANGED <<handlerVars, trackerVars, request, appVars, total, old>>

\* OpcodeNeedsReply and ExtNeedsReply; the tables list every query made here.
Recognised(q) ==
  \/ q.type \in {"core", "queryExtension"}
  \/ q.type = "extension" /\ extByOpcode[q.major] # NoName

\* (Mutant) No fakes while a synthesis runs.
NoClientOnly == handler = "none"

ShouldFake == handler = "none" \/ synthActive

\* The callback of drainRequests for a request that was not sent: it looks at
\* clientConn and synthActive again and answers a query with zeroes, which tell
\* of no extension.
Fake ==
  LET q == request.what
      faked == ShouldFake /\ Recognised(q)
  IN
  /\ relay = "dropped"
  /\ relay' = "idle"
  /\ Strand(q)
  /\ waiting' = (waiting /\ ~(NeedsReply(q) /\ faked))
  /\ lost' = IF ~NeedsReply(q) \/ faked THEN lost
             ELSE IF handler # "none" /\ ~synthActive THEN "race"
             ELSE IF q.type = "extension" /\ extByOpcode[q.major] = NoName THEN "unlearned"
             ELSE lost
  /\ UNCHANGED <<handlerVars, trackerVars, request, asked, count, known, total, old>>
-----------------------------------------------------------------------------
(* The handler of a client connection. *)

\* handleClient registers the connection.
Connect ==
  /\ handler = "none" /\ clients < MaxClients
  /\ handler' = "resume" /\ synthActive' = TRUE
  /\ alive' = TRUE /\ clients' = clients + 1
  /\ UNCHANGED <<drained, reply, trackerVars, relayVars, asked, appVars, total, old, stranded, lost>>

\* ResetPendingConfigures, at the start of the synthesis.
Reset ==
  /\ handler = "resume"
  /\ handler' = "synth"
  /\ pendingConfigures' = [w \in Windows |-> 0]
  /\ old' = count
  /\ UNCHANGED <<synthActive, alive, clients, drained, reply, seqNum, pendingQueryExt,
                 extByOpcode, relayVars, asked, appVars, total, stranded, lost>>

\* (Mutant) Live traffic stays blocked while events are injected.
OpenLate ==
  /\ handler = "synth"
  /\ handler' = "open" /\ UNCHANGED synthActive
  /\ UNCHANGED <<alive, clients, drained, reply, trackerVars, relayVars, asked, appVars,
                 total, old, stranded, lost>>

\* SESSION_LIVE is written and live traffic let through.
Open ==
  /\ handler = "synth"
  /\ handler' = "open" /\ synthActive' = FALSE
  /\ UNCHANGED <<alive, clients, drained, reply, trackerVars, relayVars, asked, appVars,
                 total, old, stranded, lost>>

\* DrainPendingConfigures.
Drain ==
  /\ handler = "open"
  /\ handler' = "inject"
  /\ drained' = pendingConfigures
  /\ pendingConfigures' = [w \in Windows |-> 0]
  /\ UNCHANGED <<synthActive, alive, clients, reply, seqNum, pendingQueryExt, extByOpcode,
                 relayVars, asked, appVars, total, old, stranded, lost>>

\* (Mutant) One event whatever the number of requests.
InjectedOne(w) == 1

\* The number of events synthesisConfigureNotify injects for a window.
Injected(w) == IF drained[w] < 1 THEN 1 ELSE drained[w]

Less(c, k) == IF c < k THEN 0 ELSE c - k

Inject ==
  /\ handler = "inject"
  /\ handler' = "read"
  /\ count' = [w \in Windows |-> Less(count[w], Injected(w))]
  /\ drained' = [w \in Windows |-> 0]
  /\ UNCHANGED <<synthActive, alive, clients, reply, trackerVars, relayVars, asked, known,
                 waiting, total, old, stranded, lost>>

\* What the display says to a query: the bytes where a QueryExtension reply has
\* `present' and the opcode hold anything in another reply.
Answers(a) ==
  IF a.what.type = "queryExtension"
  THEN {[type |-> a.what.name, seq |-> a.seq, present |-> MajorOf[a.what.name] # 0,
         major |-> MajorOf[a.what.name]]}
  ELSE [type : {"other"}, seq : {a.seq}, present : BOOLEAN, major : Opcodes]

\* readFromClient gets the next answer: an event goes straight to the application.
Read ==
  /\ handler = "read" /\ asked # <<>>
  /\ asked' = Tail(asked)
  /\ LET a == Head(asked) IN
     IF NeedsReply(a.what)
     THEN handler' = "learn" /\ reply' \in Answers(a) /\ UNCHANGED count
     ELSE /\ count' = [count EXCEPT ![a.what.window] = Less(@, 1)]
          /\ UNCHANGED <<handler, reply>>
  /\ UNCHANGED <<synthActive, alive, clients, drained, trackerVars, relayVars, known, waiting,
                 total, old, stranded, lost>>

\* (Mutant) A matched request stays pending.
LearnAndKeep ==
  LET name == pendingQueryExt[reply.seq] IN
  /\ extByOpcode' = IF name # NoName /\ reply.present /\ reply.major # 0
                    THEN [extByOpcode EXCEPT ![reply.major] = name] ELSE extByOpcode
  /\ UNCHANGED pendingQueryExt

\* (Mutant) The reply is taken for that of the last request.
LearnLast ==
  LET name == pendingQueryExt[seqNum] IN
  /\ pendingQueryExt' = [pendingQueryExt EXCEPT ![seqNum] = NoName]
  /\ extByOpcode' = IF name # NoName /\ reply.present /\ reply.major # 0
                    THEN [extByOpcode EXCEPT ![reply.major] = name] ELSE extByOpcode

\* LearnQueryExtensionReply, before the reply is written to the application.
LearnQueryExtensionReply ==
  LET name == pendingQueryExt[reply.seq] IN
  /\ pendingQueryExt' = [pendingQueryExt EXCEPT ![reply.seq] = NoName]
  /\ extByOpcode' = IF name # NoName /\ reply.present /\ reply.major # 0
                    THEN [extByOpcode EXCEPT ![reply.major] = name] ELSE extByOpcode

Learn ==
  /\ handler = "learn"
  /\ handler' = "write"
  /\ LearnQueryExtensionReply
  /\ UNCHANGED <<synthActive, alive, clients, drained, reply, seqNum, pendingConfigures,
                 relayVars, asked, appVars, total, old, stranded, lost>>

\* The application has the reply.
Answered ==
  /\ waiting' = FALSE
  /\ known' = IF reply.type \in Extensions /\ reply.present
              THEN [known EXCEPT ![reply.type] = reply.major] ELSE known

Deliver ==
  /\ handler = "write"
  /\ handler' = "read" /\ reply' = NoReply
  /\ Answered
  /\ UNCHANGED <<synthActive, alive, clients, drained, trackerVars, relayVars, asked, count,
                 total, old, stranded, lost>>

\* The handler of a dead client has read all there is and clears clientConn.
Leave ==
  /\ handler = "read" /\ ~alive /\ asked = <<>>
  /\ handler' = "none"
  /\ UNCHANGED <<synthActive, alive, clients, drained, reply, trackerVars, relayVars, asked,
                 appVars, total, old, stranded, lost>>

\* The client dies with all requests but those whose answers it has sent.
Crash ==
  /\ alive
  /\ alive' = FALSE
  /\ \E k \in 0..Len(asked) :
       LET gone == {asked[i].what : i \in k + 1..Len(asked)} IN
       /\ asked' = SubSeq(asked, 1, k)
       /\ stranded' = (stranded \/ \E q \in gone : q.type = "queryExtension")
       /\ lost' = IF \E q \in gone : NeedsReply(q) THEN "wire" ELSE lost
  /\ UNCHANGED <<handler, synthActive, clients, drained, reply, trackerVars, relayVars, appVars,
                 total, old>>

Next ==
  \/ \E q \in Requests : Track(q)
  \/ Lookup \/ Write \/ Fake
  \/ Connect \/ Reset \/ Open \/ Drain \/ Inject
  \/ Read \/ Learn \/ Deliver \/ Leave
  \/ Crash

Spec == Init /\ [][Next]_vars

\* The goroutines of the server and the application's relay go on; a live client
\* and its display answer.  Nobody has to connect, to die or to ask.
Fairness ==
  /\ WF_vars(Lookup) /\ WF_vars(Write) /\ WF_vars(Fake)
  /\ WF_vars(Reset) /\ WF_vars(Open) /\ WF_vars(Drain) /\ WF_vars(Inject)
  /\ WF_vars(Read) /\ WF_vars(Learn) /\ WF_vars(Deliver) /\ WF_vars(Leave)

FairSpec == Spec /\ Fairness
-----------------------------------------------------------------------------
\* The shape of the state.
TypeOK ==
  /\ handler \in {"none", "resume", "synth", "open", "inject", "read", "learn", "write"}
  /\ synthActive \in BOOLEAN /\ (synthActive <=> handler \in {"resume", "synth"})
  /\ drained \in [Windows -> Nat] /\ pendingConfigures \in [Windows -> Nat]
  /\ pendingQueryExt \in [0..Modulus - 1 -> Extensions \cup {NoName}]
  /\ extByOpcode \in [Majors -> Extensions \cup {NoName}]
  /\ known \in [Extensions -> Opcodes \cup {0}]
  /\ relay \in {"idle", "tracked", "write", "dropped"}
  /\ waiting \in BOOLEAN /\ stranded \in BOOLEAN
  /\ lost \in {"no", "wire", "unlearned", "race"}

ConfiguresIn(s, w) == {i \in DOMAIN s : s[i].what = Configure(w)}
Unanswered(w) == Cardinality(ConfiguresIn(asked, w))

\* A window waits for no event of the session that nobody will send: once the
\* events are injected, whatever ConfigureWindow requests were dropped, or
\* relayed, from the start of the synthesis on (synthesis.go:884-937), the
\* toolkit's count is what it was then at most, plus the requests the display
\* has still to answer.
ConfiguresCovered ==
  handler \in {"read", "learn", "write"} /\ alive /\ relay = "idle" =>
    \A w \in Windows : count[w] <= old[w] + Unanswered(w)

\* An opcode the application may use is known to the server under the right
\* name (state.go:1017-1029), however the 16-bit numbers wrap, unless a
\* QueryExtension request was never answered by a display.
ServerKnows ==
  ~stranded => \A n \in Extensions : known[n] # 0 => extByOpcode[known[n]] = n

\* So an extension's query dropped in an outage is never left without a reply
\* for want of its opcode (server.go:219-224).
ExtQueriesRecognised == ~stranded => lost # "unlearned"

\* An application that waits for a reply gets one, from the display or from the
\* server (server.go:194-235), unless the client died with the query or its
\* answer, the query's opcode was never learned, or a synthesis ended between the
\* drop and the check for a fake.
QueriesEnd == waiting ~> (~waiting \/ lost # "no")
=============================================================================
