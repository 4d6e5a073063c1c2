---------------------------- MODULE OutageProofs ----------------------------
(***************************************************************************)
(* ServerKnows, ExtQueriesRecognised and ConfiguresCovered for any windows, *)
(* any extensions, every modulus and any number of requests and clients.   *)
(*                                                                         *)
(* For the first two: one query is outstanding at a time, so that while no      *)
(* QueryExtension request has been stranded the entries of pendingQueryExt *)
(* are those of outstanding requests (Matched).  A reply then    *)
(* meets the entry of its own request or none, however often the numbers   *)
(* have wrapped.                                                           *)
(*                                                                         *)
(* For the third: a ConfigureWindow request made since the synthesis began *)
(* is in PendingConfigures until it is drained, and one made later is on   *)
(* its way to the display (CInv).                                          *)
(***************************************************************************)
EXTENDS Outage, SequenceTheorems, FiniteSetTheorems, TLAPS

Nums == 0..Modulus - 1

Whats ==
  {Configure(w) : w \in Windows} \cup {QueryExt(n) : n \in Extensions} \cup {Query}
    \cup {ExtQuery(m) : m \in Majors}

Typed ==
  /\ seqNum \in Nums
  /\ request.seq \in Nums /\ (relay # "idle" => request.what \in Whats)
  /\ asked \in Seq([what : Whats, seq : Nums])
  /\ reply.seq \in Nums
  /\ pendingQueryExt \in [Nums -> Extensions \cup {NoName}]
  /\ extByOpcode \in [Majors -> Extensions \cup {NoName}]
  /\ known \in [Extensions -> Nat]
  /\ \A n \in Extensions : known[n] \in {0, MajorOf[n]}
  /\ waiting \in BOOLEAN /\ stranded \in BOOLEAN

\* A query is in one place.
Relayed == relay # "idle" /\ NeedsReply(request.what)
Replied == handler \in {"learn", "write"}
Sent(i) == i \in DOMAIN asked /\ NeedsReply(asked[i].what)

Single ==
  /\ Relayed => waiting /\ ~Replied
  /\ Replied => waiting
  /\ \A i : Sent(i) => waiting /\ ~Replied /\ ~Relayed
  /\ \A i, j : Sent(i) /\ Sent(j) => i = j

\* A reply is that of the display.
ReplyOK ==
  Replied =>
    /\ reply.type \in Extensions \cup {"other"}
    /\ reply.type \in Extensions =>
         reply.major = MajorOf[reply.type] /\ reply.present = (MajorOf[reply.type] # 0)
    /\ reply.present \in BOOLEAN /\ reply.major \in Majors \cup {0}

RelayedFor(n, s) ==
  relay # "idle" /\ request.what.type = "queryExtension" /\ request.what.name = n /\ request.seq = s
SentFor(n, s) ==
  \E i \in DOMAIN asked :
    asked[i].what.type = "queryExtension" /\ asked[i].what.name = n /\ asked[i].seq = s
RepliedFor(n, s) == handler = "learn" /\ reply.type = n /\ reply.seq = s
Outstanding(n, s) == RelayedFor(n, s) \/ SentFor(n, s) \/ RepliedFor(n, s)

\* The requests noted and the requests outstanding are the same.
Matched ==
  ~stranded =>
    \A n \in Extensions, s \in Nums : pendingQueryExt[s] = n <=> Outstanding(n, s)

\* What has been learned is right, and before the application knows it.
Learned ==
  ~stranded =>
    /\ \A m \in Majors : extByOpcode[m] # NoName => MajorOf[extByOpcode[m]] = m
    /\ handler = "write" /\ reply.type \in Extensions /\ reply.present =>
         extByOpcode[reply.major] = reply.type

\* The query of an extension carries an opcode the application knows.
ByKnown ==
  relay # "idle" /\ request.what.type = "extension" =>
    \E n \in Extensions : known[n] # 0 /\ request.what.major = known[n]

IInv ==
  /\ Typed /\ Single /\ ReplyOK /\ Matched /\ Learned /\ ByKnown
  /\ ServerKnows /\ ExtQueriesRecognised
-----------------------------------------------------------------------------
(* The steps *)

\* The opcodes: one extension each.
LEMMA MajorsFacts ==
  /\ Majors \subseteq Nat \ {0} /\ Opcodes \subseteq Majors \cup {0}
  /\ \A n \in Extensions : MajorOf[n] # 0 => MajorOf[n] \in Majors
  /\ \A m, n \in Extensions : MajorOf[m] = MajorOf[n] /\ MajorOf[m] # 0 => m = n
  /\ NoName \notin Extensions /\ "other" \notin Extensions /\ "none" \notin Extensions
  BY MajorAssumption, NamesAssumption DEF Majors, Opcodes

\* Requests by their type.
LEMMA WhatsFacts ==
  ASSUME NEW q \in Whats
  PROVE  /\ q.type \in {"configure", "queryExtension", "core", "extension"}
         /\ q.type = "queryExtension" => q.name \in Extensions /\ q = QueryExt(q.name)
         /\ q.type = "extension" => q.major \in Majors /\ q = ExtQuery(q.major)
  BY DEF Whats, Configure, QueryExt, Query, ExtQuery

\* The initial states.
LEMMA InitInv == Init => IInv
<1> SUFFICES ASSUME Init PROVE IInv
  OBVIOUS
<1>1. Typed
  <2>1. 0 \in Nums
    BY OutageBoundsAssumption DEF Nums
  <2>2. asked \in Seq([what : Whats, seq : Nums])
    BY DEF Init
  <2> QED
    BY <2>1, <2>2 DEF Init, Typed, Nums, NoReply
<1>2. Single /\ ReplyOK /\ ByKnown
  BY DEF Init, Single, ReplyOK, ByKnown, Relayed, Replied, Sent
<1>3. Matched
  BY MajorsFacts DEF Init, Matched, Outstanding, RelayedFor, SentFor, RepliedFor, Nums
<1>4. Learned /\ ServerKnows /\ ExtQueriesRecognised
  BY DEF Init, Learned, ServerKnows, ExtQueriesRecognised
<1> QED
  BY <1>1, <1>2, <1>3, <1>4 DEF IInv

\* What the handler does outside the delivery of replies touches none of it.
LEMMA QuietStep ==
  ASSUME IInv, ~Replied, ~Replied',
         UNCHANGED <<reply, seqNum, pendingQueryExt, extByOpcode, relayVars, asked, known, waiting,
                     stranded, lost>>
  PROVE  IInv'
<1>1. Typed' /\ ByKnown'
  BY DEF IInv, Typed, ByKnown, relayVars
<1>2. Single' /\ ReplyOK'
  BY DEF IInv, Single, ReplyOK, Relayed, Replied, Sent, relayVars
<1>3. Matched'
  BY DEF IInv, Matched, Outstanding, RelayedFor, SentFor, RepliedFor, Replied, relayVars
<1>4. Learned' /\ ServerKnows' /\ ExtQueriesRecognised'
  BY DEF IInv, Learned, ServerKnows, ExtQueriesRecognised, Replied
<1> QED
  BY <1>1, <1>2, <1>3, <1>4 DEF IInv

\* A request that is made meets no outstanding query.
LEMMA TrackStep ==
  ASSUME IInv, NEW q \in Requests, Track(q)
  PROVE  IInv'
<1> DEFINE n == (seqNum + 1) % Modulus
<1>1. n \in Nums /\ q \in Whats
  <2>1. n \in Nums
    BY OutageBoundsAssumption DEF IInv, Typed, Nums
  <2>2. q \in Whats
    BY MajorsFacts DEF IInv, Typed, Requests, Whats, Configure, QueryExt, Query, ExtQuery
  <2> QED
    BY <2>1, <2>2
<1>2. /\ relay = "idle" /\ relay' = "tracked" /\ request' = [what |-> q, seq |-> n, client |-> 0]
      /\ seqNum' = n /\ waiting' = (waiting \/ NeedsReply(q)) /\ (waiting => ~NeedsReply(q))
      /\ UNCHANGED <<handler, reply, extByOpcode, asked, known, stranded>>
      /\ lost' = IF waiting THEN lost ELSE "no"
  BY DEF Track, handlerVars
<1>3. pendingQueryExt' = IF q.type = "queryExtension"
                         THEN [pendingQueryExt EXCEPT ![n] = q.name] ELSE pendingQueryExt
  BY DEF Track
<1>4. Typed'
  BY <1>1, <1>2, <1>3, WhatsFacts DEF IInv, Typed
<1>5. Single' /\ ReplyOK'
  BY <1>1, <1>2 DEF IInv, Typed, Single, ReplyOK, Relayed, Replied, Sent
<1>6. ASSUME ~stranded, q.type = "queryExtension" PROVE Matched'
  <2>1. ~waiting /\ q.name \in Extensions
    BY <1>1, <1>2, <1>6, WhatsFacts DEF NeedsReply
  <2>2. ~Replied /\ ~Relayed /\ \A i : ~Sent(i)
    BY <2>1 DEF IInv, Single
  <2>3. \A m, s : ~Outstanding(m, s)
    BY <2>2, <1>2 DEF Outstanding, RelayedFor, SentFor, RepliedFor, Replied, Sent, NeedsReply
  <2>4. \A s \in Nums : pendingQueryExt[s] = NoName
    BY <1>6, <2>3 DEF IInv, Matched, Typed
  <2>5. \A m \in Extensions, s \in Nums : Outstanding(m, s)' <=> (m = q.name /\ s = n)
    <3>1. \A m, s : ~SentFor(m, s)' /\ ~RepliedFor(m, s)'
      BY <2>2, <1>2 DEF SentFor, RepliedFor, Replied, Sent, NeedsReply
    <3> QED
      BY <3>1, <1>2, <1>6 DEF Outstanding, RelayedFor
  <2>6. \A s \in Nums : pendingQueryExt'[s] = IF s = n THEN q.name ELSE NoName
    BY <1>1, <1>3, <1>6, <2>4 DEF IInv, Typed
  <2> QED
    BY <2>1, <2>5, <2>6, MajorsFacts DEF Matched
<1>7. ASSUME ~stranded, q.type # "queryExtension" PROVE Matched'
  BY <1>2, <1>3, <1>7
     DEF IInv, Matched, Outstanding, RelayedFor, SentFor, RepliedFor
<1>8. Matched'
  BY <1>2, <1>6, <1>7 DEF Matched, IInv, Typed
<1>9. Learned' /\ ServerKnows' /\ ExtQueriesRecognised'
  BY <1>2 DEF IInv, Learned, ServerKnows, ExtQueriesRecognised
<1>10. ByKnown'
  BY <1>2 DEF Requests, Configure, QueryExt, Query, ExtQuery, ByKnown
<1> QED
  BY <1>4, <1>5, <1>8, <1>9, <1>10 DEF IInv

\* A look at clientConn and synthActive moves nothing.
LEMMA LookupStep ==
  ASSUME IInv, Lookup
  PROVE  IInv'
<1>1. /\ relay = "tracked" /\ relay' \in {"dropped", "write"}
      /\ request'.what = request.what /\ request'.seq = request.seq
      /\ UNCHANGED <<handler, reply, seqNum, pendingQueryExt, extByOpcode, asked, known, waiting,
                     stranded, lost>>
  BY DEF Lookup, handlerVars, trackerVars, appVars
<1>2. Typed' /\ ByKnown'
  BY <1>1 DEF IInv, Typed, ByKnown
<1>3. Single' /\ ReplyOK'
  BY <1>1 DEF IInv, Single, ReplyOK, Relayed, Replied, Sent
<1>4. Matched'
  BY <1>1 DEF IInv, Matched, Outstanding, RelayedFor, SentFor, RepliedFor
<1>5. Learned' /\ ServerKnows' /\ ExtQueriesRecognised'
  BY <1>1 DEF IInv, Learned, ServerKnows, ExtQueriesRecognised
<1> QED
  BY <1>2, <1>3, <1>4, <1>5 DEF IInv

\* A request that goes nowhere.
LEMMA DropFacts ==
  ASSUME IInv, relay # "idle", relay' = "idle", Strand(request.what),
         UNCHANGED <<handler, reply, seqNum, pendingQueryExt, extByOpcode, request, asked, known>>,
         waiting' \in BOOLEAN, waiting /\ ~waiting' => Relayed, waiting' => waiting,
         lost' # "unlearned" \/ lost' = lost
  PROVE  IInv'
<1>1. Typed' /\ ByKnown'
  BY DEF IInv, Typed, ByKnown, Strand
<1>2. Single' /\ ReplyOK'
  BY DEF IInv, Single, ReplyOK, Relayed, Replied, Sent
<1>3. ASSUME ~stranded' PROVE Matched'
  <2>1. ~stranded /\ request.what.type # "queryExtension"
    BY <1>3 DEF Strand
  <2>2. \A n, s : ~RelayedFor(n, s) /\ ~RelayedFor(n, s)'
    BY <2>1 DEF RelayedFor
  <2>3. \A n, s : (SentFor(n, s)' <=> SentFor(n, s)) /\ (RepliedFor(n, s)' <=> RepliedFor(n, s))
    BY DEF SentFor, RepliedFor
  <2> QED
    BY <2>1, <2>2, <2>3 DEF IInv, Matched, Outstanding
<1>4. Learned' /\ ServerKnows' /\ ExtQueriesRecognised'
  BY DEF IInv, Learned, ServerKnows, ExtQueriesRecognised, Strand
<1> QED
  BY <1>1, <1>2, <1>3, <1>4 DEF IInv, Matched

\* A request reaches the client or is gone; a QueryExtension request that is
\* gone strands.
LEMMA WriteStep ==
  ASSUME IInv, Write
  PROVE  IInv'
<1>1. relay = "write" /\ request.what \in Whats /\ request.seq \in Nums
  BY DEF Write, IInv, Typed
<1>2. UNCHANGED <<handler, reply, seqNum, pendingQueryExt, extByOpcode, request, known, waiting>>
  BY DEF Write, handlerVars, trackerVars, appVars
<1>a. asked \in Seq([what : Whats, seq : Nums])
  BY DEF IInv, Typed
<1>3. CASE alive /\ request.client = clients
  <2> DEFINE a == [what |-> request.what, seq |-> request.seq]
  <2>1. relay' = "idle" /\ asked' = Append(asked, a) /\ UNCHANGED <<stranded, lost>>
    BY <1>3 DEF Write
  <2>2. a \in [what : Whats, seq : Nums]
    BY <1>1
  <2>3. /\ asked' \in Seq([what : Whats, seq : Nums])
        /\ DOMAIN asked' = DOMAIN asked \cup {Len(asked) + 1} /\ Len(asked) + 1 \notin DOMAIN asked
        /\ \A i \in DOMAIN asked : asked'[i] = asked[i]
        /\ asked'[Len(asked) + 1] = a
    BY <1>a, <2>1, <2>2
  <2> HIDE DEF a
  <2>t. a.what = request.what /\ a.seq = request.seq
    BY DEF a
  <2>4. Typed' /\ ByKnown'
    BY <1>2, <2>1, <2>3 DEF IInv, Typed, ByKnown
  <2>5. \A i : Sent(i)' <=> (Sent(i) \/ (i = Len(asked) + 1 /\ NeedsReply(request.what)))
    BY <2>3, <2>t DEF Sent
  <2>6. Single' /\ ReplyOK'
    BY <1>1, <1>2, <2>1, <2>5 DEF IInv, Single, ReplyOK, Relayed, Replied
  <2>7. \A n \in Extensions, s \in Nums : Outstanding(n, s)' <=> Outstanding(n, s)
    <3>1. ASSUME NEW n \in Extensions, NEW s \in Nums
          PROVE  SentFor(n, s)' <=> SentFor(n, s) \/ RelayedFor(n, s)
      BY <1>1, <2>3, <2>t DEF SentFor, RelayedFor
    <3>2. \A n \in Extensions, s \in Nums :
            ~RelayedFor(n, s)' /\ (RepliedFor(n, s)' <=> RepliedFor(n, s))
      BY <1>2, <2>1 DEF RelayedFor, RepliedFor
    <3> QED
      BY <3>1, <3>2 DEF Outstanding
  <2>8. Matched'
    BY <1>2, <2>1, <2>7 DEF IInv, Matched
  <2>9. Learned' /\ ServerKnows' /\ ExtQueriesRecognised'
    BY <1>2, <2>1 DEF IInv, Learned, ServerKnows, ExtQueriesRecognised
  <2> QED
    BY <2>4, <2>6, <2>8, <2>9 DEF IInv
<1>4. CASE ~(alive /\ request.client = clients) /\ relay' = "dropped"
  <2>1. UNCHANGED <<asked, stranded, lost>>
    BY <1>4 DEF Write
  <2>2. Typed' /\ ByKnown'
    BY <1>1, <1>2, <1>4, <2>1 DEF IInv, Typed, ByKnown
  <2>3. Single' /\ ReplyOK'
    BY <1>1, <1>2, <1>4, <2>1 DEF IInv, Single, ReplyOK, Relayed, Replied, Sent
  <2>4. Matched'
    BY <1>1, <1>2, <1>4, <2>1 DEF IInv, Matched, Outstanding, RelayedFor, SentFor, RepliedFor
  <2>5. Learned' /\ ServerKnows' /\ ExtQueriesRecognised'
    BY <1>2, <2>1 DEF IInv, Learned, ServerKnows, ExtQueriesRecognised
  <2> QED
    BY <2>2, <2>3, <2>4, <2>5 DEF IInv
<1>5. CASE ~(alive /\ request.client = clients) /\ relay' # "dropped"
  <2>1. /\ relay' = "idle" /\ UNCHANGED asked
        /\ Strand(request.what)
        /\ lost' = IF NeedsReply(request.what) THEN "wire" ELSE lost
    BY <1>5 DEF Write
  <2>2. waiting \in BOOLEAN /\ waiting' = waiting /\ (lost' # "unlearned" \/ lost' = lost)
    BY <1>2, <2>1 DEF IInv, Typed
  <2> QED
    BY <1>1, <1>2, <2>1, <2>2, DropFacts
<1> QED
  BY <1>3, <1>4, <1>5

\* A dropped query whose opcode the application knows is recognised.
LEMMA FakeStep ==
  ASSUME IInv, Fake
  PROVE  IInv'
<1>1. /\ relay = "dropped" /\ relay' = "idle" /\ Strand(request.what)
      /\ UNCHANGED <<handler, reply, seqNum, pendingQueryExt, extByOpcode, request, asked, known>>
      /\ waiting' = (waiting /\ ~(NeedsReply(request.what) /\ ShouldFake /\ Recognised(request.what)))
  BY DEF Fake, handlerVars, trackerVars
<1>2. request.what \in Whats /\ (waiting' => waiting) /\ waiting' \in BOOLEAN
      /\ (waiting /\ ~waiting' => Relayed)
  BY <1>1 DEF IInv, Typed, Relayed
<1>3. CASE lost' # "unlearned" \/ lost' = lost
  BY <1>1, <1>2, <1>3, DropFacts
<1>4. CASE lost' = "unlearned" /\ lost' # lost
  <2>1. request.what.type = "extension" /\ extByOpcode[request.what.major] = NoName
    BY <1>4 DEF Fake
  <2>2. PICK n \in Extensions : known[n] # 0 /\ request.what.major = known[n]
    BY <1>1, <2>1 DEF IInv, ByKnown
  <2>3. stranded
    BY <2>1, <2>2, MajorsFacts DEF IInv, ServerKnows
  <2>4. stranded'
    BY <2>3, <1>1 DEF Strand
  <2>5. Typed' /\ ByKnown'
    BY <1>1, <1>2, <2>4 DEF IInv, Typed, ByKnown
  <2>6. Single' /\ ReplyOK'
    BY <1>1, <1>2 DEF IInv, Single, ReplyOK, Relayed, Replied, Sent
  <2> QED
    BY <2>4, <2>5, <2>6 DEF IInv, Matched, Learned, ServerKnows, ExtQueriesRecognised
<1> QED
  BY <1>3, <1>4

\* An answer is taken from the link: that of a query becomes the reply.
LEMMA ReadStep ==
  ASSUME IInv, Read
  PROVE  IInv'
<1> DEFINE a == Head(asked)
<1>1. /\ handler = "read" /\ asked # <<>> /\ asked' = Tail(asked)
      /\ UNCHANGED <<seqNum, pendingQueryExt, extByOpcode, relay, request, known, waiting, stranded,
                     lost>>
  BY DEF Read, trackerVars, relayVars
<1>a. asked \in Seq([what : Whats, seq : Nums])
  BY DEF IInv, Typed
<1>2. /\ a \in [what : Whats, seq : Nums] /\ a = asked[1] /\ 1 \in DOMAIN asked
      /\ asked' \in Seq([what : Whats, seq : Nums])
      /\ \A i \in DOMAIN asked' : asked'[i] = asked[i + 1] /\ i + 1 \in DOMAIN asked /\ i + 1 # 1
      /\ \A i \in DOMAIN asked : i # 1 => i - 1 \in DOMAIN asked' /\ asked[i] = asked'[i - 1]
      /\ \A i \in DOMAIN asked : i \in Int
      /\ \A i \in DOMAIN asked' : i \in Int
  <2> DEFINE S == [what : Whats, seq : Nums]
  <2> HIDE DEF S
  <2>1. asked \in Seq(S) /\ asked # <<>>
    BY <1>1, <1>a DEF S
  <2>2. a = asked[1] /\ 1 \in DOMAIN asked /\ Len(asked) \in Nat \ {0} /\ a \in S
    BY <2>1
  <2>3. asked' \in Seq(S) /\ Len(asked') = Len(asked) - 1
        /\ \A i \in 1..Len(asked) - 1 : asked'[i] = asked[i + 1]
    BY <1>1, <2>1, HeadTailProperties
  <2>4. DOMAIN asked = 1..Len(asked) /\ DOMAIN asked' = 1..Len(asked) - 1
    BY <2>1, <2>3
  <2> HIDE DEF a
  <2> QED
    BY <2>2, <2>3, <2>4 DEF S
<1> HIDE DEF a
<1>3. CASE NeedsReply(a.what)
  <2>1. handler' = "learn" /\ reply' \in Answers(a)
    BY <1>3 DEF Read, a
  <2>2. Sent(1) /\ waiting /\ ~Relayed /\ \A i : Sent(i) => i = 1
    BY <1>2, <1>3 DEF IInv, Single, Sent
  <2>3. \A i : ~Sent(i)'
    BY <1>2, <2>2 DEF Sent
  <2>4. /\ reply'.seq = a.seq
        /\ a.what.type = "queryExtension" =>
             /\ a.what.name \in Extensions
             /\ reply'.type = a.what.name /\ reply'.major = MajorOf[reply'.type]
             /\ reply'.present = (MajorOf[reply'.type] # 0)
        /\ a.what.type # "queryExtension" =>
             reply'.type = "other" /\ reply'.present \in BOOLEAN /\ reply'.major \in Opcodes
    BY <1>2, <2>1, WhatsFacts DEF Answers
  <2>5. Typed' /\ ByKnown'
    BY <1>1, <1>2, <2>4 DEF IInv, Typed, ByKnown
  <2>6. Single'
    BY <1>1, <2>1, <2>2, <2>3 DEF Single, Relayed, Replied
  <2>7. ReplyOK'
    <3>1. reply'.type \in Extensions \cup {"other"} /\ reply'.present \in BOOLEAN
      BY <2>4
    <3>2. reply'.major \in Majors \cup {0}
      BY <2>4, MajorsFacts
    <3> QED
      BY <2>4, <3>1, <3>2, MajorsFacts DEF ReplyOK
  <2>8. \A n \in Extensions, s \in Nums : Outstanding(n, s)' <=> Outstanding(n, s)
    <3>1. \A n, s : ~RelayedFor(n, s) /\ ~RelayedFor(n, s)'
      BY <1>1, <2>2 DEF RelayedFor, Relayed, NeedsReply
    <3>2. \A n, s : ~SentFor(n, s)'
      BY <2>3 DEF SentFor, Sent, NeedsReply
    <3>3. \A n, s : ~RepliedFor(n, s)
      BY <1>1 DEF RepliedFor
    <3>4. \A n, s : SentFor(n, s) <=> a.what.type = "queryExtension" /\ a.what.name = n /\ a.seq = s
      BY <1>2, <2>2 DEF SentFor, Sent, NeedsReply
    <3>5. \A n \in Extensions : \A s : RepliedFor(n, s)' <=>
            a.what.type = "queryExtension" /\ a.what.name = n /\ a.seq = s
      BY <2>1, <2>4, MajorsFacts DEF RepliedFor
    <3> QED
      BY <3>1, <3>2, <3>3, <3>4, <3>5 DEF Outstanding
  <2>9. Matched'
    BY <1>1, <2>8 DEF IInv, Matched
  <2>10. Learned' /\ ServerKnows' /\ ExtQueriesRecognised'
    BY <1>1, <2>1 DEF IInv, Learned, ServerKnows, ExtQueriesRecognised
  <2> QED
    BY <2>5, <2>6, <2>7, <2>9, <2>10 DEF IInv
<1>4. CASE ~NeedsReply(a.what)
  <2>1. handler' = handler /\ reply' = reply
    BY <1>4 DEF Read, a
  <2>2. \A i : Sent(i)' => i + 1 \in DOMAIN asked /\ Sent(i + 1) /\ i \in Int
    BY <1>2 DEF Sent
  <2>3. Typed' /\ ByKnown'
    BY <1>1, <1>2, <2>1 DEF IInv, Typed, ByKnown
  <2>4. Single' /\ ReplyOK'
    <3>1. \A i, j : Sent(i)' /\ Sent(j)' => i = j
      BY <2>2 DEF IInv, Single
    <3> QED
      BY <1>1, <2>1, <2>2, <3>1 DEF IInv, Single, ReplyOK, Relayed, Replied
  <2>5. \A n, s : SentFor(n, s)' <=> SentFor(n, s)
    <3>1. ASSUME NEW n, NEW s, SentFor(n, s) PROVE SentFor(n, s)'
      BY <1>2, <1>4, <3>1 DEF SentFor, NeedsReply
    <3>2. ASSUME NEW n, NEW s, SentFor(n, s)' PROVE SentFor(n, s)
      BY <1>2, <3>2 DEF SentFor
    <3> QED
      BY <3>1, <3>2
  <2>6. Matched'
    BY <1>1, <2>1, <2>5 DEF IInv, Matched, Outstanding, RelayedFor, RepliedFor
  <2>7. Learned' /\ ServerKnows' /\ ExtQueriesRecognised'
    BY <1>1, <2>1 DEF IInv, Learned, ServerKnows, ExtQueriesRecognised
  <2> QED
    BY <2>3, <2>4, <2>6, <2>7 DEF IInv
<1> QED
  BY <1>3, <1>4

\* The reply meets the entry of its own request or none.
LEMMA LearnStep ==
  ASSUME IInv, Learn
  PROVE  IInv'
<1> DEFINE name == pendingQueryExt[reply.seq]
           learnt == name # NoName /\ reply.present /\ reply.major # 0
<1>1. /\ handler = "learn" /\ handler' = "write"
      /\ pendingQueryExt' = [pendingQueryExt EXCEPT ![reply.seq] = NoName]
      /\ UNCHANGED <<reply, seqNum, relay, request, asked, known, waiting, stranded, lost>>
  BY DEF Learn, LearnQueryExtensionReply, relayVars, appVars
<1>2. extByOpcode' = IF learnt THEN [extByOpcode EXCEPT ![reply.major] = name] ELSE extByOpcode
  BY DEF Learn, LearnQueryExtensionReply
<1>3. /\ reply.seq \in Nums /\ name \in Extensions \cup {NoName}
      /\ reply.major \in Majors \cup {0}
      /\ pendingQueryExt \in [Nums -> Extensions \cup {NoName}]
      /\ extByOpcode \in [Majors -> Extensions \cup {NoName}]
      /\ reply.type \in Extensions \cup {"other"}
      /\ reply.type \in Extensions =>
           reply.major = MajorOf[reply.type] /\ reply.present = (MajorOf[reply.type] # 0)
  BY <1>1 DEF IInv, Typed, ReplyOK, Replied
<1>4. Typed' /\ ByKnown'
  <2>1. extByOpcode' \in [Majors -> Extensions \cup {NoName}]
    BY <1>2, <1>3
  <2>2. pendingQueryExt' \in [Nums -> Extensions \cup {NoName}]
    BY <1>1, <1>3
  <2> QED
    BY <1>1, <2>1, <2>2 DEF IInv, Typed, ByKnown
<1>5. Single' /\ ReplyOK'
  BY <1>1 DEF IInv, Single, ReplyOK, Relayed, Replied, Sent
<1>6. ASSUME ~stranded
      PROVE  Matched' /\ Learned' /\ ServerKnows'
  <2>1. \A n, s : ~RelayedFor(n, s) /\ ~SentFor(n, s)
    BY <1>1 DEF IInv, Single, Relayed, Replied, Sent, RelayedFor, SentFor, NeedsReply
  <2>2. \A n \in Extensions, s \in Nums :
          pendingQueryExt[s] = n <=> reply.type = n /\ reply.seq = s
    BY <1>1, <1>6, <2>1 DEF IInv, Matched, Outstanding, RepliedFor
  <2>3. \A n, s : ~Outstanding(n, s)'
    BY <1>1, <2>1 DEF Outstanding, RelayedFor, SentFor, RepliedFor
  <2>4. \A s \in Nums : pendingQueryExt'[s] = NoName
    BY <1>1, <1>3, <2>2
  <2>5. Matched'
    BY <2>3, <2>4, MajorsFacts DEF Matched
  <2>6. name # NoName => name = reply.type /\ reply.type \in Extensions
    BY <1>3, <2>2
  <2>7. reply.type \in Extensions => name = reply.type
    BY <1>3, <2>2
  <2>8. learnt <=> reply.type \in Extensions /\ reply.present
    BY <1>3, <2>6, <2>7, MajorsFacts
  <2>9. Learned'
    BY <1>1, <1>2, <1>3, <1>6, <2>6, <2>7, <2>8, MajorsFacts DEF IInv, Learned
  <2>10. ServerKnows'
    BY <1>1, <1>2, <1>3, <1>6, <2>6, <2>8, MajorsFacts DEF IInv, Typed, ServerKnows
  <2> QED
    BY <2>5, <2>9, <2>10
<1>7. ExtQueriesRecognised'
  BY <1>1 DEF IInv, ExtQueriesRecognised
<1> QED
  BY <1>1, <1>4, <1>5, <1>6, <1>7 DEF IInv, Matched, Learned, ServerKnows

\* The application learns what the server has learned.
LEMMA DeliverStep ==
  ASSUME IInv, Deliver
  PROVE  IInv'
<1>1. /\ handler = "write" /\ handler' = "read" /\ reply' = NoReply /\ waiting' = FALSE
      /\ UNCHANGED <<seqNum, pendingQueryExt, extByOpcode, relay, request, asked, stranded, lost>>
  BY DEF Deliver, Answered, trackerVars, relayVars
<1>2. known' = IF reply.type \in Extensions /\ reply.present
               THEN [known EXCEPT ![reply.type] = reply.major] ELSE known
  BY DEF Deliver, Answered
<1>3. ~Relayed /\ \A i : ~Sent(i)
  BY <1>1 DEF IInv, Single, Replied
<1>4. Typed'
  <2>1. known' \in [Extensions -> Nat] /\ \A n \in Extensions : known'[n] \in {0, MajorOf[n]}
    BY <1>1, <1>2, MajorAssumption DEF IInv, Typed, ReplyOK, Replied
  <2>2. 0 \in Nums
    BY OutageBoundsAssumption DEF Nums
  <2> QED
    BY <1>1, <2>1, <2>2 DEF IInv, Typed, NoReply
<1>5. Single' /\ ReplyOK' /\ ByKnown'
  BY <1>1, <1>3 DEF Single, ReplyOK, ByKnown, Relayed, Replied, Sent, NeedsReply
<1>6. Matched'
  BY <1>1 DEF IInv, Matched, Outstanding, RelayedFor, SentFor, RepliedFor
<1>7. Learned' /\ ServerKnows'
  BY <1>1, <1>2 DEF IInv, Typed, Learned, ServerKnows
<1>8. ExtQueriesRecognised'
  BY <1>1 DEF IInv, ExtQueriesRecognised
<1> QED
  BY <1>4, <1>5, <1>6, <1>7, <1>8 DEF IInv

\* A client dies: a QueryExtension request that is lost with it strands.
LEMMA CrashStep ==
  ASSUME IInv, Crash
  PROVE  IInv'
<1>1. UNCHANGED <<handler, reply, seqNum, pendingQueryExt, extByOpcode, relay, request, known,
                  waiting>>
  BY DEF Crash, trackerVars, relayVars, appVars
<1>2. PICK k \in 0..Len(asked) :
        /\ asked' = SubSeq(asked, 1, k)
        /\ stranded' = (stranded \/ \E i \in k + 1..Len(asked) : asked[i].what.type = "queryExtension")
        /\ lost' \in {"wire", lost}
  BY DEF Crash
<1>3. /\ asked' \in Seq([what : Whats, seq : Nums])
      /\ DOMAIN asked = 1..Len(asked) /\ DOMAIN asked' = 1..k /\ Len(asked) \in Nat
      /\ \A i \in 1..k : asked'[i] = asked[i] /\ i \in DOMAIN asked
  <2> DEFINE S == [what : Whats, seq : Nums]
  <2> HIDE DEF S
  <2>1. asked \in Seq(S)
    BY DEF IInv, Typed, S
  <2>2. DOMAIN asked = 1..Len(asked) /\ Len(asked) \in Nat /\ \A i \in 1..Len(asked) : asked[i] \in S
    BY <2>1
  <2>3. k \in Int /\ 1 \in Int /\ \A i \in 1..k : asked[i] \in S
    BY <2>2
  <2>4. /\ asked' \in Seq(S) /\ Len(asked') = (IF 1 <= k THEN k - 1 + 1 ELSE 0)
        /\ \A i \in 1..k - 1 + 1 : asked'[i] = asked[1 + i - 1]
    BY <1>2, <2>3, SubSeqProperties
  <2>5. Len(asked') = k /\ \A i \in 1..k : asked'[i] = asked[i]
    BY <2>2, <2>4
  <2>6. DOMAIN asked' = 1..k
    BY <2>4, <2>5
  <2> QED
    BY <2>2, <2>4, <2>5, <2>6 DEF S
<1>4. stranded' \in BOOLEAN /\ (stranded => stranded')
  BY <1>2 DEF IInv, Typed
<1>5. Typed' /\ ByKnown'
  BY <1>1, <1>3, <1>4 DEF IInv, Typed, ByKnown
<1>6. Single' /\ ReplyOK'
  <2>1. \A i : Sent(i)' => Sent(i)
    BY <1>3 DEF Sent
  <2> QED
    BY <1>1, <2>1 DEF IInv, Single, ReplyOK, Relayed, Replied
<1>7. ASSUME ~stranded' PROVE Matched'
  <2>1. \A i \in k + 1..Len(asked) : asked[i].what.type # "queryExtension"
    BY <1>2, <1>7
  <2>2. \A n, s : SentFor(n, s)' <=> SentFor(n, s)
    <3>1. \A i \in DOMAIN asked : i \in 1..k \/ i \in k + 1..Len(asked)
      BY <1>3
    <3> QED
      BY <1>3, <2>1, <3>1 DEF SentFor
  <2> QED
    BY <1>1, <1>4, <1>7, <2>2 DEF IInv, Matched, Outstanding, RelayedFor, RepliedFor
<1>8. Learned' /\ ServerKnows' /\ ExtQueriesRecognised'
  BY <1>1, <1>2, <1>4 DEF IInv, Learned, ServerKnows, ExtQueriesRecognised
<1> QED
  BY <1>5, <1>6, <1>7, <1>8 DEF IInv, Matched
-----------------------------------------------------------------------------
LEMMA StepInv == IInv /\ [Next]_vars => IInv'
<1> SUFFICES ASSUME IInv, [Next]_vars PROVE IInv'
  OBVIOUS
<1>1. ASSUME NEW q \in Requests, Track(q) PROVE IInv'
  BY <1>1, TrackStep
<1>2. CASE Lookup \/ Write \/ Fake
  BY <1>2, LookupStep, WriteStep, FakeStep
<1>3. CASE Connect \/ Reset \/ Open \/ Drain \/ Inject \/ Leave
  <2>1. /\ ~Replied /\ ~Replied'
        /\ UNCHANGED <<reply, seqNum, pendingQueryExt, extByOpcode, relayVars, asked, known, waiting,
                       stranded, lost>>
    BY <1>3 DEF Connect, Reset, Open, Drain, Inject, Leave, Replied, trackerVars, relayVars, appVars
  <2> QED
    BY <2>1, QuietStep
<1>4. CASE Read \/ Learn \/ Deliver
  BY <1>4, ReadStep, LearnStep, DeliverStep
<1>5. CASE Crash
  BY <1>5, CrashStep
<1>6. CASE UNCHANGED vars
  <2>1. UNCHANGED <<handler, reply, seqNum, pendingQueryExt, extByOpcode, relay, request, asked,
                    known, waiting, stranded, lost>>
    BY <1>6 DEF vars, handlerVars, trackerVars, relayVars, appVars
  <2>2. Typed' /\ ByKnown' /\ Single' /\ ReplyOK'
    BY <2>1 DEF IInv, Typed, ByKnown, Single, ReplyOK, Relayed, Replied, Sent
  <2>3. Matched' /\ Learned' /\ ServerKnows' /\ ExtQueriesRecognised'
    BY <2>1 DEF IInv, Matched, Outstanding, RelayedFor, SentFor, RepliedFor, Learned, ServerKnows,
                ExtQueriesRecognised
  <2> QED
    BY <2>2, <2>3 DEF IInv
<1> QED
  BY <1>1, <1>2, <1>3, <1>4, <1>5, <1>6 DEF Next

\* The server knows an opcode by its right name before the application does,
\* unless a QueryExtension request was stranded (state.go:1017-1029).
THEOREM ServerKnowsTheorem == Spec => []ServerKnows
<1>1. IInv => ServerKnows
  BY DEF IInv
<1> QED
  BY <1>1, InitInv, StepInv, PTL DEF Spec

\* No query is left without a reply for want of an opcode the server should
\* have learned (server.go:219-224).
THEOREM ExtQueriesRecognisedTheorem == Spec => []ExtQueriesRecognised
<1>1. IInv => ExtQueriesRecognised
  BY DEF IInv
<1> QED
  BY <1>1, InitInv, StepInv, PTL DEF Spec
-----------------------------------------------------------------------------
(* ConfigureWindow requests *)

\* A request on its way to the client of the session.
AtRelay(w) ==
  IF request.what = Configure(w) /\ (relay = "tracked" \/ (relay = "write" /\ request.client = clients))
  THEN 1 ELSE 0

CTyped ==
  /\ count \in [Windows -> Nat] /\ old \in [Windows -> Nat]
  /\ drained \in [Windows -> Nat] /\ pendingConfigures \in [Windows -> Nat]
  /\ synthActive \in BOOLEAN /\ (synthActive <=> handler \in {"resume", "synth"})
  /\ relay \in {"idle", "tracked", "write", "dropped"}

Counted ==
  handler \in {"synth", "open"} => \A w \in Windows : count[w] <= old[w] + pendingConfigures[w]
ToInject ==
  handler = "inject" /\ alive =>
    \A w \in Windows : count[w] <= old[w] + drained[w] + Unanswered(w) + AtRelay(w)
Balanced ==
  handler \in {"read", "learn", "write"} /\ alive =>
    \A w \in Windows : count[w] <= old[w] + Unanswered(w) + AtRelay(w)

CInv == CTyped /\ Counted /\ ToInject /\ Balanced

\* The requests of a window in a sequence: a finite number, one more when one is
\* added and one less, at most, when the first is taken.
LEMMA ConfiguresFinite ==
  ASSUME NEW S, NEW s \in Seq(S), NEW w
  PROVE  IsFiniteSet(ConfiguresIn(s, w)) /\ Cardinality(ConfiguresIn(s, w)) \in Nat
<1>1. IsFiniteSet(1..Len(s))
  BY FS_Interval
<1>2. ConfiguresIn(s, w) \in SUBSET (1..Len(s))
  BY DEF ConfiguresIn
<1> QED
  BY <1>1, <1>2, FS_Subset, FS_CardinalityType

LEMMA ConfiguresAppend ==
  ASSUME NEW S, NEW s \in Seq(S), NEW a \in S, NEW w
  PROVE  Cardinality(ConfiguresIn(Append(s, a), w)) =
           Cardinality(ConfiguresIn(s, w)) + IF a.what = Configure(w) THEN 1 ELSE 0
<1> DEFINE new == Append(s, a)
           n == Len(s) + 1
<1>1. /\ DOMAIN new = DOMAIN s \cup {n} /\ n \notin DOMAIN s /\ new[n] = a
      /\ \A i \in DOMAIN s : new[i] = s[i]
  OBVIOUS
<1>2. n \notin ConfiguresIn(s, w)
  BY <1>1 DEF ConfiguresIn
<1>3. CASE a.what = Configure(w)
  <2>1. ConfiguresIn(new, w) = ConfiguresIn(s, w) \cup {n}
    BY <1>1, <1>3 DEF ConfiguresIn
  <2> QED
    BY <1>2, <1>3, <2>1, ConfiguresFinite, FS_AddElement
<1>4. CASE a.what # Configure(w)
  <2>1. ConfiguresIn(new, w) = ConfiguresIn(s, w)
    BY <1>1, <1>4 DEF ConfiguresIn
  <2> QED
    BY <1>4, <2>1, ConfiguresFinite
<1> QED
  BY <1>3, <1>4

LEMMA ConfiguresTail ==
  ASSUME NEW S, NEW s \in Seq(S), s # <<>>, NEW w
  PROVE  Cardinality(ConfiguresIn(s, w)) <=
           Cardinality(ConfiguresIn(Tail(s), w)) + IF Head(s).what = Configure(w) THEN 1 ELSE 0
<1> DEFINE old1 == ConfiguresIn(s, w)
           rest == ConfiguresIn(Tail(s), w)
           f == [i \in old1 \ {1} |-> i - 1]
<1>1. /\ Tail(s) \in Seq(S) /\ Len(Tail(s)) = Len(s) - 1 /\ Len(s) \in Nat \ {0}
      /\ \A i \in 1..Len(s) - 1 : Tail(s)[i] = s[i + 1]
  BY HeadTailProperties
<1>2. DOMAIN s = 1..Len(s) /\ DOMAIN Tail(s) = 1..Len(s) - 1 /\ Head(s) = s[1]
  BY <1>1
<1>3. \A i \in old1 \ {1} : i \in Int /\ i - 1 \in rest
  <2>1. ASSUME NEW i \in old1 \ {1} PROVE i \in Int /\ i - 1 \in rest
    <3>1. i \in 2..Len(s) /\ s[i].what = Configure(w)
      BY <1>1, <1>2 DEF ConfiguresIn
    <3>2. i - 1 \in 1..Len(s) - 1 /\ Tail(s)[i - 1] = s[(i - 1) + 1] /\ (i - 1) + 1 = i
      BY <3>1, <1>1
    <3> QED
      BY <3>1, <3>2, <1>2 DEF ConfiguresIn
  <2> QED
    BY <2>1
<1>4. f \in Injection(old1 \ {1}, rest)
  BY <1>3 DEF Injection, IsInjective
<1>5. IsFiniteSet(old1) /\ Cardinality(old1) \in Nat
  BY ConfiguresFinite
<1>6. IsFiniteSet(rest) /\ Cardinality(rest) \in Nat
  BY <1>1, ConfiguresFinite
<1>7. Cardinality(old1 \ {1}) <= Cardinality(rest)
  BY <1>4, <1>6, FS_Injection
<1>8. Cardinality(old1 \ {1}) = IF 1 \in old1 THEN Cardinality(old1) - 1 ELSE Cardinality(old1)
  BY <1>5, FS_RemoveElement
<1>9. 1 \in old1 <=> Head(s).what = Configure(w)
  BY <1>1, <1>2 DEF ConfiguresIn
<1> HIDE DEF old1, rest
<1>10. Cardinality(old1) <= Cardinality(rest) + IF Head(s).what = Configure(w) THEN 1 ELSE 0
  BY <1>5, <1>6, <1>7, <1>8, <1>9
<1> QED
  BY <1>10 DEF old1, rest

LEMMA UnansweredType ==
  ASSUME Typed, NEW w PROVE Unanswered(w) \in Nat
  BY ConfiguresFinite DEF Typed, Unanswered

LEMMA CInit == Init => CInv
<1> SUFFICES ASSUME Init PROVE CInv
  OBVIOUS
<1>1. /\ handler = "none" /\ synthActive = FALSE /\ relay = "idle"
      /\ count = [w \in Windows |-> 0] /\ old = [w \in Windows |-> 0]
      /\ drained = [w \in Windows |-> 0] /\ pendingConfigures = [w \in Windows |-> 0]
  BY DEF Init
<1>2. CTyped
  BY <1>1 DEF CTyped
<1>3. Counted /\ ToInject /\ Balanced
  BY <1>1 DEF Counted, ToInject, Balanced
<1> QED
  BY <1>2, <1>3 DEF CInv

\* Steps that leave the requests and the counts alone.
LEMMA CQuiet ==
  ASSUME CInv, UNCHANGED <<handler, synthActive, clients, drained, pendingConfigures, relay, request,
                           asked, count, old>>,
         alive' => alive
  PROVE  CInv'
<1>1. CTyped' /\ Counted'
  BY DEF CInv, CTyped, Counted
<1>2. \A w : AtRelay(w)' = AtRelay(w) /\ Unanswered(w)' = Unanswered(w)
  BY DEF AtRelay, Unanswered, ConfiguresIn
<1>3. ToInject' /\ Balanced'
  BY <1>2 DEF CInv, ToInject, Balanced
<1> QED
  BY <1>1, <1>3 DEF CInv

LEMMA CTrack ==
  ASSUME IInv, CInv, NEW q \in Requests, Track(q)
  PROVE  CInv'
<1>1. /\ relay = "idle" /\ relay' = "tracked" /\ request'.what = q
      /\ UNCHANGED <<handler, synthActive, alive, drained, asked, old>>
      /\ count' = [w \in Windows |-> count[w] + IF q = Configure(w) THEN 1 ELSE 0]
      /\ pendingConfigures' =
           [w \in Windows |-> pendingConfigures[w] + IF q = Configure(w) THEN 1 ELSE 0]
  BY DEF Track, handlerVars
<1>2. CTyped' /\ Counted'
  BY <1>1 DEF CInv, CTyped, Counted
<1>3. \A w \in Windows : AtRelay(w) = 0 /\ AtRelay(w)' = IF q = Configure(w) THEN 1 ELSE 0
  BY <1>1 DEF AtRelay
<1>4. \A w : Unanswered(w)' = Unanswered(w) /\ Unanswered(w) \in Nat
  BY <1>1, UnansweredType DEF IInv, Unanswered, ConfiguresIn
<1>5. ToInject' /\ Balanced'
  BY <1>1, <1>3, <1>4 DEF CInv, CTyped, ToInject, Balanced
<1> QED
  BY <1>2, <1>5 DEF CInv

LEMMA CLookup ==
  ASSUME IInv, CInv, Lookup
  PROVE  CInv'
<1>1. /\ relay = "tracked" /\ request'.what = request.what
      /\ relay' = IF handler = "none" \/ synthActive THEN "dropped" ELSE "write"
      /\ UNCHANGED <<handler, synthActive, alive, clients, drained, pendingConfigures, asked, count, old>>
  BY DEF Lookup, handlerVars, trackerVars, appVars
<1>2. relay' = "write" => request'.client = clients'
  BY <1>1 DEF Lookup, IInv, Typed
<1>3. CTyped' /\ Counted'
  BY <1>1 DEF CInv, CTyped, Counted
<1>4. \A w : Unanswered(w)' = Unanswered(w)
  BY <1>1 DEF Unanswered, ConfiguresIn
<1>5. handler \in {"inject", "read", "learn", "write"} => \A w : AtRelay(w)' = AtRelay(w)
  BY <1>1, <1>2 DEF CInv, CTyped, AtRelay
<1>6. ToInject' /\ Balanced'
  BY <1>1, <1>4, <1>5 DEF CInv, ToInject, Balanced
<1> QED
  BY <1>3, <1>6 DEF CInv

LEMMA CWrite ==
  ASSUME IInv, CInv, Write
  PROVE  CInv'
<1>1. /\ relay = "write" /\ relay' \in {"idle", "dropped"}
      /\ UNCHANGED <<handler, synthActive, alive, clients, drained, pendingConfigures, request, count, old>>
  BY DEF Write, handlerVars, trackerVars, appVars
<1>2. CTyped' /\ Counted'
  BY <1>1 DEF CInv, CTyped, Counted
<1>3. \A w : AtRelay(w)' = 0
  BY <1>1 DEF AtRelay
<1>4. alive => \A w \in Windows : Unanswered(w)' = Unanswered(w) + AtRelay(w)
  <2>1. CASE alive /\ request.client = clients
    <3> DEFINE a == [what |-> request.what, seq |-> request.seq]
               S == [what : Whats, seq : Nums]
    <3>1. asked' = Append(asked, a)
      BY <2>1 DEF Write
    <3>2. asked \in Seq(S) /\ a \in S /\ a.what = request.what
      BY <1>1 DEF IInv, Typed
    <3> HIDE DEF a, S
    <3>3. \A w : Cardinality(ConfiguresIn(Append(asked, a), w)) =
                   Cardinality(ConfiguresIn(asked, w)) + IF a.what = Configure(w) THEN 1 ELSE 0
      BY <3>2, ConfiguresAppend
    <3>4. \A w : Unanswered(w)' = Cardinality(ConfiguresIn(Append(asked, a), w))
      BY <3>1 DEF Unanswered, ConfiguresIn
    <3>5. \A w : AtRelay(w) = IF a.what = Configure(w) THEN 1 ELSE 0
      BY <1>1, <2>1, <3>2 DEF AtRelay
    <3> QED
      BY <3>3, <3>4, <3>5 DEF Unanswered
  <2>2. CASE alive /\ request.client # clients
    <3>1. \A w : Unanswered(w)' = Unanswered(w) /\ AtRelay(w) = 0
      BY <1>1, <2>2 DEF Write, AtRelay, Unanswered, ConfiguresIn
    <3> QED
      BY <3>1, UnansweredType DEF IInv
  <2> QED
    BY <2>1, <2>2
<1>5. \A w : Unanswered(w) \in Nat /\ AtRelay(w) \in Nat
  BY UnansweredType DEF IInv, AtRelay
<1>6. ToInject' /\ Balanced'
  BY <1>1, <1>3, <1>4, <1>5 DEF CInv, CTyped, ToInject, Balanced
<1> QED
  BY <1>2, <1>6 DEF CInv

LEMMA CFake ==
  ASSUME CInv, Fake
  PROVE  CInv'
<1>1. /\ relay = "dropped" /\ relay' = "idle"
      /\ UNCHANGED <<handler, synthActive, alive, clients, drained, pendingConfigures, request, asked,
                     count, old>>
  BY DEF Fake, handlerVars, trackerVars
<1>2. CTyped' /\ Counted'
  BY <1>1 DEF CInv, CTyped, Counted
<1>3. \A w : AtRelay(w)' = AtRelay(w) /\ Unanswered(w)' = Unanswered(w)
  BY <1>1 DEF AtRelay, Unanswered, ConfiguresIn
<1>4. ToInject' /\ Balanced'
  BY <1>1, <1>3 DEF CInv, ToInject, Balanced
<1> QED
  BY <1>2, <1>4 DEF CInv

LEMMA CHandler ==
  ASSUME IInv, CInv, Connect \/ Reset \/ Open \/ Drain \/ Leave
  PROVE  CInv'
<1>1. UNCHANGED <<relay, request, asked, count>>
  BY DEF Connect, Reset, Open, Drain, Leave, relayVars, appVars
<1>2. CTyped'
  <2>1. CASE Connect
    <3>1. UNCHANGED <<drained, pendingConfigures, old>> /\ handler' = "resume" /\ synthActive' = TRUE
      BY <2>1 DEF Connect, trackerVars
    <3> QED
      BY <1>1, <3>1 DEF CInv, CTyped
  <2>5. CASE Leave
    <3>1. UNCHANGED <<synthActive, drained, pendingConfigures, old>>
          /\ handler = "read" /\ handler' = "none"
      BY <2>5 DEF Leave, trackerVars
    <3>2. synthActive \in BOOLEAN /\ (synthActive <=> handler \in {"resume", "synth"})
      BY DEF CInv, CTyped
    <3>3. synthActive' \in BOOLEAN /\ (synthActive' <=> handler' \in {"resume", "synth"})
      BY <3>1, <3>2
    <3> QED
      BY <1>1, <3>1, <3>3 DEF CInv, CTyped
  <2>2. CASE Reset
    BY <1>1, <2>2 DEF CInv, CTyped, Reset
  <2>3. CASE Open
    BY <1>1, <2>3 DEF CInv, CTyped, Open, trackerVars
  <2>4. CASE Drain
    BY <1>1, <2>4 DEF CInv, CTyped, Drain
  <2> QED
    BY <2>1, <2>2, <2>3, <2>4, <2>5
<1>3. Counted'
  BY DEF CInv, CTyped, Counted, Connect, Reset, Open, Drain, Leave, trackerVars, appVars
<1>4. ToInject'
  <2>1. CASE Drain
    <3>1. \A w : /\ AtRelay(w)' = AtRelay(w) /\ AtRelay(w) \in Nat
                 /\ Unanswered(w)' = Unanswered(w) /\ Unanswered(w) \in Nat
      BY <2>1, <1>1, UnansweredType DEF IInv, Drain, AtRelay, Unanswered, ConfiguresIn
    <3>2. handler = "open" /\ drained' = pendingConfigures /\ UNCHANGED <<count, old>>
      BY <2>1 DEF Drain, appVars
    <3> QED
      BY <3>1, <3>2 DEF CInv, CTyped, Counted, ToInject
  <2>2. CASE ~Drain
    BY <2>2 DEF ToInject, Connect, Reset, Open, Leave
  <2> QED
    BY <2>1, <2>2
<1>5. Balanced'
  BY DEF Balanced, Connect, Reset, Open, Drain, Leave
<1> QED
  BY <1>2, <1>3, <1>4, <1>5 DEF CInv

LEMMA CInject ==
  ASSUME IInv, CInv, Inject
  PROVE  CInv'
<1>1. /\ handler = "inject" /\ handler' = "read"
      /\ count' = [w \in Windows |-> Less(count[w], Injected(w))]
      /\ drained' = [w \in Windows |-> 0]
      /\ UNCHANGED <<synthActive, alive, clients, pendingConfigures, relay, request, asked, old>>
  BY DEF Inject, trackerVars, relayVars
<1>2. \A w \in Windows : count'[w] \in Nat /\ (count'[w] = 0 \/ count'[w] <= count[w] - drained[w])
  BY <1>1 DEF CInv, CTyped, Less, Injected
<1>3. CTyped' /\ Counted' /\ ToInject'
  <2>1. count' \in [Windows -> Nat]
    BY <1>1, <1>2
  <2>2. drained' \in [Windows -> Nat] /\ UNCHANGED <<pendingConfigures, relay, old>>
    BY <1>1
  <2>3. synthActive' \in BOOLEAN /\ (synthActive' <=> handler' \in {"resume", "synth"})
    BY <1>1 DEF CInv, CTyped
  <2> QED
    BY <1>1, <2>1, <2>2, <2>3 DEF CInv, CTyped, Counted, ToInject
<1>4. \A w : /\ AtRelay(w)' = AtRelay(w) /\ AtRelay(w) \in Nat
             /\ Unanswered(w)' = Unanswered(w) /\ Unanswered(w) \in Nat
  BY <1>1, UnansweredType DEF IInv, AtRelay, Unanswered, ConfiguresIn
<1>5. Balanced'
  <2> SUFFICES ASSUME alive, NEW w \in Windows
               PROVE  count'[w] <= old[w] + Unanswered(w)' + AtRelay(w)'
    BY <1>1 DEF Balanced
  <2>1. count[w] <= old[w] + drained[w] + Unanswered(w) + AtRelay(w)
    BY <1>1 DEF CInv, ToInject
  <2>2. count[w] \in Nat /\ old[w] \in Nat /\ drained[w] \in Nat
    BY DEF CInv, CTyped
  <2> QED
    BY <1>2, <1>4, <2>1, <2>2
<1> QED
  BY <1>3, <1>5 DEF CInv

LEMMA CRead ==
  ASSUME IInv, CInv, Read
  PROVE  CInv'
<1> DEFINE S == [what : Whats, seq : Nums]
           a == Head(asked)
           one(w) == IF a.what = Configure(w) THEN 1 ELSE 0
<1>1. /\ handler = "read" /\ handler' \in {"read", "learn"} /\ asked # <<>> /\ asked' = Tail(asked)
      /\ UNCHANGED <<synthActive, alive, clients, drained, pendingConfigures, relay, request, old>>
  BY DEF Read, trackerVars, relayVars
<1>2. asked \in Seq(S) /\ asked' \in Seq(S) /\ a \in S
  BY <1>1, HeadTailProperties DEF IInv, Typed
<1>3. \A w : Unanswered(w) <= Unanswered(w)' + one(w) /\ Unanswered(w) \in Nat /\ Unanswered(w)' \in Nat
  <2> HIDE DEF S
  <2>1. \A w : Unanswered(w)' = Cardinality(ConfiguresIn(Tail(asked), w))
    BY <1>1 DEF Unanswered, ConfiguresIn
  <2>2. \A w : Cardinality(ConfiguresIn(asked, w)) <= Cardinality(ConfiguresIn(Tail(asked), w)) + one(w)
    BY <1>1, <1>2, ConfiguresTail
  <2>3. \A w : Cardinality(ConfiguresIn(Tail(asked), w)) \in Nat
    BY <1>1, <1>2, ConfiguresFinite
  <2>4. \A w : Unanswered(w) \in Nat
    BY UnansweredType DEF IInv
  <2> QED
    BY <2>1, <2>2, <2>3, <2>4 DEF Unanswered
<1>4. count' \in [Windows -> Nat] /\ \A w \in Windows : count'[w] <= count[w]
      /\ (a.what = Configure(w) => count'[w] = 0 \/ count'[w] = count[w] - 1)
  <2>1. CASE NeedsReply(a.what)
    BY <2>1 DEF Read, CInv, CTyped, NeedsReply, Configure
  <2>2. CASE ~NeedsReply(a.what)
    <3>1. PICK v \in Windows : a.what = Configure(v)
      <4>1. a.what \in Whats
        BY <1>2
      <4>2. \A q \in Whats : ~NeedsReply(q) => \E v \in Windows : q = Configure(v)
        BY DEF Whats, NeedsReply, QueryExt, Query, ExtQuery
      <4> HIDE DEF a
      <4> QED
        BY <2>2, <4>1, <4>2
    <3>2. a.what.window = v
      BY <3>1 DEF Configure
    <3>3. count' = [count EXCEPT ![v] = Less(@, 1)]
      BY <2>2, <3>2 DEF Read
    <3>4. \A w \in Windows : a.what = Configure(w) => w = v
      BY <3>2 DEF Configure
    <3> QED
      BY <3>3, <3>4 DEF Less, CInv, CTyped
  <2> QED
    BY <2>1, <2>2
<1> HIDE DEF a
<1>5. CTyped' /\ Counted' /\ ToInject'
  BY <1>1, <1>4 DEF CInv, CTyped, Counted, ToInject
<1>6. \A w : AtRelay(w)' = AtRelay(w) /\ AtRelay(w) \in Nat
  BY <1>1 DEF AtRelay
<1>7. Balanced'
  <2> SUFFICES ASSUME alive, NEW w \in Windows
               PROVE  count'[w] <= old[w] + Unanswered(w)' + AtRelay(w)'
    BY <1>1 DEF Balanced
  <2>1. count[w] <= old[w] + Unanswered(w) + AtRelay(w)
    BY <1>1 DEF CInv, Balanced
  <2>2. count[w] \in Nat /\ count'[w] \in Nat /\ old[w] \in Nat
    BY <1>4 DEF CInv, CTyped
  <2>3. one(w) \in {0, 1} /\ (one(w) = 1 => count'[w] = 0 \/ count'[w] = count[w] - 1)
    BY <1>4
  <2>4. /\ Unanswered(w) <= Unanswered(w)' + one(w)
        /\ Unanswered(w) \in Nat /\ Unanswered(w)' \in Nat
    BY <1>3
  <2>5. AtRelay(w)' = AtRelay(w) /\ AtRelay(w) \in Nat /\ count'[w] <= count[w]
    BY <1>4, <1>6
  <2> HIDE DEF one
  <2> QED
    BY <2>1, <2>2, <2>3, <2>4, <2>5
<1> QED
  BY <1>5, <1>7 DEF CInv

LEMMA CReply ==
  ASSUME CInv, Learn \/ Deliver
  PROVE  CInv'
<1>1. /\ handler \in {"read", "learn", "write"} /\ handler' \in {"read", "learn", "write"}
      /\ UNCHANGED <<synthActive, alive, clients, drained, pendingConfigures, relay, request, asked,
                     count, old>>
  BY DEF Learn, Deliver, trackerVars, relayVars, appVars, Answered, LearnQueryExtensionReply
<1>2. CTyped' /\ Counted' /\ ToInject'
  BY <1>1 DEF CInv, CTyped, Counted, ToInject
<1>3. \A w : AtRelay(w)' = AtRelay(w) /\ Unanswered(w)' = Unanswered(w)
  BY <1>1 DEF AtRelay, Unanswered, ConfiguresIn
<1>4. Balanced'
  BY <1>1, <1>3 DEF CInv, Balanced
<1> QED
  BY <1>2, <1>4 DEF CInv

LEMMA CCrash ==
  ASSUME CInv, Crash
  PROVE  CInv'
<1>1. ~alive' /\ UNCHANGED <<handler, synthActive, drained, pendingConfigures, relay, count, old>>
  BY DEF Crash, trackerVars, relayVars, appVars
<1> QED
  BY <1>1 DEF CInv, CTyped, Counted, ToInject, Balanced

LEMMA CStep == IInv /\ CInv /\ [Next]_vars => CInv'
<1> SUFFICES ASSUME IInv, CInv, [Next]_vars PROVE CInv'
  OBVIOUS
<1>1. ASSUME NEW q \in Requests, Track(q) PROVE CInv'
  BY <1>1, CTrack
<1>2. CASE UNCHANGED vars
  <2>1. UNCHANGED <<handler, synthActive, alive, clients, drained, pendingConfigures, relay, request,
                    asked, count, old>>
    BY <1>2 DEF vars, handlerVars, trackerVars, relayVars, appVars
  <2> QED
    BY <2>1, CQuiet
<1> QED
  BY <1>1, <1>2, CLookup, CWrite, CFake, CHandler, CInject, CRead, CReply, CCrash DEF Next

\* Once the events are injected a window waits for no more than it waited for
\* when the synthesis began and the display has still to send
\* (synthesis.go:884-937).
THEOREM ConfiguresCoveredTheorem == Spec => []ConfiguresCovered
<1>1. IInv /\ CInv => ConfiguresCovered
  <2> SUFFICES ASSUME IInv, CInv, handler \in {"read", "learn", "write"}, alive, relay = "idle",
                      NEW w \in Windows
               PROVE  count[w] <= old[w] + Unanswered(w)
    BY DEF ConfiguresCovered
  <2>1. AtRelay(w) = 0 /\ Unanswered(w) \in Nat
    BY UnansweredType DEF IInv, AtRelay
  <2> QED
    BY <2>1 DEF CInv, CTyped, Balanced
<1>2. Init => IInv /\ CInv
  BY InitInv, CInit
<1>3. IInv /\ CInv /\ [Next]_vars => (IInv /\ CInv)'
  BY StepInv, CStep
<1> QED
  BY <1>1, <1>2, <1>3, PTL DEF Spec

\* Live traffic is blocked in the first two phases of a handler only, and the
\* state has its shape.
THEOREM TypeCorrect == Spec => []TypeOK
<1> DEFINE H == /\ handler \in {"none", "resume", "synth", "open", "inject", "read", "learn", "write"}
                /\ lost \in {"no", "wire", "unlearned", "race"}
<1>1. Init => H /\ IInv /\ CInv
  BY InitInv, CInit DEF Init
<1>2. H /\ IInv /\ CInv /\ [Next]_vars => (H /\ IInv /\ CInv)'
  <2> SUFFICES ASSUME H, [Next]_vars PROVE H'
    BY StepInv, CStep
  <2>1. CASE \E q \in Requests : Track(q)
    BY <2>1 DEF Track, handlerVars
  <2>2. CASE Lookup \/ Write \/ Fake
    BY <2>2 DEF Lookup, Write, Fake, handlerVars
  <2>3. CASE Connect \/ Reset \/ Open \/ Drain \/ Inject
    BY <2>3 DEF Connect, Reset, Open, Drain, Inject
  <2>4. CASE Read \/ Learn \/ Deliver \/ Leave
    BY <2>4 DEF Read, Learn, Deliver, Leave
  <2>5. CASE Crash
    BY <2>5 DEF Crash
  <2>6. CASE UNCHANGED vars
    BY <2>6 DEF vars, handlerVars
  <2> QED
    BY <2>1, <2>2, <2>3, <2>4, <2>5, <2>6 DEF Next
<1>3. H /\ IInv /\ CInv => TypeOK
  BY DEF IInv, Typed, CInv, CTyped, TypeOK, Nums, Opcodes
<1> HIDE DEF H
<1> QED
  BY <1>1, <1>2, <1>3, PTL DEF Spec
=============================================================================
