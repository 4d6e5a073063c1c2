------------------------------ MODULE SynthRelay ------------------------------
(***************************************************************************)
(* One X connection of proxxxy-client (internal/client/client.go): the      *)
(* main goroutine writes requests to the display, a relay goroutine reads   *)
(* what the display sends and passes it to the server.                      *)
(*                                                                         *)
(* On a synthesised connection the display has counted requests the         *)
(* application never made; synthRelay finds out how many with a barrier     *)
(* request and shifts every sequence number.  On a connection opened by the *)
(* application's own setup bytes relayXToServer passes numbers unchanged    *)
(* and hides GPU extensions.                                                *)
(*                                                                         *)
(* Numbers are modulo Modulus (2^16 in the protocol).  The goroutine that    *)
(* reads the socket into the channel msgs is one queue with the socket.     *)
(***************************************************************************)
EXTENDS Naturals, Sequences, SequencesExt

CONSTANTS
  Modulus,      \* number of sequence numbers
  AppSeq,      \* appSeqNum of MsgX11Setup
  Finals,      \* values SESSION_LIVE may give for the connection
  Modes,       \* subset of {"synth", "fresh"}: how it is opened
  Kinds,       \* kinds of requests the application makes
  MaxSynth,    \* bound: synthesised requests
  MaxLive,     \* bound: live requests
  MaxEvents    \* bound: events of the display

ASSUME ModulusAssumption == Modulus \in Nat /\ Modulus > 3
ASSUME NumbersAssumption == AppSeq \in Nat /\ Finals \subseteq Nat
ASSUME BoundsAssumption == {MaxSynth, MaxLive, MaxEvents} \subseteq Nat
ASSUME ModesAssumption == Modes \subseteq {"synth", "fresh"}

\* A request fails, is a query, asks for a GPU extension, draws segments
\* (its opcode is a setup request's first byte) or does none of these.
RequestKind == {"void", "query", "error", "gpu", "segment"}
ASSUME KindsAssumption == Kinds \subseteq RequestKind

VARIABLES
  run,         \* Run: "resume", "close" (barrier written, done open), "live"
  uncounted,   \* the request handleX11Data has written and not yet counted
  connSeq,     \* connSeqNums
  suppressed,  \* connSuppressed
  final,       \* synthFinalSeqNums
  xin,         \* requests the display has not executed
  xcount,      \* requests the display has executed
  xout,        \* messages of the display the relay has not read
  events,      \* number of events so far
  relay,       \* "drain", "barrier", "forward" (synthRelay), "direct"
  nSynth,      \* the display's number of the barrier
  taken,       \* the request whose reply gave nSynth (history)
  buffered,    \* bufferedEvents
  sent,        \* messages written to the server (history)
  asked        \* kinds of the live requests (history)

mainVars == <<run, uncounted, connSeq, suppressed, final, asked>>
displayVars == <<xcount, events>>
relayVars == <<relay, nSynth, taken, buffered, sent>>
vars == <<mainVars, xin, xout, displayVars, relayVars>>

\* n numbers the live requests; the others have n = 0.
Request == [from : {"synth", "barrier", "live"}, kind : RequestKind, n : Nat]
SynthRequest(k) == [from |-> "synth", kind |-> k, n |-> 0]
Barrier == [from |-> "barrier", kind |-> "query", n |-> 0]
LiveRequest(k) == [from |-> "live", kind |-> k, n |-> Len(asked) + 1]
NoRequest == [from |-> "none"]

\* of: the request a reply or error answers; hidden: rewritten to "not present".
Message == [kind : {"reply", "error", "focus", "event"}, seq : 0..(Modulus - 1),
            of : Request \cup {NoRequest}, hidden : BOOLEAN]
Msg(kind, of) == [kind |-> kind, seq |-> xcount' % Modulus, of |-> of, hidden |-> FALSE]

TypeOK ==
  /\ run \in {"resume", "close", "live"}
  /\ uncounted \in Request \cup {NoRequest}
  /\ connSeq \in Nat /\ suppressed \subseteq 0..(Modulus - 1) /\ final \in Nat
  /\ xin \in Seq(Request) /\ xout \in Seq(Message)
  /\ xcount \in Nat /\ events \in Nat
  /\ relay \in {"drain", "barrier", "forward", "direct"}
  /\ nSynth \in 0..(Modulus - 1)
  /\ taken \in Request \cup {NoRequest}
  /\ buffered \in Seq(Message) /\ sent \in Seq(Message)
  /\ asked \in Seq(RequestKind)

\* handleX11Setup has opened the connection and enabled big requests with two
\* requests; or handleX11Data has opened it with the application's setup.
Seeded == 2
Init ==
  /\ \E mode \in Modes :
       IF mode = "synth"
         THEN run = "resume" /\ relay = "drain" /\ connSeq = Seeded /\ final = AppSeq
         ELSE run = "live" /\ relay = "direct" /\ connSeq = 0 /\ final = 0
  /\ xcount = connSeq
  /\ uncounted = NoRequest /\ suppressed = {} /\ asked = <<>>
  /\ xin = <<>> /\ xout = <<>> /\ events = 0
  /\ nSynth = 0 /\ taken = NoRequest /\ buffered = <<>> /\ sent = <<>>

-----------------------------------------------------------------------------
(* The main goroutine *)

\* handleX11Data writes before it counts.  During synthesis a window may need
\* a colormap, created by a request of the client's own that is not counted.
WriteSynth ==
  /\ run = "resume" /\ uncounted = NoRequest
  /\ connSeq < Seeded + MaxSynth
  /\ \E k \in {"void", "error"}, colormap \in BOOLEAN :
       /\ xin' = xin \o (IF colormap THEN <<SynthRequest("void")>> ELSE <<>>)
                     \o <<SynthRequest(k)>>
       /\ uncounted' = SynthRequest(k)
  /\ UNCHANGED <<run, connSeq, suppressed, final, asked, xout, displayVars, relayVars>>

WriteLive ==
  /\ run = "live" /\ uncounted = NoRequest
  /\ Len(asked) < MaxLive
  /\ \E k \in Kinds :
       /\ xin' = Append(xin, LiveRequest(k))
       /\ uncounted' = LiveRequest(k)
       /\ asked' = Append(asked, k)
  /\ UNCHANGED <<run, connSeq, suppressed, final, xout, displayVars, relayVars>>

\* A request whose first byte is 0x42 or 0x6C passes for a setup request.
IsSetup(r) == r.kind = "segment"
NumberBefore(count) == count % Modulus  \* mutant: read before the increment
NumberOf(count) == (count + 1) % Modulus

\* The request is counted, and a query for a GPU extension is registered.
Count ==
  /\ uncounted # NoRequest
  /\ IF IsSetup(uncounted)
       THEN UNCHANGED <<connSeq, suppressed>>
       ELSE /\ connSeq' = connSeq + 1
            /\ suppressed' = suppressed \cup
                 (IF uncounted.kind = "gpu" THEN {NumberOf(connSeq)} ELSE {})
  /\ uncounted' = NoRequest
  /\ UNCHANGED <<run, final, asked, xin, xout, displayVars, relayVars>>

\* SESSION_LIVE: the final number is stored and the barrier written ...
ReceiveLive ==
  /\ run = "resume" /\ uncounted = NoRequest
  /\ final' \in Finals
  /\ xin' = Append(xin, Barrier)
  /\ run' = "close"
  /\ UNCHANGED <<uncounted, connSeq, suppressed, asked, xout, displayVars, relayVars>>

\* ... before done is closed.
CloseDone ==
  /\ run = "close"
  /\ run' = "live"
  /\ UNCHANGED <<uncounted, connSeq, suppressed, final, asked, xin, xout, displayVars, relayVars>>

-----------------------------------------------------------------------------
(* The display (external) *)

\* It executes requests in order and answers at once.
Execute ==
  /\ xin # <<>>
  /\ xin' = Tail(xin)
  /\ xcount' = xcount + 1
  /\ LET r == Head(xin) IN
       xout' = CASE r.kind \in {"query", "gpu"} -> Append(xout, Msg("reply", r))
                 [] r.kind = "error" -> Append(xout, Msg("error", r))
                 [] OTHER -> xout
  /\ UNCHANGED <<mainVars, events, relayVars>>

\* An event carries the number of the last request executed.
Notify ==
  /\ events < MaxEvents
  /\ events' = events + 1
  /\ UNCHANGED xcount
  /\ \E kind \in {"focus", "event"} : xout' = Append(xout, Msg(kind, NoRequest))
  /\ UNCHANGED <<mainVars, xin, relayVars>>

-----------------------------------------------------------------------------
(* The relay goroutine *)

Receive == xout # <<>> /\ xout' = Tail(xout)

\* synthShouldBuffer: only focus events survive the synthesis.
Buffer(m) ==
  buffered' = IF m.kind = "focus" THEN Append(buffered, m) ELSE buffered

\* Phase 1 drains until done is closed; select takes either when both are ready.
Drain ==
  /\ relay = "drain"
  /\ Receive /\ Buffer(Head(xout))
  /\ UNCHANGED <<mainVars, xin, displayVars, relay, nSynth, taken, sent>>

SeeDone ==
  /\ relay = "drain" /\ run = "live"
  /\ relay' = "barrier"
  /\ UNCHANGED <<mainVars, xin, xout, displayVars, nSynth, taken, buffered, sent>>

\* Phase 2 drains until a reply.
DrainToBarrier ==
  /\ relay = "barrier"
  /\ Receive /\ Head(xout).kind # "reply" /\ Buffer(Head(xout))
  /\ UNCHANGED <<mainVars, xin, displayVars, relay, nSynth, taken, sent>>

\* seqOffset is the final number less nSynth: final + (seq - nSynth).
StaleShift(seq) == (AppSeq + seq + Modulus - nSynth) % Modulus  \* mutant
Shifted(seq) == (final + seq + Modulus - nSynth) % Modulus
ShiftedStamp(m) == (final + m.seq + Modulus - nSynth') % Modulus  \* mutant
Stamp(m) == final % Modulus

\* The barrier's reply is consumed and the buffered events are replayed with
\* the final number.
TakeBarrier ==
  /\ relay = "barrier"
  /\ Receive /\ Head(xout).kind = "reply"
  /\ nSynth' = Head(xout).seq /\ taken' = Head(xout).of
  /\ sent' = sent \o [i \in 1..Len(buffered) |-> [buffered[i] EXCEPT !.seq = Stamp(buffered[i])]]
  /\ buffered' = <<>>
  /\ relay' = "forward"
  /\ UNCHANGED <<mainVars, xin, displayVars>>

\* An error numbered up to the barrier is taken for a late synthesis error.
LateByFinal(m) == m.kind = "error" /\ m.seq <= final  \* mutant
Late(m) == m.kind = "error" /\ m.seq <= nSynth

\* Phase 3 forwards with the numbers shifted.
Forward ==
  /\ relay = "forward"
  /\ Receive
  /\ LET m == Head(xout) IN
       sent' = IF Late(m) THEN sent ELSE Append(sent, [m EXCEPT !.seq = Shifted(m.seq)])
  /\ UNCHANGED <<mainVars, xin, displayVars, relay, nSynth, taken, buffered>>

\* relayXToServer: the reply to a registered query is rewritten.
RelayDirect ==
  /\ relay = "direct"
  /\ Receive
  /\ LET m == Head(xout)
         hide == m.kind = "reply" /\ m.seq \in suppressed
     IN /\ sent' = Append(sent, [m EXCEPT !.hidden = hide])
        /\ suppressed' = IF hide THEN suppressed \ {m.seq} ELSE suppressed
  /\ UNCHANGED <<run, uncounted, connSeq, final, asked, xin, displayVars, relay, nSynth, taken,
                 buffered>>

Main == WriteSynth \/ WriteLive \/ Count \/ ReceiveLive \/ CloseDone
Relay == Drain \/ SeeDone \/ DrainToBarrier \/ TakeBarrier \/ Forward \/ RelayDirect
Next == Main \/ Execute \/ Notify \/ Relay

Spec == Init /\ [][Next]_vars

\* The goroutines run when they can and the display executes what it is sent;
\* nothing makes the application send.
FairSpec ==
  Spec /\ WF_vars(Count) /\ WF_vars(CloseDone) /\ WF_vars(Execute) /\ WF_vars(Relay)

-----------------------------------------------------------------------------
(* Properties *)

\* The reply that gives nSynth is the barrier's, however the display's answer
\* races the closing of done (client.go:459-464, 1092-1096).
BarrierTaken == relay = "forward" => taken = Barrier

\* Replies and errors reach the application for its own requests only, with
\* the number the application gave them; none of the synthesis or the barrier
\* leaks (client.go:1117-1130, 1150-1164).
NumbersExact ==
  taken = Barrier \/ relay = "direct" =>
    \A i \in 1..Len(sent) : sent[i].kind \in {"reply", "error"} =>
      /\ sent[i].of.from = "live"
      /\ sent[i].seq = (final + sent[i].of.n) % Modulus

\* Numbers are exact, and stay in 16 bits (client.go:1117-1130).
NumbersOK == TypeOK /\ NumbersExact

\* How far a number is beyond the final number of SESSION_LIVE.
Beyond(seq) == (seq + Modulus - (final % Modulus)) % Modulus

\* The numbers the application sees, replayed events included, never decrease,
\* never fall behind SESSION_LIVE and never run ahead of the application, even
\* when the barrier was missed (client.go:1173-1180).
NeverBackwards ==
  \A j \in 1..Len(sent) :
    /\ Beyond(sent[j].seq) <= Len(asked)
    /\ \A i \in 1..j : Beyond(sent[i].seq) <= Beyond(sent[j].seq)

\* The n-th request, or one before it, was taken for a setup request, so that
\* the client's count is behind the display's.
Misnumbered(n) == \E i \in 1..Len(asked) : i <= n /\ asked[i] = "segment"

\* Only replies about GPU extensions are rewritten, although requests are
\* counted after they are written; but for the replies to what follows a
\* request taken for a setup (client.go:376-381, 806-838, 1243-1260).
OnlyGpuRewritten ==
  \A i \in 1..Len(sent) :
    sent[i].hidden => sent[i].of.kind = "gpu" \/ Misnumbered(sent[i].of.n)

\* Phase 1 has drained the barrier's reply.
BarrierMissed ==
  /\ run # "resume" /\ relay # "direct" /\ taken # Barrier
  /\ Barrier \notin ToSet(xin) \cup {xout[i].of : i \in 1..Len(xout)}

\* Unless the barrier's reply is missed, every live request that has an answer
\* gets it: none is drained, and no error is taken for a late one
\* (client.go:1069-1071, 1150-1160).
LiveAnswered ==
  []~BarrierMissed =>
    \A n \in 1..MaxLive :
      (n <= Len(asked) /\ asked[n] \in {"query", "error", "gpu"})
        ~> \E i \in 1..Len(sent) : sent[i].of.from = "live" /\ sent[i].of.n = n
=============================================================================
