-------------------------- MODULE SynthRelayProofs --------------------------
(***************************************************************************)
(* NumbersOK, NeverBackwards and OnlyGpuRewritten for every modulus and    *)
(* any number of requests and events.                                      *)
(*                                                                         *)
(* Everything is said in numbers that do not wrap.  BarrierNo is the       *)
(* number the display gives the barrier (0 on a fresh connection); a       *)
(* request's place in xin says what it is (QueueOK), and a message's       *)
(* number which request it answers (AnswersOK).  From the first reply on,  *)
(* the display's messages concern live requests only (AfterBarrier), which *)
(* is what makes any reply, the barrier's or a later one, a place to count *)
(* from.                                                                   *)
(***************************************************************************)
EXTENDS SynthRelay, Integers, SequenceTheorems, TLAPS

BarrierNo == xcount + Len(xin) - Len(asked)

\* What the goroutines can have done in each phase.
PhasesOK ==
  /\ Len(asked) <= xcount + Len(xin)
  /\ Len(asked) <= MaxLive
  /\ run # "live" => asked = <<>>
  /\ relay \in {"drain", "barrier"} => sent = <<>> /\ taken = NoRequest
  /\ relay \in {"barrier", "forward", "direct"} => run = "live"
  /\ relay = "direct" => BarrierNo = 0 /\ final = 0 /\ nSynth = 0
  /\ taken = Barrier => nSynth = BarrierNo % Modulus

QueueOK ==
  \A i \in 1..Len(xin) :
    \/ /\ xin[i].from = "synth" /\ xin[i].kind \in {"void", "error"}
       /\ xcount + i <= BarrierNo /\ (run # "resume" => xcount + i < BarrierNo)
    \/ /\ xin[i] = Barrier /\ xcount + i = BarrierNo /\ run # "resume"
    \/ /\ xin[i].from = "live" /\ xcount + i = BarrierNo + xin[i].n
       /\ xin[i].n \in 1..Len(asked) /\ xin[i].kind = asked[xin[i].n]

\* A message answers the request its number says.
AnswerOK(m) ==
  \/ m.kind \in {"focus", "event"} /\ m.of = NoRequest
  \/ m.kind = "error" /\ m.of \in Request /\ m.of.from = "synth"
  \/ m.kind = "reply" /\ m.of = Barrier /\ m.seq = BarrierNo % Modulus
  \/ /\ m.kind \in {"reply", "error"}
     /\ m.of \in Request /\ m.of.from = "live"
     /\ m.of.n \in 1..Len(asked) /\ m.of.kind = asked[m.of.n]
     /\ m.seq = (BarrierNo + m.of.n) % Modulus
AnswersOK == \A i \in 1..Len(xout) : AnswerOK(xout[i]) /\ xout[i].hidden = FALSE

\* A message of the display that is the barrier's or a live request's answer, and
\* what follows it.
Past == relay \in {"forward", "direct"}
Opens(m) == m.of.from \in {"barrier", "live"}
AfterOnly(m) == m.of.from \in {"live", "none"}

AfterBarrier ==
  /\ Past => BarrierNo <= xcount /\ \A i \in 1..Len(xout) : AfterOnly(xout[i])
  /\ \A k \in 1..Len(xout) : Opens(xout[k]) =>
       /\ run # "resume" /\ BarrierNo <= xcount
       /\ \A i \in 1..Len(xout) : i > k => AfterOnly(xout[i])

Inv == TypeOK /\ PhasesOK /\ QueueOK /\ AnswersOK /\ AfterBarrier

\* Only events of focus are kept for the replay.
BufferedOK == \A i \in 1..Len(buffered) : buffered[i].kind = "focus" /\ buffered[i].hidden = FALSE
NumInv == Inv /\ BufferedOK /\ NumbersExact

\* How far the number b is beyond the number a; a number of the display beyond the
\* barrier's; a number of the application beyond the final number.
Dist(a, b) == (b + Modulus - a) % Modulus
Off(seq) == Dist(BarrierNo % Modulus, seq)
Ahead(seq) == Dist(final % Modulus, seq)

Ordered ==
  \A k \in 1..Len(xout) : Past \/ Opens(xout[k]) =>
    \A i \in k..Len(xout) :
      /\ Off(xout[i].seq) <= xcount - BarrierNo
      /\ \A j \in i..Len(xout) : Off(xout[i].seq) <= Off(xout[j].seq)

Counted ==
  Past =>
    /\ Off(nSynth) <= xcount - BarrierNo
    /\ \A i \in 1..Len(xout) : Off(nSynth) <= Off(xout[i].seq)
    /\ \A j \in 1..Len(sent) :
         /\ Ahead(sent[j].seq) + Off(nSynth) <= xcount - BarrierNo
         /\ \A i \in 1..Len(xout) : Ahead(sent[j].seq) + Off(nSynth) <= Off(xout[i].seq)

Increasing == \A j \in 1..Len(sent) : \A i \in 1..j : Ahead(sent[i].seq) <= Ahead(sent[j].seq)

OrderInv == Ordered /\ Counted /\ Increasing

\* On a fresh connection requests are counted as the display counts them, until
\* one is taken for a setup.
CountOK ==
  relay = "direct" =>
    /\ uncounted = NoRequest =>
         /\ connSeq <= Len(asked)
         /\ connSeq = Len(asked) \/ Misnumbered(connSeq + 1)
    /\ uncounted # NoRequest =>
         /\ connSeq + 1 <= Len(asked)
         /\ uncounted.kind = asked[Len(asked)]
         /\ connSeq + 1 = Len(asked) \/ Misnumbered(connSeq + 1)
    /\ \A s \in suppressed : \E n \in 1..Len(asked) :
         s = n % Modulus /\ (asked[n] = "gpu" \/ Misnumbered(n))

GpuInv == CountOK /\ OnlyGpuRewritten

-----------------------------------------------------------------------------
(* Arithmetic modulo Modulus *)

\* Numbers wrap into 0..Modulus-1.
LEMMA ModRange == ASSUME NEW a \in Nat PROVE (a % Modulus) \in 0..(Modulus - 1)
BY ModulusAssumption

\* Division with remainder.
LEMMA ModDiv == ASSUME NEW a \in Nat PROVE \E q \in Nat : a = (Modulus * q) + (a % Modulus)
<1>1. (a \div Modulus) \in Nat BY ModulusAssumption
<1>2. a = (Modulus * (a \div Modulus)) + (a % Modulus) BY ModulusAssumption
<1> QED BY <1>1, <1>2

\* The remainder is unique.
LEMMA ModUnique ==
  ASSUME NEW q \in Nat, NEW r \in 0..(Modulus - 1)
  PROVE  ((Modulus * q) + r) % Modulus = r
BY ModulusAssumption

\* A number that wraps at most once.
LEMMA ModSmall ==
  ASSUME NEW a \in 0..(2 * Modulus - 1)
  PROVE  a % Modulus = IF a < Modulus THEN a ELSE a - Modulus
<1>1. CASE a < Modulus
  <2>1. a = (Modulus * 0) + a BY ModulusAssumption
  <2> QED BY <1>1, <2>1, ModUnique, ModulusAssumption
<1>2. CASE a >= Modulus
  <2>1. a = (Modulus * 1) + (a - Modulus) /\ a - Modulus \in 0..(Modulus - 1)
    BY <1>2, ModulusAssumption
  <2> QED BY <1>2, <2>1, ModUnique, ModulusAssumption
<1> QED BY <1>1, <1>2, ModulusAssumption

\* A wrapped number may be counted from as the number itself.
LEMMA ModShift ==
  ASSUME NEW a \in Nat, NEW b \in Nat
  PROVE  ((a % Modulus) + b) % Modulus = (a + b) % Modulus
<1>1. PICK q \in Nat : a = (Modulus * q) + (a % Modulus) BY ModDiv
<1> DEFINE c == (a % Modulus) + b
<1>2. c \in Nat BY ModulusAssumption, ModRange
<1>3. PICK p \in Nat : c = (Modulus * p) + (c % Modulus) BY ModDiv, <1>2
<1>4. (c % Modulus) \in 0..(Modulus - 1) BY ModRange, <1>2
<1> DEFINE r == c % Modulus
<1>5. q + p \in Nat OBVIOUS
<1> HIDE DEF r
<1>6. Modulus * (q + p) = (Modulus * q) + (Modulus * p) BY ModulusAssumption
<1>7. a + b = (Modulus * (q + p)) + r
  BY <1>1, <1>3, <1>4, <1>6, ModulusAssumption, ModRange DEF r
<1>8. ((Modulus * (q + p)) + r) % Modulus = r BY <1>4, <1>5, ModUnique DEF r
<1> QED BY <1>7, <1>8 DEF r

\* From a number to the one k after it there are k, modulo Modulus.
LEMMA DistPlus ==
  ASSUME NEW b \in Nat, NEW k \in Nat
  PROVE  Dist(b % Modulus, (b + k) % Modulus) = k % Modulus
<1> DEFINE beta == b % Modulus
           m == k % Modulus
<1>1. beta \in 0..(Modulus - 1) /\ m \in 0..(Modulus - 1) BY ModRange
<1>2. (b + k) % Modulus = (m + b) % Modulus
  BY ModShift, k + b = b + k
<1>3. (m + b) % Modulus = (beta + m) % Modulus
  BY <1>1, ModShift, b + m = m + b, ModulusAssumption
<1> HIDE DEF beta, m
<1>4. (beta + m) % Modulus = IF beta + m < Modulus THEN beta + m ELSE beta + m - Modulus
  BY <1>1, ModSmall, ModulusAssumption
<1> DEFINE e == (beta + m) % Modulus
<1>5. e + Modulus - beta \in {m, m + Modulus}
  BY <1>1, <1>4, ModulusAssumption
<1>6. m % Modulus = m /\ (m + Modulus) % Modulus = m
  BY <1>1, ModSmall, ModulusAssumption
<1>7. (e + Modulus - beta) % Modulus = m
  BY <1>5, <1>6
<1> QED BY <1>2, <1>3, <1>7 DEF Dist, beta, m

\* Distances are differences of distances from a common number.
LEMMA DistDiff ==
  ASSUME NEW c \in 0..(Modulus - 1), NEW a \in 0..(Modulus - 1), NEW b \in 0..(Modulus - 1),
         Dist(c, a) <= Dist(c, b)
  PROVE  Dist(a, b) = Dist(c, b) - Dist(c, a)
<1>1. a + Modulus - c \in 0..(2 * Modulus - 1) BY ModulusAssumption
<1>2. b + Modulus - c \in 0..(2 * Modulus - 1) BY ModulusAssumption
<1>3. b + Modulus - a \in 0..(2 * Modulus - 1) BY ModulusAssumption
<1>4. Dist(c, a) = IF a < c THEN a + Modulus - c ELSE a - c
  BY <1>1, ModSmall, ModulusAssumption DEF Dist
<1>5. Dist(c, b) = IF b < c THEN b + Modulus - c ELSE b - c
  BY <1>2, ModSmall, ModulusAssumption DEF Dist
<1>6. Dist(a, b) = IF b < a THEN b + Modulus - a ELSE b - a
  BY <1>3, ModSmall, ModulusAssumption DEF Dist
<1> QED BY <1>4, <1>5, <1>6, ModulusAssumption

\* A distance is a number.
LEMMA DistRange ==
  ASSUME NEW a \in 0..(Modulus - 1), NEW b \in 0..(Modulus - 1)
  PROVE  Dist(a, b) \in 0..(Modulus - 1)
BY ModRange, ModulusAssumption, b + Modulus - a \in Nat DEF Dist

\* A shifted number is as far beyond the final number as it was beyond nSynth.
LEMMA ShiftedIs ==
  ASSUME final \in Nat, nSynth \in 0..(Modulus - 1), NEW seq \in 0..(Modulus - 1)
  PROVE  /\ Shifted(seq) = (final + Dist(nSynth, seq)) % Modulus
         /\ Beyond(Shifted(seq)) = Dist(nSynth, seq)
<1> DEFINE a == seq + Modulus - nSynth
<1>1. a \in Nat BY ModulusAssumption
<1>2. ((a % Modulus) + final) % Modulus = (a + final) % Modulus
  BY <1>1, ModShift
<1>3. a + final = final + seq + Modulus - nSynth BY ModulusAssumption
<1>4. Dist(nSynth, seq) \in 0..(Modulus - 1) BY DistRange
<1>5. (final + Dist(nSynth, seq)) % Modulus = ((a % Modulus) + final) % Modulus
  BY <1>4, ModulusAssumption, (a % Modulus) + final = final + (a % Modulus) DEF Dist
<1>6. Shifted(seq) = (final + Dist(nSynth, seq)) % Modulus
  BY <1>2, <1>3, <1>5 DEF Shifted
<1> DEFINE d == Dist(nSynth, seq)
<1>7. d \in Nat /\ d % Modulus = d
  BY <1>4, ModSmall, ModulusAssumption
<1>8. Dist(final % Modulus, (final + d) % Modulus) = d
  <2> HIDE DEF d
  <2> QED BY <1>7, DistPlus
<1>9. Beyond(Shifted(seq)) = Dist(final % Modulus, Shifted(seq))
  BY DEF Beyond, Dist
<1> QED BY <1>6, <1>8, <1>9

-----------------------------------------------------------------------------
(* Types *)

\* A message of the display is a Message.
LEMMA MsgType ==
  ASSUME xcount' \in Nat, NEW kind \in {"reply", "error", "focus", "event"},
         NEW of \in Request \cup {NoRequest}
  PROVE  Msg(kind, of) \in Message
BY ModRange DEF Msg, Message

\* The relay takes the first message of the display.
LEMMA Received ==
  ASSUME TypeOK, Receive
  PROVE  /\ Len(xout) >= 1 /\ Head(xout) = xout[1] /\ Head(xout) \in Message
         /\ xout' \in Seq(Message) /\ Len(xout') = Len(xout) - 1
         /\ \A i \in 1..Len(xout') : xout'[i] = xout[i + 1]
BY HeadTailProperties DEF TypeOK, Receive

LEMMA TypeStep == TypeOK /\ [Next]_vars => TypeOK'
<1> SUFFICES ASSUME TypeOK, [Next]_vars PROVE TypeOK'
  OBVIOUS
<1> USE DEF mainVars, displayVars, relayVars
<1>1. CASE WriteSynth
  <2> PICK k \in {"void", "error"}, colormap \in BOOLEAN :
        /\ xin' = xin \o (IF colormap THEN <<SynthRequest("void")>> ELSE <<>>)
                      \o <<SynthRequest(k)>>
        /\ uncounted' = SynthRequest(k)
    BY <1>1 DEF WriteSynth
  <2>1. SynthRequest(k) \in Request /\ SynthRequest("void") \in Request
    BY DEF SynthRequest, Request, RequestKind
  <2>2. (IF colormap THEN <<SynthRequest("void")>> ELSE <<>>) \in Seq(Request) BY <2>1
  <2>3. xin' \in Seq(Request) BY <2>1, <2>2 DEF TypeOK
  <2> QED BY <1>1, <2>1, <2>3 DEF WriteSynth, TypeOK
<1>2. CASE WriteLive
  <2> PICK k \in Kinds :
        /\ xin' = Append(xin, LiveRequest(k))
        /\ uncounted' = LiveRequest(k)
        /\ asked' = Append(asked, k)
    BY <1>2 DEF WriteLive
  <2>1. LiveRequest(k) \in Request
    BY KindsAssumption DEF LiveRequest, Request, TypeOK
  <2> QED BY <1>2, <2>1, KindsAssumption DEF WriteLive, TypeOK
<1>3. CASE Count
  <2>1. connSeq \in Nat /\ connSeq + 1 \in Nat BY DEF TypeOK
  <2>2. NumberOf(connSeq) \in 0..(Modulus - 1) BY <2>1, ModRange DEF NumberOf
  <2>3. connSeq' \in Nat /\ suppressed' \subseteq 0..(Modulus - 1)
    <3>1. CASE IsSetup(uncounted) BY <1>3, <3>1 DEF Count, TypeOK
    <3>2. CASE ~IsSetup(uncounted)
      <4>1. suppressed' \subseteq suppressed \cup {NumberOf(connSeq)} BY <1>3, <3>2 DEF Count
      <4> QED BY <1>3, <2>1, <2>2, <3>2, <4>1 DEF Count, TypeOK
    <3> QED BY <3>1, <3>2
  <2> QED BY <1>3, <2>3 DEF Count, TypeOK
<1>4. CASE ReceiveLive
  <2>1. Barrier \in Request BY DEF Barrier, Request, RequestKind
  <2> QED BY <1>4, <2>1, NumbersAssumption DEF ReceiveLive, TypeOK
<1>5. CASE CloseDone
  BY <1>5 DEF CloseDone, TypeOK
<1>6. CASE Execute
  <2>1. xcount' \in Nat BY <1>6 DEF Execute, TypeOK
  <2>2. Head(xin) \in Request /\ xin' \in Seq(Request)
    BY <1>6, HeadTailProperties DEF Execute, TypeOK
  <2>3. Msg("reply", Head(xin)) \in Message /\ Msg("error", Head(xin)) \in Message
    BY <2>1, <2>2, MsgType
  <2>4. xout' \in Seq(Message)
    <3> DEFINE a == Msg("reply", Head(xin))
               b == Msg("error", Head(xin))
    <3>1. xout' \in {Append(xout, a), Append(xout, b), xout} BY <1>6 DEF Execute
    <3>2. xout \in Seq(Message) BY DEF TypeOK
    <3> HIDE DEF a, b
    <3>3. a \in Message /\ b \in Message BY <2>3 DEF a, b
    <3> QED BY <3>1, <3>2, <3>3, AppendProperties
  <2> QED BY <1>6, <2>1, <2>2, <2>4 DEF Execute, TypeOK
<1>7. CASE Notify
  <2> PICK kind \in {"focus", "event"} : xout' = Append(xout, Msg(kind, NoRequest))
    BY <1>7 DEF Notify
  <2>1. Msg(kind, NoRequest) \in Message BY <1>7, MsgType DEF Notify, TypeOK
  <2>2. xout' \in Seq(Message) BY <2>1, AppendProperties DEF TypeOK
  <2> QED BY <1>7, <2>2 DEF Notify, TypeOK
<1>8. CASE Drain \/ DrainToBarrier
  <2>1. buffered' \in Seq(Message)
    <3>1. Head(xout) \in Message /\ buffered \in Seq(Message)
      BY <1>8, Received DEF Drain, DrainToBarrier, TypeOK
    <3>2. buffered' \in {Append(buffered, Head(xout)), buffered}
      BY <1>8 DEF Drain, DrainToBarrier, Buffer
    <3> QED BY <3>1, <3>2, AppendProperties
  <2>2. xout' \in Seq(Message) BY <1>8, Received DEF Drain, DrainToBarrier
  <2> QED BY <1>8, <2>1, <2>2 DEF Drain, DrainToBarrier, TypeOK
<1>9. CASE SeeDone
  BY <1>9 DEF SeeDone, TypeOK
<1>10. CASE TakeBarrier
  <2>1. xout' \in Seq(Message) /\ Head(xout) \in Message BY <1>10, Received DEF TakeBarrier
  <2> DEFINE replay == [i \in 1..Len(buffered) |-> [buffered[i] EXCEPT !.seq = Stamp(buffered[i])]]
  <2>2. replay \in Seq(Message)
    <3>1. ASSUME NEW i \in 1..Len(buffered)
          PROVE  [buffered[i] EXCEPT !.seq = Stamp(buffered[i])] \in Message
      <4>1. buffered[i] \in Message BY DEF TypeOK
      <4>2. Stamp(buffered[i]) \in 0..(Modulus - 1) BY ModRange DEF Stamp, TypeOK
      <4> QED BY <4>1, <4>2 DEF Message
    <3>2. Len(buffered) \in Nat BY DEF TypeOK
    <3> QED BY <3>1, <3>2
  <2>3. sent' = sent \o replay BY <1>10 DEF TakeBarrier
  <2>4. sent' \in Seq(Message)
    <3>1. sent \in Seq(Message) BY DEF TypeOK
    <3> HIDE DEF replay
    <3> QED BY <2>2, <2>3, <3>1, ConcatProperties
  <2>5. nSynth' \in 0..(Modulus - 1) /\ taken' \in Request \cup {NoRequest}
    BY <1>10, <2>1 DEF TakeBarrier, Message
  <2>6. /\ buffered' = <<>> /\ relay' = "forward"
        /\ UNCHANGED <<mainVars, xin, displayVars>>
    BY <1>10 DEF TakeBarrier
  <2> HIDE DEF replay
  <2> QED BY <2>1, <2>4, <2>5, <2>6 DEF TypeOK
<1>11. CASE Forward
  <2>1. xout' \in Seq(Message) /\ Head(xout) \in Message BY <1>11, Received DEF Forward
  <2>2. final + Head(xout).seq + Modulus - nSynth \in Nat
    BY <2>1, ModulusAssumption DEF TypeOK, Message
  <2>3. Shifted(Head(xout).seq) \in 0..(Modulus - 1) BY <2>2, ModRange DEF Shifted
  <2>4. [Head(xout) EXCEPT !.seq = Shifted(Head(xout).seq)] \in Message
    BY <2>1, <2>3 DEF Message
  <2>5. sent' \in Seq(Message) BY <1>11, <2>4 DEF Forward, TypeOK
  <2> QED BY <1>11, <2>1, <2>5 DEF Forward, TypeOK
<1>12. CASE RelayDirect
  <2>1. xout' \in Seq(Message) /\ Head(xout) \in Message BY <1>12, Received DEF RelayDirect
  <2> DEFINE hide == Head(xout).kind = "reply" /\ Head(xout).seq \in suppressed
  <2>2. [Head(xout) EXCEPT !.hidden = hide] \in Message BY <2>1 DEF Message
  <2>3. sent' \in Seq(Message) BY <1>12, <2>2 DEF RelayDirect, TypeOK
  <2> QED BY <1>12, <2>1, <2>3 DEF RelayDirect, TypeOK
<1>13. CASE UNCHANGED vars
  BY <1>13 DEF vars, TypeOK
<1> QED
  BY <1>1, <1>2, <1>3, <1>4, <1>5, <1>6, <1>7, <1>8, <1>9, <1>10, <1>11, <1>12, <1>13
  DEF Next, Main, Relay

-----------------------------------------------------------------------------
(* The invariant: the relay goroutine *)

\* The barrier has a number.
LEMMA BarrierNat == ASSUME TypeOK, PhasesOK PROVE BarrierNo \in Nat
BY DEF TypeOK, PhasesOK, BarrierNo

\* What is received is no longer there; the rest is as it was.
LEMMA ReceiveKeeps ==
  ASSUME Inv, Receive, UNCHANGED <<run, asked, xin, xcount>>,
         Past' => Past \/ Opens(xout[1])
  PROVE  BarrierNo' = BarrierNo /\ QueueOK' /\ AnswersOK' /\ AfterBarrier'
<1>1. /\ Len(xout) >= 1 /\ Len(xout') = Len(xout) - 1 /\ Len(xout) \in Nat
      /\ \A i \in 1..Len(xout') : xout'[i] = xout[i + 1]
  BY Received DEF Inv, TypeOK
<1>2. BarrierNo' = BarrierNo BY DEF BarrierNo
<1>3. QueueOK' BY <1>2 DEF Inv, QueueOK
<1>4. AnswersOK' BY <1>1, <1>2 DEF Inv, AnswersOK, AnswerOK
<1>5. ASSUME NEW i \in 1..Len(xout')
      PROVE  i + 1 \in 1..Len(xout) /\ xout'[i] = xout[i + 1]
  BY <1>1
<1>8. AfterBarrier' <=>
        /\ Past' => BarrierNo' <= xcount' /\ \A i \in 1..Len(xout') : AfterOnly(xout'[i])
        /\ \A k \in 1..Len(xout') : Opens(xout'[k]) =>
             /\ run' # "resume" /\ BarrierNo' <= xcount'
             /\ \A i \in 1..Len(xout') : i > k => AfterOnly(xout'[i])
  BY DEF AfterBarrier, AfterOnly, Opens
<1>6. CASE Past
  <2>1. BarrierNo <= xcount /\ \A i \in 1..Len(xout) : AfterOnly(xout[i])
    BY <1>6 DEF Inv, AfterBarrier
  <2>2. run # "resume" BY <1>6 DEF Inv, PhasesOK, Past
  <2> QED BY <1>2, <1>3, <1>4, <1>5, <1>8, <2>1, <2>2
<1>7. CASE ~Past
  <2>1. ASSUME NEW k \in 1..Len(xout), Opens(xout[k])
        PROVE  /\ run' # "resume" /\ BarrierNo' <= xcount'
               /\ \A i \in 1..Len(xout') : i + 1 > k => AfterOnly(xout'[i])
    BY <1>2, <1>5, <2>1 DEF Inv, AfterBarrier
  <2>2. Past' => BarrierNo' <= xcount' /\ \A i \in 1..Len(xout') : AfterOnly(xout'[i])
    <3> SUFFICES ASSUME Past' PROVE BarrierNo' <= xcount' /\ \A i \in 1..Len(xout') : AfterOnly(xout'[i])
      OBVIOUS
    <3>1. Opens(xout[1]) /\ 1 \in 1..Len(xout) BY <1>1, <1>7
    <3>2. \A i \in 1..Len(xout') : i + 1 > 1 OBVIOUS
    <3> QED BY <2>1, <3>1, <3>2
  <2>3. ASSUME NEW k \in 1..Len(xout'), Opens(xout'[k])
        PROVE  /\ run' # "resume" /\ BarrierNo' <= xcount'
               /\ \A i \in 1..Len(xout') : i > k => AfterOnly(xout'[i])
    <3>1. k + 1 \in 1..Len(xout) /\ Opens(xout[k + 1]) BY <1>5, <2>3
    <3>2. \A i \in 1..Len(xout') : i > k => i + 1 > k + 1 OBVIOUS
    <3> QED BY <2>1, <3>1, <3>2
  <2> QED BY <1>2, <1>3, <1>4, <1>8, <2>2, <2>3
<1> QED BY <1>2, <1>3, <1>4, <1>6, <1>7

LEMMA InvRelay == ASSUME Inv, Relay PROVE PhasesOK' /\ QueueOK' /\ AnswersOK' /\ AfterBarrier'
<1>1. CASE Drain \/ DrainToBarrier
  <2>1. BarrierNo' = BarrierNo /\ QueueOK' /\ AnswersOK' /\ AfterBarrier'
    BY <1>1, ReceiveKeeps DEF Drain, DrainToBarrier, Past, mainVars, displayVars
  <2>2. PhasesOK'
    BY <1>1, <2>1 DEF Drain, DrainToBarrier, Inv, PhasesOK, mainVars, displayVars
  <2> QED BY <2>1, <2>2
<1>2. CASE SeeDone
  <2>1. BarrierNo' = BarrierNo /\ QueueOK' /\ AnswersOK' /\ AfterBarrier'
    BY <1>2 DEF SeeDone, mainVars, displayVars, Inv, BarrierNo, QueueOK, AnswersOK, AnswerOK,
                AfterBarrier, Past
  <2>2. PhasesOK' BY <1>2, <2>1 DEF SeeDone, Inv, PhasesOK, mainVars, displayVars
  <2> QED BY <2>1, <2>2
<1>3. CASE TakeBarrier
  <2>1. Len(xout) >= 1 /\ Head(xout) = xout[1] /\ Head(xout).kind = "reply"
    BY <1>3, Received DEF TakeBarrier, Inv
  <2>2. AnswerOK(xout[1]) BY <2>1 DEF Inv, AnswersOK, TypeOK
  <2>3. Opens(xout[1]) BY <2>1, <2>2 DEF AnswerOK, Opens, Barrier
  <2>4. BarrierNo' = BarrierNo /\ QueueOK' /\ AnswersOK' /\ AfterBarrier'
    BY <1>3, <2>3, ReceiveKeeps DEF TakeBarrier, mainVars, displayVars
  <2>5. taken' = Barrier => nSynth' = BarrierNo % Modulus
    BY <1>3, <2>1, <2>2 DEF TakeBarrier, AnswerOK, Barrier
  <2>6. PhasesOK'
    BY <1>3, <2>4, <2>5 DEF TakeBarrier, Inv, PhasesOK, mainVars, displayVars
  <2> QED BY <2>4, <2>6
<1>4. CASE Forward
  <2>1. BarrierNo' = BarrierNo /\ QueueOK' /\ AnswersOK' /\ AfterBarrier'
    BY <1>4, ReceiveKeeps DEF Forward, Past, mainVars, displayVars
  <2>2. PhasesOK' BY <1>4, <2>1 DEF Forward, Inv, PhasesOK, mainVars, displayVars
  <2> QED BY <2>1, <2>2
<1>5. CASE RelayDirect
  <2>1. BarrierNo' = BarrierNo /\ QueueOK' /\ AnswersOK' /\ AfterBarrier'
    BY <1>5, ReceiveKeeps DEF RelayDirect, Past, displayVars
  <2>2. PhasesOK' BY <1>5, <2>1 DEF RelayDirect, Inv, PhasesOK, displayVars
  <2> QED BY <2>1, <2>2
<1> QED BY <1>1, <1>2, <1>3, <1>4, <1>5 DEF Relay

-----------------------------------------------------------------------------
(* The invariant: the main goroutine and the display *)

\* While the synthesis runs no message answers the barrier or a live request.
LEMMA SynthOnly ==
  ASSUME Inv, run = "resume"
  PROVE  /\ relay = "drain" /\ asked = <<>> /\ BarrierNo = xcount + Len(xin)
         /\ \A i \in 1..Len(xout) : ~Opens(xout[i])
         /\ \A i \in 1..Len(xout) :
              \/ xout[i].kind \in {"focus", "event"} /\ xout[i].of = NoRequest
              \/ xout[i].kind = "error" /\ xout[i].of \in Request /\ xout[i].of.from = "synth"
         /\ \A i \in 1..Len(xin) : xin[i].from = "synth" /\ xin[i].kind \in {"void", "error"}
<1>1. relay = "drain" /\ asked = <<>> BY DEF Inv, PhasesOK, TypeOK
<1>2. BarrierNo = xcount + Len(xin) BY <1>1 DEF BarrierNo, Inv, TypeOK
<1>4. \A i \in 1..Len(xout) : ~Opens(xout[i]) BY DEF Inv, AfterBarrier
<1>5. ASSUME NEW i \in 1..Len(xin)
      PROVE  xin[i].from = "synth" /\ xin[i].kind \in {"void", "error"}
  BY <1>1 DEF Inv, QueueOK
<1>6. ASSUME NEW i \in 1..Len(xout)
      PROVE  \/ xout[i].kind \in {"focus", "event"} /\ xout[i].of = NoRequest
             \/ xout[i].kind = "error" /\ xout[i].of \in Request /\ xout[i].of.from = "synth"
  <2>1. AnswerOK(xout[i]) /\ xout[i].of.from \notin {"barrier", "live"}
    BY <1>4 DEF Inv, AnswersOK, Opens
  <2> QED BY <2>1 DEF AnswerOK, Barrier
<1> QED BY <1>1, <1>2, <1>4, <1>5, <1>6

LEMMA InvWriteSynth ==
  ASSUME Inv, WriteSynth PROVE PhasesOK' /\ QueueOK' /\ AnswersOK' /\ AfterBarrier'
<1> USE DEF relayVars, displayVars
<1>0. run = "resume" BY DEF WriteSynth
<1> PICK k \in {"void", "error"}, colormap \in BOOLEAN :
      xin' = xin \o (IF colormap THEN <<SynthRequest("void")>> ELSE <<>>) \o <<SynthRequest(k)>>
  BY DEF WriteSynth
<1>1. xin \in Seq(Request) /\ Len(xin) \in Nat /\ xcount \in Nat BY DEF Inv, TypeOK
<1>2. /\ Len(xin') \in Nat /\ Len(xin') > Len(xin)
      /\ \A i \in 1..Len(xin) : xin'[i] = xin[i]
      /\ \A i \in 1..Len(xin') : i > Len(xin) =>
           xin'[i] \in {SynthRequest("void"), SynthRequest(k)}
  <2>1. CASE colormap
    <3>1. xin' = xin \o <<SynthRequest("void")>> \o <<SynthRequest(k)>> BY <2>1
    <3> QED BY <1>1, <3>1
  <2>2. CASE ~colormap
    <3>1. xin' = xin \o <<SynthRequest(k)>> BY <1>1, <2>2
    <3> QED BY <1>1, <3>1
  <2> QED BY <2>1, <2>2
<1>3. BarrierNo' = xcount + Len(xin') /\ asked' = <<>>
  BY <1>0, <1>1, <1>2, SynthOnly DEF BarrierNo, WriteSynth
<1>4. QueueOK'
  <2>1. ASSUME NEW i \in 1..Len(xin')
        PROVE  xin'[i].from = "synth" /\ xin'[i].kind \in {"void", "error"}
    BY <1>0, <1>1, <1>2, SynthOnly DEF SynthRequest
  <2>2. xcount' = xcount /\ run' = "resume" BY <1>0 DEF WriteSynth
  <2> QED BY <1>1, <1>2, <1>3, <2>1, <2>2 DEF QueueOK
<1>5. AnswersOK'
  BY <1>0, SynthOnly DEF WriteSynth, Inv, AnswersOK, AnswerOK
<1>6. AfterBarrier'
  BY <1>0, SynthOnly DEF WriteSynth, AfterBarrier, Past
<1>7. PhasesOK'
  BY <1>0, <1>1, <1>2, <1>3, SynthOnly, BoundsAssumption DEF WriteSynth, Inv, PhasesOK, Barrier, NoRequest
<1> QED BY <1>4, <1>5, <1>6, <1>7

LEMMA InvReceiveLive ==
  ASSUME Inv, ReceiveLive PROVE PhasesOK' /\ QueueOK' /\ AnswersOK' /\ AfterBarrier'
<1> USE DEF relayVars, displayVars
<1>0. run = "resume" /\ run' = "close" /\ xin' = Append(xin, Barrier) BY DEF ReceiveLive
<1>1. xin \in Seq(Request) /\ Len(xin) \in Nat /\ xcount \in Nat BY DEF Inv, TypeOK
<1>2. /\ Len(xin') = Len(xin) + 1 /\ xin'[Len(xin) + 1] = Barrier
      /\ \A i \in 1..Len(xin) : xin'[i] = xin[i]
  BY <1>0, <1>1
<1>3. BarrierNo' = xcount + Len(xin) + 1 /\ asked' = <<>>
  BY <1>0, <1>1, <1>2, SynthOnly DEF BarrierNo, ReceiveLive
<1>4. QueueOK'
  <2>1. ASSUME NEW i \in 1..Len(xin)
        PROVE  xin'[i].from = "synth" /\ xin'[i].kind \in {"void", "error"}
    BY <1>0, <1>1, <1>2, SynthOnly
  <2>2. xcount' = xcount BY DEF ReceiveLive
  <2> QED BY <1>0, <1>1, <1>2, <1>3, <2>1, <2>2 DEF QueueOK, Barrier
<1>5. AnswersOK'
  BY <1>0, SynthOnly DEF ReceiveLive, Inv, AnswersOK, AnswerOK
<1>6. AfterBarrier'
  BY <1>0, SynthOnly DEF ReceiveLive, AfterBarrier, Past
<1>7. PhasesOK'
  BY <1>0, <1>1, <1>2, <1>3, SynthOnly, BoundsAssumption DEF ReceiveLive, Inv, PhasesOK, Barrier, NoRequest
<1> QED BY <1>4, <1>5, <1>6, <1>7

LEMMA InvWriteLive ==
  ASSUME Inv, WriteLive PROVE PhasesOK' /\ QueueOK' /\ AnswersOK' /\ AfterBarrier'
<1> USE DEF relayVars, displayVars
<1> PICK k \in Kinds : xin' = Append(xin, LiveRequest(k)) /\ asked' = Append(asked, k)
  BY DEF WriteLive
<1>1. /\ xin \in Seq(Request) /\ Len(xin) \in Nat /\ xcount \in Nat
      /\ asked \in Seq(RequestKind) /\ Len(asked) \in Nat
  BY DEF Inv, TypeOK
<1>2. /\ Len(xin') = Len(xin) + 1 /\ xin'[Len(xin) + 1] = LiveRequest(k)
      /\ \A i \in 1..Len(xin) : xin'[i] = xin[i]
  BY <1>1
<1>3. /\ Len(asked') = Len(asked) + 1 /\ asked'[Len(asked) + 1] = k
      /\ \A n \in 1..Len(asked) : asked'[n] = asked[n]
  BY <1>1
<1>4. BarrierNo' = BarrierNo BY <1>1, <1>2, <1>3 DEF BarrierNo, WriteLive
<1>5. BarrierNo \in Nat /\ BarrierNo + Len(asked) = xcount + Len(xin)
  BY <1>1, BarrierNat DEF Inv, BarrierNo
<1>6. QueueOK'
  <2>1. xcount' = xcount /\ run' = run BY DEF WriteLive
  <2>2. LiveRequest(k) = [from |-> "live", kind |-> k, n |-> Len(asked) + 1]
    BY DEF LiveRequest
  <2>3. ASSUME NEW i \in 1..Len(xin'), i # Len(xin) + 1
        PROVE  i \in 1..Len(xin) /\ xin'[i] = xin[i]
    BY <1>1, <1>2, <2>3
  <2>4. ASSUME NEW n \in 1..Len(asked) PROVE n \in 1..Len(asked') /\ asked'[n] = asked[n]
    BY <1>1, <1>3
  <2>5. /\ xcount + (Len(xin) + 1) = BarrierNo + (Len(asked) + 1)
        /\ Len(asked) + 1 \in 1..Len(asked')
    BY <1>1, <1>3, <1>5
  <2>6. QueueOK BY DEF Inv
  <2> QED BY <1>2, <1>3, <1>4, <2>1, <2>2, <2>3, <2>4, <2>5, <2>6 DEF QueueOK
<1>7. AnswersOK'
  <2>1. xout' = xout BY DEF WriteLive
  <2>2. ASSUME NEW n \in 1..Len(asked) PROVE n \in 1..Len(asked') /\ asked'[n] = asked[n]
    BY <1>1, <1>3
  <2> QED BY <1>4, <2>1, <2>2 DEF Inv, AnswersOK, AnswerOK
<1>8. AfterBarrier'
  BY <1>4 DEF WriteLive, Inv, AfterBarrier, Past
<1>9. PhasesOK'
  <2>1. /\ run = "live" /\ Len(asked) < MaxLive
        /\ UNCHANGED <<run, xcount, relay, sent, taken, final, nSynth>>
    BY DEF WriteLive
  <2>2. MaxLive \in Nat BY BoundsAssumption
  <2> QED BY <1>1, <1>2, <1>3, <1>4, <2>1, <2>2 DEF Inv, PhasesOK
<1> QED BY <1>6, <1>7, <1>8, <1>9

LEMMA InvCount ==
  ASSUME Inv, Count \/ CloseDone PROVE PhasesOK' /\ QueueOK' /\ AnswersOK' /\ AfterBarrier'
<1> USE DEF relayVars, displayVars, Inv, Count, CloseDone
<1>1. UNCHANGED <<asked, xin, xout, displayVars, relayVars, final>> /\ BarrierNo' = BarrierNo
  BY DEF BarrierNo
<1>2. run' = run \/ (run = "close" /\ run' = "live") OBVIOUS
<1>3. QueueOK' BY <1>1, <1>2 DEF QueueOK
<1>4. AnswersOK' BY <1>1 DEF AnswersOK, AnswerOK
<1>5. AfterBarrier' BY <1>1, <1>2 DEF AfterBarrier, Past
<1>6. PhasesOK' BY <1>1, <1>2 DEF PhasesOK
<1> QED BY <1>3, <1>4, <1>5, <1>6

\* A message is appended to those of the display.
LEMMA AfterAppend ==
  ASSUME Inv, NEW m \in Message, xout' = Append(xout, m),
         UNCHANGED <<relay, run>>, BarrierNo' = BarrierNo, xcount <= xcount', xcount' \in Nat,
         Opens(m) => run # "resume" /\ BarrierNo <= xcount',
         BarrierNo <= xcount => AfterOnly(m)
  PROVE  /\ Len(xout') = Len(xout) + 1 /\ xout'[Len(xout) + 1] = m /\ Len(xout) \in Nat
         /\ \A i \in 1..Len(xout) : xout'[i] = xout[i]
         /\ AfterBarrier'
<1>1. /\ Len(xout') = Len(xout) + 1 /\ xout'[Len(xout) + 1] = m /\ Len(xout) \in Nat
      /\ \A i \in 1..Len(xout) : xout'[i] = xout[i]
  BY DEF Inv, TypeOK
<1>2. \A i \in 1..Len(xout') : i \in 1..Len(xout) \/ i = Len(xout) + 1 BY <1>1
<1>3. BarrierNo \in Nat /\ xcount \in Nat BY BarrierNat DEF Inv, TypeOK
<1>4. Past' => BarrierNo' <= xcount' /\ \A i \in 1..Len(xout') : AfterOnly(xout'[i])
  BY <1>1, <1>2, <1>3 DEF Inv, AfterBarrier, Past
<1>5. ASSUME NEW k \in 1..Len(xout'), Opens(xout'[k])
      PROVE  /\ run' # "resume" /\ BarrierNo' <= xcount'
             /\ \A i \in 1..Len(xout') : i > k => AfterOnly(xout'[i])
  <2>1. CASE k \in 1..Len(xout)
    <3>1. /\ run # "resume" /\ BarrierNo <= xcount
          /\ \A i \in 1..Len(xout) : i > k => AfterOnly(xout[i])
      BY <1>1, <1>5, <2>1 DEF Inv, AfterBarrier
    <3> QED BY <1>1, <1>2, <1>3, <3>1
  <2>2. CASE k = Len(xout) + 1
    <3>1. \A i \in 1..Len(xout') : ~(i > k) BY <1>1, <2>2
    <3> QED BY <1>1, <1>5, <2>2, <3>1
  <2> QED BY <1>2, <2>1, <2>2
<1> QED BY <1>1, <1>4, <1>5 DEF AfterBarrier

LEMMA InvNotify ==
  ASSUME Inv, Notify PROVE PhasesOK' /\ QueueOK' /\ AnswersOK' /\ AfterBarrier'
<1> PICK kind \in {"focus", "event"} : xout' = Append(xout, Msg(kind, NoRequest))
  BY DEF Notify
<1> DEFINE m == Msg(kind, NoRequest)
<1>1. m \in Message BY MsgType DEF Notify, Inv, TypeOK
<1>2. m.kind = kind /\ m.of = NoRequest /\ m.hidden = FALSE BY DEF Msg
<1>3. UNCHANGED <<mainVars, xin, xcount, relayVars>> /\ BarrierNo' = BarrierNo
  BY DEF Notify, BarrierNo, mainVars
<1>4. ~Opens(m) /\ AfterOnly(m) BY <1>2 DEF Opens, AfterOnly, NoRequest
<1> HIDE DEF m
<1> USE DEF mainVars, relayVars
<1>5. /\ Len(xout') = Len(xout) + 1 /\ xout'[Len(xout) + 1] = m
      /\ Len(xout) \in Nat /\ \A i \in 1..Len(xout) : xout'[i] = xout[i]
      /\ AfterBarrier'
  BY <1>1, <1>3, <1>4, AfterAppend DEF m, Inv, TypeOK
<1>6. QueueOK' BY <1>3 DEF Inv, QueueOK
<1>7. AnswersOK' BY <1>2, <1>3, <1>5 DEF Inv, AnswersOK, AnswerOK
<1>8. PhasesOK' BY <1>3 DEF Inv, PhasesOK
<1> QED BY <1>5, <1>6, <1>7, <1>8

\* The request the display executes, by its number.
LEMMA Executed ==
  ASSUME Inv, Execute
  PROVE  /\ Head(xin) = xin[1] /\ Head(xin) \in Request /\ Len(xin) \in Nat \ {0}
         /\ Len(xin') = Len(xin) - 1 /\ \A i \in 1..Len(xin') : xin'[i] = xin[i + 1]
         /\ xcount \in Nat /\ xcount' = xcount + 1 /\ BarrierNo' = BarrierNo
         /\ Opens(Msg("reply", Head(xin))) => run # "resume" /\ BarrierNo <= xcount'
         /\ BarrierNo <= xcount => Head(xin).from = "live"
<1>1. /\ Head(xin) = xin[1] /\ Head(xin) \in Request /\ Len(xin) \in Nat \ {0}
      /\ Len(xin') = Len(xin) - 1 /\ \A i \in 1..Len(xin') : xin'[i] = xin[i + 1]
      /\ xcount \in Nat /\ xcount' = xcount + 1
  BY HeadTailProperties DEF Execute, Inv, TypeOK
<1>2. BarrierNo' = BarrierNo BY <1>1 DEF Execute, mainVars, BarrierNo, Inv, TypeOK
<1>3. BarrierNo \in Nat BY BarrierNat DEF Inv
<1>4. \/ xin[1].from = "synth" /\ xcount + 1 <= BarrierNo
      \/ xin[1] = Barrier /\ xcount + 1 = BarrierNo /\ run # "resume"
      \/ /\ xin[1].from = "live" /\ xcount + 1 = BarrierNo + xin[1].n
         /\ xin[1].n \in 1..Len(asked)
  BY <1>1 DEF Inv, QueueOK
<1>5. xin[1].from = "live" => run # "resume" BY <1>1, SynthOnly
<1>6. Opens(Msg("reply", Head(xin))) => run # "resume" /\ BarrierNo <= xcount'
  <2>1. Msg("reply", Head(xin)).of = xin[1] BY <1>1 DEF Msg
  <2> QED BY <1>1, <1>3, <1>4, <1>5, <2>1 DEF Opens
<1>7. BarrierNo <= xcount => Head(xin).from = "live" BY <1>1, <1>3, <1>4
<1> QED BY <1>1, <1>2, <1>6, <1>7

LEMMA InvExecute ==
  ASSUME Inv, Execute PROVE PhasesOK' /\ QueueOK' /\ AnswersOK' /\ AfterBarrier'
<1> DEFINE r == Head(xin)
<1>1. /\ r = xin[1] /\ r \in Request /\ Len(xin) \in Nat \ {0}
      /\ Len(xin') = Len(xin) - 1 /\ \A i \in 1..Len(xin') : xin'[i] = xin[i + 1]
      /\ xcount \in Nat /\ xcount' = xcount + 1 /\ BarrierNo' = BarrierNo
      /\ UNCHANGED <<mainVars, relayVars>>
  BY Executed DEF Execute
<1>2. BarrierNo \in Nat BY BarrierNat DEF Inv
<1> USE DEF mainVars, relayVars
<1>3. QueueOK'
  <2>1. ASSUME NEW i \in 1..Len(xin') PROVE i + 1 \in 1..Len(xin) /\ xcount' + i = xcount + (i + 1)
    BY <1>1
  <2> QED BY <1>1, <2>1 DEF Inv, QueueOK
<1>4. PhasesOK' BY <1>1 DEF Inv, PhasesOK, TypeOK
<1>5. CASE xout' = xout
  <2>1. AnswersOK' BY <1>1, <1>5 DEF Inv, AnswersOK, AnswerOK
  <2>2. AfterBarrier' BY <1>1, <1>2, <1>5 DEF Inv, AfterBarrier, Past
  <2> QED BY <1>3, <1>4, <2>1, <2>2
<1>6. ASSUME NEW kind \in {"reply", "error"}, xout' = Append(xout, Msg(kind, r)),
             kind = "reply" => r.kind \in {"query", "gpu"}, kind = "error" => r.kind = "error"
      PROVE  AnswersOK' /\ AfterBarrier'
  <2> DEFINE m == Msg(kind, r)
  <2>1. m \in Message BY <1>1, MsgType
  <2>2. m.kind = kind /\ m.of = r /\ m.hidden = FALSE /\ m.seq = xcount' % Modulus BY DEF Msg
  <2>3. Opens(m) => run # "resume" /\ BarrierNo <= xcount'
    BY <2>2, Executed DEF Opens, Msg
  <2>4. BarrierNo <= xcount => m.of.from = "live" BY <2>2, Executed
  <2> HIDE DEF m
  <2>5. /\ Len(xout') = Len(xout) + 1 /\ xout'[Len(xout) + 1] = m
        /\ Len(xout) \in Nat /\ \A i \in 1..Len(xout) : xout'[i] = xout[i]
        /\ AfterBarrier'
    BY <1>1, <1>6, <2>1, <2>3, <2>4, AfterAppend DEF m, AfterOnly
  <2>6. AnswerOK(m)
    <3>1. CASE r.from = "synth" /\ r.kind \in {"void", "error"}
      BY <1>1, <1>6, <2>2, <3>1 DEF AnswerOK
    <3>2. CASE r = Barrier /\ xcount + 1 = BarrierNo
      BY <1>1, <1>6, <2>2, <3>2 DEF AnswerOK, Barrier
    <3>3. CASE /\ r.from = "live" /\ xcount + 1 = BarrierNo + r.n
               /\ r.n \in 1..Len(asked) /\ r.kind = asked[r.n]
      BY <1>1, <2>2, <3>3 DEF AnswerOK
    <3> QED BY <1>1, <3>1, <3>2, <3>3 DEF Inv, QueueOK
  <2>7. AnswersOK'
    <3>1. \A i \in 1..Len(xout') : i \in 1..Len(xout) \/ i = Len(xout) + 1 BY <2>5
    <3>2. ASSUME NEW i \in 1..Len(xout') PROVE AnswerOK(xout'[i]) /\ xout'[i].hidden = FALSE
      BY <2>2, <2>5, <2>6, <3>1 DEF Inv, AnswersOK
    <3> QED BY <1>1, <3>2 DEF AnswersOK, AnswerOK
  <2> QED BY <2>5, <2>7
<1>7. \/ xout' = xout
      \/ xout' = Append(xout, Msg("reply", r)) /\ r.kind \in {"query", "gpu"}
      \/ xout' = Append(xout, Msg("error", r)) /\ r.kind = "error"
  BY DEF Execute
<1> QED BY <1>3, <1>4, <1>5, <1>6, <1>7

LEMMA InvStep == Inv /\ [Next]_vars => Inv'
<1> SUFFICES ASSUME Inv, [Next]_vars PROVE Inv'
  OBVIOUS
<1>1. TypeOK' BY TypeStep DEF Inv
<1>2. CASE UNCHANGED vars
  <2>1. PhasesOK' /\ QueueOK' /\ AnswersOK' /\ AfterBarrier'
    BY <1>2 DEF vars, mainVars, displayVars, relayVars, Inv, PhasesOK, QueueOK, AnswersOK, AnswerOK,
                AfterBarrier, Past, BarrierNo
  <2> QED BY <1>1, <2>1 DEF Inv
<1> QED
  BY <1>1, <1>2, InvWriteSynth, InvWriteLive, InvCount, InvReceiveLive, InvExecute, InvNotify,
     InvRelay
  DEF Inv, Next, Main

LEMMA InvInit == Init => Inv
<1> SUFFICES ASSUME Init PROVE Inv
  OBVIOUS
<1>1. /\ asked = <<>> /\ xin = <<>> /\ xout = <<>> /\ sent = <<>> /\ taken = NoRequest
      /\ \/ run = "resume" /\ relay = "drain" /\ connSeq = 2 /\ final = AppSeq
         \/ run = "live" /\ relay = "direct" /\ connSeq = 0 /\ final = 0
  BY DEF Init, Seeded
<1>2. TypeOK BY <1>1, NumbersAssumption, ModulusAssumption DEF Init, TypeOK
<1>3. PhasesOK
  BY <1>1, BoundsAssumption DEF Init, PhasesOK, BarrierNo, NoRequest, Barrier
<1> QED BY <1>1, <1>2, <1>3 DEF Init, Inv, QueueOK, AnswersOK, AfterBarrier, Past, BarrierNo

-----------------------------------------------------------------------------
(* NumbersExact *)

LEMMA BufferedStep == TypeOK /\ AnswersOK /\ BufferedOK /\ [Next]_vars => BufferedOK'
<1> SUFFICES ASSUME TypeOK, AnswersOK, BufferedOK, [Next]_vars PROVE BufferedOK'
  OBVIOUS
<1>1. CASE Drain \/ DrainToBarrier
  <2>1. xout # <<>> /\ Buffer(Head(xout)) /\ Receive BY <1>1 DEF Drain, DrainToBarrier, Receive
  <2>2. Head(xout).hidden = FALSE /\ Head(xout) \in Message BY <2>1, Received DEF AnswersOK, TypeOK
  <2>3. CASE buffered' = buffered BY <2>3 DEF BufferedOK
  <2>4. CASE Head(xout).kind = "focus" /\ buffered' = Append(buffered, Head(xout))
    <3> DEFINE m == Head(xout)
    <3>1. m.kind = "focus" /\ m.hidden = FALSE /\ m \in Message /\ buffered \in Seq(Message)
      BY <2>2, <2>4 DEF TypeOK
    <3>2. buffered' = Append(buffered, m) BY <2>4
    <3> HIDE DEF m
    <3>3. \A i \in 1..Len(buffered') :
            IF i = Len(buffered) + 1 THEN buffered'[i] = m
                                     ELSE i \in 1..Len(buffered) /\ buffered'[i] = buffered[i]
      BY <3>1, <3>2
    <3> QED BY <3>1, <3>3 DEF BufferedOK
  <2> QED BY <2>1, <2>3, <2>4 DEF Buffer
<1>2. CASE TakeBarrier BY <1>2 DEF TakeBarrier, BufferedOK
<1>3. CASE buffered' = buffered BY <1>3 DEF BufferedOK
<1>4. Drain \/ DrainToBarrier \/ TakeBarrier \/ buffered' = buffered
  BY DEF Next, Main, Relay, WriteSynth, WriteLive, Count, ReceiveLive, CloseDone, Execute, Notify,
         SeeDone, Forward, RelayDirect, vars, relayVars
<1> QED BY <1>1, <1>2, <1>3, <1>4

\* What the relay forwards answers a live request, with the display's number.
LEMMA FirstAnswer ==
  ASSUME Inv, Past, Receive, Head(xout).kind \in {"reply", "error"}
  PROVE  LET m == Head(xout) IN
           /\ m.of.from = "live" /\ m.of.n \in 1..Len(asked) /\ m.of.kind = asked[m.of.n]
           /\ m.seq = (BarrierNo + m.of.n) % Modulus
<1>1. Head(xout) = xout[1] /\ 1 \in 1..Len(xout) BY Received DEF Inv, TypeOK
<1>2. AnswerOK(Head(xout)) BY <1>1 DEF Inv, AnswersOK
<1>3. Head(xout).of.from \in {"live", "none"} BY <1>1 DEF Inv, AfterBarrier, AfterOnly
<1> QED BY <1>2, <1>3 DEF AnswerOK, Barrier

\* A number of the display, shifted, is the application's.
LEMMA ShiftedExact ==
  ASSUME final \in Nat, NEW n \in Nat, BarrierNo \in Nat, nSynth = BarrierNo % Modulus
  PROVE  Shifted((BarrierNo + n) % Modulus) = (final + n) % Modulus
<1> DEFINE seq == (BarrierNo + n) % Modulus
<1>1. nSynth \in 0..(Modulus - 1) /\ seq \in 0..(Modulus - 1) BY ModRange
<1>2. Shifted(seq) = (final + Dist(nSynth, seq)) % Modulus
  <2> HIDE DEF seq
  <2> QED BY <1>1, ShiftedIs
<1>3. Dist(nSynth, seq) = n % Modulus BY DistPlus
<1>4. (final + (n % Modulus)) % Modulus = ((n % Modulus) + final) % Modulus
  BY ModRange, final + (n % Modulus) = (n % Modulus) + final, ModulusAssumption
<1>5. ((n % Modulus) + final) % Modulus = (final + n) % Modulus
  BY ModShift, n + final = final + n
<1> QED BY <1>2, <1>3, <1>4, <1>5

LEMMA ExactStep == NumInv /\ [Next]_vars => NumbersExact'
<1> SUFFICES ASSUME NumInv, [Next]_vars PROVE NumbersExact'
  OBVIOUS
<1> USE DEF NumInv
<1>1. CASE UNCHANGED <<taken, relay, sent, final>>
  BY <1>1 DEF NumbersExact
<1>2. CASE WriteSynth \/ ReceiveLive
  <2>1. relay = "drain" /\ taken = NoRequest
    BY <1>2, SynthOnly DEF WriteSynth, ReceiveLive, Inv, PhasesOK
  <2>2. relay' = "drain" /\ taken' = NoRequest
    BY <1>2, <2>1 DEF WriteSynth, ReceiveLive, relayVars
  <2> QED BY <2>2 DEF NumbersExact, NoRequest, Barrier
<1>3. CASE TakeBarrier
  <2>1. sent = <<>> BY <1>3 DEF TakeBarrier, Inv, PhasesOK
  <2> DEFINE replay == [i \in 1..Len(buffered) |-> [buffered[i] EXCEPT !.seq = Stamp(buffered[i])]]
  <2>2. sent' = sent \o replay BY <1>3 DEF TakeBarrier
  <2>3. buffered \in Seq(Message) /\ Len(buffered) \in Nat BY DEF Inv, TypeOK
  <2>4. Len(sent') = Len(buffered) /\ \A i \in 1..Len(sent') : sent'[i] = replay[i]
    BY <2>1, <2>2, <2>3
  <2>5. ASSUME NEW i \in 1..Len(buffered) PROVE replay[i].kind = "focus"
    <3>1. buffered[i] \in Message BY <2>3
    <3>2. buffered[i].kind = "focus" BY DEF BufferedOK
    <3>3. replay[i] = [buffered[i] EXCEPT !.seq = Stamp(buffered[i])] OBVIOUS
    <3> QED BY <3>1, <3>2, <3>3 DEF Message
  <2>6. \A i \in 1..Len(sent') : sent'[i].kind = "focus"
    <3> HIDE DEF replay
    <3> QED BY <2>4, <2>5
  <2> QED BY <2>6 DEF NumbersExact
<1>4. CASE Forward \/ RelayDirect
  <2> DEFINE m == Head(xout)
  <2>1. Past /\ Receive /\ taken' = taken /\ relay' = relay /\ final' = final
    BY <1>4 DEF Forward, RelayDirect, Past, mainVars
  <2>2. m \in Message /\ sent \in Seq(Message) /\ final \in Nat /\ Len(asked) \in Nat
    BY <2>1, Received DEF Inv, TypeOK
  <2>3. BarrierNo \in Nat BY BarrierNat DEF Inv
  <2>4. CASE sent' = sent BY <2>1, <2>4 DEF NumbersExact
  <2>5. ASSUME NEW e \in Message, sent' = Append(sent, e),
               (taken = Barrier \/ relay = "direct") /\ e.kind \in {"reply", "error"} =>
                  e.of.from = "live" /\ e.seq = (final + e.of.n) % Modulus
        PROVE  NumbersExact'
    <3>1. \A i \in 1..Len(sent') :
            IF i = Len(sent) + 1 THEN sent'[i] = e
                                 ELSE i \in 1..Len(sent) /\ sent'[i] = sent[i]
      BY <2>2, <2>5
    <3> QED BY <2>1, <2>5, <3>1 DEF NumbersExact
  <2>6. CASE Forward /\ ~Late(m)
    <3> DEFINE e == [m EXCEPT !.seq = Shifted(m.seq)]
    <3>1. sent' = Append(sent, e) BY <2>6 DEF Forward
    <3>2. Shifted(m.seq) \in 0..(Modulus - 1)
      <4>1. m.seq \in 0..(Modulus - 1) /\ nSynth \in 0..(Modulus - 1)
        BY <2>2 DEF Inv, TypeOK, Message
      <4>2. final + m.seq + Modulus - nSynth \in Nat BY <2>2, <4>1, ModulusAssumption
      <4> QED BY <4>2, ModRange DEF Shifted
    <3>3. e \in Message /\ e.kind = m.kind /\ e.of = m.of /\ e.seq = Shifted(m.seq)
      BY <2>2, <3>2 DEF Message
    <3>4. relay = "forward" BY <2>6 DEF Forward
    <3>5. ASSUME taken = Barrier, m.kind \in {"reply", "error"}
          PROVE  m.of.from = "live" /\ Shifted(m.seq) = (final + m.of.n) % Modulus
      <4>1. nSynth = BarrierNo % Modulus BY <3>5 DEF Inv, PhasesOK
      <4>2. m.of.from = "live" /\ m.of.n \in 1..Len(asked) /\ m.seq = (BarrierNo + m.of.n) % Modulus
        BY <2>1, <3>5, FirstAnswer
      <4>3. m.of.n \in Nat BY <2>2, <4>2
      <4> QED BY <2>2, <2>3, <4>1, <4>2, <4>3, ShiftedExact
    <3> HIDE DEF e, m
    <3> QED BY <2>5, <3>1, <3>3, <3>4, <3>5
  <2>7. CASE RelayDirect
    <3> DEFINE e == [m EXCEPT !.hidden = m.kind = "reply" /\ m.seq \in suppressed]
    <3>1. sent' = Append(sent, e) BY <2>7 DEF RelayDirect
    <3>2. e \in Message /\ e.kind = m.kind /\ e.of = m.of /\ e.seq = m.seq
      BY <2>2 DEF Message
    <3>3. BarrierNo = 0 /\ final = 0 BY <2>7 DEF RelayDirect, Inv, PhasesOK
    <3>4. ASSUME m.kind \in {"reply", "error"}
          PROVE  m.of.from = "live" /\ m.seq = (final + m.of.n) % Modulus
      BY <2>1, <3>3, <3>4, FirstAnswer
    <3> HIDE DEF e, m
    <3> QED BY <2>5, <3>1, <3>2, <3>4
  <2> QED BY <1>4, <2>4, <2>6, <2>7 DEF Forward
<1>5. WriteSynth \/ ReceiveLive \/ TakeBarrier \/ Forward \/ RelayDirect
        \/ UNCHANGED <<taken, relay, sent, final>> \/ SeeDone
  BY DEF Next, Main, Relay, WriteLive, Count, CloseDone, Execute, Notify,
         Drain, DrainToBarrier, vars, relayVars, mainVars
<1>6. CASE SeeDone
  <2>1. sent' = <<>> BY <1>6 DEF SeeDone, Inv, PhasesOK
  <2> QED BY <2>1 DEF NumbersExact
<1> QED BY <1>1, <1>2, <1>3, <1>4, <1>5, <1>6

LEMMA NumInvStep == NumInv /\ [Next]_vars => NumInv'
BY InvStep, BufferedStep, ExactStep DEF NumInv, Inv

LEMMA NumInvInit == Init => NumInv
BY InvInit DEF Init, NumInv, BufferedOK, NumbersExact

\* Every variable has its type, and the answers the application gets have the
\* numbers it gave its requests, for any number of requests and however often the
\* numbers wrap (client.go:1117-1130, 1150-1164).
THEOREM NumbersCorrect == Spec => []NumbersOK
<1>1. NumInv => NumbersOK BY DEF NumInv, Inv, NumbersOK
<1> QED BY <1>1, NumInvInit, NumInvStep, PTL DEF Spec

-----------------------------------------------------------------------------
(* NeverBackwards *)

\* The numbers of the display's messages are numbers, and have a distance.
LEMMA OffRange ==
  ASSUME TypeOK, BarrierNo \in Nat
  PROVE  /\ \A i \in 1..Len(xout) : Off(xout[i].seq) \in 0..(Modulus - 1)
         /\ \A j \in 1..Len(sent) : Ahead(sent[j].seq) \in 0..(Modulus - 1)
         /\ Off(nSynth) \in 0..(Modulus - 1)
<1>1. (BarrierNo % Modulus) \in 0..(Modulus - 1) /\ (final % Modulus) \in 0..(Modulus - 1)
  BY ModRange DEF TypeOK
<1>2. ASSUME NEW i \in 1..Len(xout) PROVE Off(xout[i].seq) \in 0..(Modulus - 1)
  <2>1. xout[i] \in Message BY DEF TypeOK
  <2>2. xout[i].seq \in 0..(Modulus - 1) BY <2>1 DEF Message
  <2> QED BY <1>1, <2>2, DistRange DEF Off
<1>3. ASSUME NEW j \in 1..Len(sent) PROVE Ahead(sent[j].seq) \in 0..(Modulus - 1)
  <2>1. sent[j] \in Message BY DEF TypeOK
  <2>2. sent[j].seq \in 0..(Modulus - 1) BY <2>1 DEF Message
  <2> QED BY <1>1, <2>2, DistRange DEF Ahead
<1>4. Off(nSynth) \in 0..(Modulus - 1) BY <1>1, DistRange DEF TypeOK, Off
<1> QED BY <1>2, <1>3, <1>4

\* A number that is less than Modulus beyond another is as far beyond it when both
\* are wrapped.
LEMMA DistExact ==
  ASSUME NEW b \in Nat, NEW x \in Nat, x - b \in 0..(Modulus - 1)
  PROVE  Dist(b % Modulus, x % Modulus) = x - b
<1> DEFINE d == x - b
<1>1. x = b + d /\ d \in Nat /\ d \in 0..(Modulus - 1) BY ModulusAssumption
<1> HIDE DEF d
<1>2. d % Modulus = d BY <1>1, ModSmall, ModulusAssumption
<1>3. Dist(b % Modulus, (b + d) % Modulus) = d BY <1>1, <1>2, DistPlus
<1> QED BY <1>1, <1>3 DEF d

\* The display is beyond the barrier by live requests only, which do not exhaust
\* the numbers.
LEMMA LiveRange ==
  ASSUME MaxLive < Modulus, TypeOK, PhasesOK, BarrierNo <= xcount
  PROVE  xcount - BarrierNo \in 0..(Modulus - 1) /\ xcount - BarrierNo <= Len(asked)
<1>1. BarrierNo \in Nat /\ xcount \in Nat /\ Len(xin) \in Nat /\ Len(asked) \in Nat
  BY BarrierNat DEF TypeOK
<1>2. xcount - BarrierNo = Len(asked) - Len(xin) BY <1>1 DEF BarrierNo
<1> QED BY <1>1, <1>2, BoundsAssumption, ModulusAssumption DEF PhasesOK

\* A message the display sends comes after those it sent before.
LEMMA OrderAppend ==
  ASSUME MaxLive < Modulus, Inv, Inv', Ordered, Counted,
         NEW m \in Message, xout' = Append(xout, m), m.seq = xcount' % Modulus,
         BarrierNo' = BarrierNo, xcount <= xcount', xcount' + Len(xin') = xcount + Len(xin),
         UNCHANGED <<relay, nSynth, sent, final, asked>>
  PROVE  Ordered' /\ Counted'
<1> DEFINE y == xcount'
           z == Len(xin')
           L == Len(xout)
<1>1. /\ BarrierNo \in Nat /\ xcount \in Nat /\ y \in Nat /\ L \in Nat
      /\ Len(asked) \in Nat /\ Len(xin) \in Nat /\ z \in Nat
      /\ xcount <= y /\ y + z = xcount + Len(xin)
  BY BarrierNat DEF Inv, TypeOK
<1>13. BarrierNo + Len(asked) = xcount + Len(xin) BY <1>1 DEF BarrierNo
<1> HIDE DEF y, z, L
<1> DEFINE S == xcount - BarrierNo
           T == y - BarrierNo
<1>2. S \in Int /\ T \in Int /\ S <= T BY <1>1
<1>12. BarrierNo <= y => T \in 0..(Modulus - 1)
  <2>1. Len(asked) <= MaxLive /\ MaxLive \in Nat BY BoundsAssumption DEF Inv, PhasesOK
  <2> QED BY <1>1, <1>13, <2>1, ModulusAssumption
<1> DEFINE o(i) == Dist(BarrierNo % Modulus, xout[i].seq)
           p(i) == Dist(BarrierNo % Modulus, xout'[i].seq)
           n == Dist(BarrierNo % Modulus, nSynth)
           a(j) == Dist(final % Modulus, sent[j].seq)
<1>3. /\ Len(xout') = L + 1 /\ xout'[L + 1] = m /\ \A i \in 1..L : xout'[i] = xout[i]
  BY DEF Inv, TypeOK, L
<1>4. /\ \A i \in 1..L : o(i) \in Int /\ p(i) = o(i)
      /\ n \in Int /\ \A j \in 1..Len(sent) : a(j) \in Int
  <2>1. \A i \in 1..L : p(i) = o(i) BY <1>3
  <2>2. TypeOK BY DEF Inv
  <2>3. /\ \A i \in 1..L : Off(xout[i].seq) \in 0..(Modulus - 1)
        /\ \A j \in 1..Len(sent) : Ahead(sent[j].seq) \in 0..(Modulus - 1)
        /\ Off(nSynth) \in 0..(Modulus - 1)
    BY <1>1, <2>2, OffRange DEF L
  <2>4. 0..(Modulus - 1) \subseteq Int BY ModulusAssumption
  <2> QED BY <2>1, <2>3, <2>4 DEF Off, Ahead
<1>5. BarrierNo <= y => p(L + 1) = T
  <2> HIDE DEF o, n, a
  <2> QED BY <1>1, <1>3, <1>12, DistExact DEF y
<1>6. \A i \in 1..Len(xout') : i \in 1..L \/ i = L + 1 BY <1>1, <1>3
<1>7. ASSUME NEW k \in 1..Len(xout'), Past' \/ Opens(xout'[k]) PROVE BarrierNo <= y
  <2>1. /\ Past' => BarrierNo' <= xcount'
        /\ \A l \in 1..Len(xout') : Opens(xout'[l]) => BarrierNo' <= xcount'
    <3>1. AfterBarrier' BY DEF Inv
    <3> QED BY <3>1 DEF AfterBarrier, Opens
  <2> QED BY <1>7, <2>1 DEF y
<1>8. /\ Ordered <=>
           \A k \in 1..L : Past \/ Opens(xout[k]) =>
             \A i \in k..L : o(i) <= S /\ \A j \in i..L : o(i) <= o(j)
      /\ Ordered' <=>
           \A k \in 1..Len(xout') : Past \/ Opens(xout'[k]) =>
             \A i \in k..Len(xout') : p(i) <= T /\ \A j \in i..Len(xout') : p(i) <= p(j)
  <2>1. Ordered' <=>
          \A k \in 1..Len(xout') : Past' \/ Opens(xout'[k]) =>
            \A i \in k..Len(xout') :
              /\ Dist(BarrierNo' % Modulus, xout'[i].seq) <= xcount' - BarrierNo'
              /\ \A j \in i..Len(xout') :
                   Dist(BarrierNo' % Modulus, xout'[i].seq) <= Dist(BarrierNo' % Modulus, xout'[j].seq)
    BY DEF Ordered, Off, Opens, Dist
  <2>2. Past' <=> Past BY DEF Past
  <2> QED BY <2>1, <2>2 DEF Ordered, Off, y, L
<1>9. /\ Counted <=>
           (Past => /\ n <= S /\ \A i \in 1..L : n <= o(i)
                    /\ \A j \in 1..Len(sent) : a(j) + n <= S /\ \A i \in 1..L : a(j) + n <= o(i))
      /\ Counted' <=>
           (Past => /\ n <= T /\ \A i \in 1..Len(xout') : n <= p(i)
                    /\ \A j \in 1..Len(sent) :
                         a(j) + n <= T /\ \A i \in 1..Len(xout') : a(j) + n <= p(i))
  BY DEF Counted, Off, Ahead, Past, y, L
<1> HIDE DEF S, T, o, p, n, a
<1>10. Ordered'
  <2> SUFFICES ASSUME NEW k \in 1..Len(xout'), Past \/ Opens(xout'[k]),
                      NEW i \in k..Len(xout')
               PROVE  p(i) <= T /\ \A j \in i..Len(xout') : p(i) <= p(j)
    BY <1>8
  <2>1. p(L + 1) = T BY <1>5, <1>7 DEF Past
  <2>2. CASE i = L + 1
    <3>1. \A j \in i..Len(xout') : j = L + 1 BY <1>1, <1>3, <2>2
    <3> QED BY <1>2, <2>1, <2>2, <3>1
  <2>3. CASE i # L + 1
    <3>1. i \in k..L /\ k \in 1..L /\ i \in 1..L /\ xout'[k] = xout[k] BY <1>1, <1>3, <2>3
    <3>2. o(i) <= S /\ \A j \in i..L : o(i) <= o(j) BY <1>8, <3>1
    <3>3. p(i) <= T BY <1>2, <1>4, <3>1, <3>2
    <3>4. ASSUME NEW j \in i..Len(xout') PROVE p(i) <= p(j)
      <4>1. CASE j = L + 1 BY <2>1, <3>3, <4>1
      <4>2. CASE j # L + 1
        <5>1. j \in i..L /\ j \in 1..L BY <1>1, <1>3, <3>1, <4>2
        <5> QED BY <1>4, <3>1, <3>2, <5>1
      <4> QED BY <4>1, <4>2
    <3> QED BY <3>3, <3>4
  <2> QED BY <2>2, <2>3
<1>11. Counted'
  <2> SUFFICES ASSUME Past
               PROVE  /\ n <= T /\ \A i \in 1..Len(xout') : n <= p(i)
                      /\ \A j \in 1..Len(sent) :
                           a(j) + n <= T /\ \A i \in 1..Len(xout') : a(j) + n <= p(i)
    BY <1>9
  <2>1. p(L + 1) = T BY <1>1, <1>3, <1>5, <1>7 DEF Past
  <2>2. /\ n <= S /\ \A i \in 1..L : n <= o(i)
        /\ \A j \in 1..Len(sent) : a(j) + n <= S /\ \A i \in 1..L : a(j) + n <= o(i)
    BY <1>9
  <2>3. n <= T /\ \A j \in 1..Len(sent) : a(j) + n <= T BY <1>2, <1>4, <2>2
  <2>4. ASSUME NEW i \in 1..Len(xout')
        PROVE  n <= p(i) /\ \A j \in 1..Len(sent) : a(j) + n <= p(i)
    BY <1>4, <1>6, <2>1, <2>2, <2>3
  <2> QED BY <2>3, <2>4
<1> QED BY <1>10, <1>11

\* What is received is taken off the front; of a reply that opens the forwarding
\* the rest counts on.
LEMMA OrderReceive ==
  ASSUME Inv, Ordered, Receive, BarrierNo' = BarrierNo, xcount' = xcount,
         Past' => Past \/ Opens(xout[1])
  PROVE  Ordered'
<1> DEFINE o(i) == Dist(BarrierNo % Modulus, xout[i].seq)
           p(i) == Dist(BarrierNo % Modulus, xout'[i].seq)
           S == xcount - BarrierNo
           L == Len(xout)
<1>1. /\ L \in Nat /\ L >= 1 /\ Len(xout') = L - 1
      /\ \A i \in 1..Len(xout') : xout'[i] = xout[i + 1]
  BY Received DEF Inv, TypeOK
<1>2. \A i \in 1..Len(xout') : p(i) = o(i + 1) BY <1>1
<1>3. Ordered <=>
        \A k \in 1..L : Past \/ Opens(xout[k]) =>
          \A i \in k..L : o(i) <= S /\ \A j \in i..L : o(i) <= o(j)
  BY DEF Ordered, Off
<1>4. Ordered' <=>
        \A k \in 1..Len(xout') : Past' \/ Opens(xout'[k]) =>
          \A i \in k..Len(xout') : p(i) <= S /\ \A j \in i..Len(xout') : p(i) <= p(j)
  BY DEF Ordered, Off, Opens
<1> HIDE DEF o, p, S, L
<1> SUFFICES ASSUME NEW k \in 1..Len(xout'), Past' \/ Opens(xout'[k]), NEW i \in k..Len(xout')
             PROVE  p(i) <= S /\ \A j \in i..Len(xout') : p(i) <= p(j)
  BY <1>4
<1>5. /\ k + 1 \in 1..L /\ 1 \in 1..L /\ i + 1 \in (k + 1)..L /\ i + 1 \in 1..L
      /\ Opens(xout'[k]) <=> Opens(xout[k + 1])
      /\ i \in 1..Len(xout')
  BY <1>1
<1>6. o(i + 1) <= S /\ \A j \in (i + 1)..L : o(i + 1) <= o(j)
  BY <1>3, <1>5
<1>7. \A j \in i..Len(xout') : j \in 1..Len(xout') /\ j + 1 \in (i + 1)..L BY <1>1, <1>5
<1> QED BY <1>2, <1>5, <1>6, <1>7

\* A message that is forwarded with a number as far beyond nSynth comes after
\* those forwarded before it.
LEMMA OrderForward ==
  ASSUME Inv, Ordered, Counted, Increasing, Past, Receive,
         UNCHANGED <<relay, nSynth, final, xcount>>, BarrierNo' = BarrierNo,
         NEW e \in Message, Ahead(e.seq) + Off(nSynth) = Off(Head(xout).seq),
         sent' \in {sent, Append(sent, e)}
  PROVE  Counted' /\ Increasing'
<1> DEFINE o(i) == Dist(BarrierNo % Modulus, xout[i].seq)
           p(i) == Dist(BarrierNo % Modulus, xout'[i].seq)
           n == Dist(BarrierNo % Modulus, nSynth)
           a(j) == Dist(final % Modulus, sent[j].seq)
           b(j) == Dist(final % Modulus, sent'[j].seq)
           S == xcount - BarrierNo
           L == Len(xout)
           K == Len(sent)
<1>1. /\ L \in Nat /\ L >= 1 /\ Len(xout') = L - 1 /\ Head(xout) = xout[1]
      /\ \A i \in 1..Len(xout') : xout'[i] = xout[i + 1]
      /\ sent \in Seq(Message) /\ K \in Nat
  BY Received DEF Inv, TypeOK
<1>2. \A i \in 1..Len(xout') : p(i) = o(i + 1) /\ i + 1 \in 1..L BY <1>1
<1>3. \A j \in 1..Len(sent') :
        \/ j \in 1..K /\ sent'[j] = sent[j]
        \/ j = K + 1 /\ sent'[j] = e
  BY <1>1
<1>4. \A j \in 1..Len(sent') : (j \in 1..K /\ b(j) = a(j)) \/ (j = K + 1 /\ b(j) + n = o(1))
  <2>1. Dist(final % Modulus, e.seq) + n = o(1) BY <1>1 DEF Ahead, Off
  <2> SUFFICES ASSUME NEW j \in 1..Len(sent')
               PROVE  (j \in 1..K /\ b(j) = a(j)) \/ (j = K + 1 /\ b(j) + n = o(1))
    OBVIOUS
  <2>2. CASE j \in 1..K /\ sent'[j] = sent[j]
    <3>1. sent'[j].seq = sent[j].seq BY <2>2
    <3>2. b(j) = a(j) BY <3>1
    <3> HIDE DEF b, a
    <3> QED BY <2>2, <3>2
  <2>3. CASE j = K + 1 /\ sent'[j] = e
    <3>1. b(j) = Dist(final % Modulus, e.seq) BY <2>3
    <3> QED BY <2>1, <2>3, <3>1
  <2> QED BY <1>3, <2>2, <2>3
<1>5. /\ S \in Int /\ n \in Int /\ \A i \in 1..L : o(i) \in Int
      /\ \A j \in 1..K : a(j) \in Int
  <2>1. TypeOK /\ BarrierNo \in Nat BY BarrierNat DEF Inv
  <2>2. /\ \A i \in 1..L : Off(xout[i].seq) \in 0..(Modulus - 1)
        /\ \A j \in 1..K : Ahead(sent[j].seq) \in 0..(Modulus - 1)
        /\ Off(nSynth) \in 0..(Modulus - 1)
    BY <2>1, OffRange
  <2>3. 0..(Modulus - 1) \subseteq Int BY ModulusAssumption
  <2>4. S \in Int BY <2>1 DEF TypeOK
  <2> QED BY <2>2, <2>3, <2>4 DEF Off, Ahead
<1>6. b(K + 1) = Dist(final % Modulus, e.seq) \/ K + 1 \notin 1..Len(sent')
  BY <1>1, <1>3
<1>7. Dist(final % Modulus, e.seq) \in Int
  <2>1. e.seq \in 0..(Modulus - 1) BY DEF Message
  <2>2. (final % Modulus) \in 0..(Modulus - 1) BY ModRange DEF Inv, TypeOK
  <2>3. Dist(final % Modulus, e.seq) \in 0..(Modulus - 1) BY <2>1, <2>2, DistRange
  <2> QED BY <2>3
<1>8. \A i \in 1..L : o(1) <= o(i) /\ o(1) <= S
  BY <1>1 DEF Ordered, Off
<1>9. /\ n <= S /\ \A i \in 1..L : n <= o(i)
      /\ \A j \in 1..K : a(j) + n <= S /\ \A i \in 1..L : a(j) + n <= o(i)
  BY DEF Counted, Off, Ahead
<1>10. \A j \in 1..K : \A i \in 1..j : a(i) <= a(j) BY DEF Increasing, Ahead
<1>11. Counted' <=>
         (Past' => /\ n <= S /\ \A i \in 1..Len(xout') : n <= p(i)
                   /\ \A j \in 1..Len(sent') :
                        b(j) + n <= S /\ \A i \in 1..Len(xout') : b(j) + n <= p(i))
  BY DEF Counted, Off, Ahead
<1>12. Increasing' <=> \A j \in 1..Len(sent') : \A i \in 1..j : b(i) <= b(j)
  BY DEF Increasing, Ahead
<1> HIDE DEF o, p, n, a, b, S, L, K
<1>13. Counted'
  <2>1. ASSUME NEW j \in 1..Len(sent')
        PROVE  b(j) + n <= S /\ \A i \in 1..Len(xout') : b(j) + n <= p(i)
    <3>1. CASE j \in 1..K /\ b(j) = a(j) BY <1>2, <1>9, <3>1
    <3>2. CASE b(j) + n = o(1) BY <1>1, <1>2, <1>8, <3>2
    <3> QED BY <1>4, <3>1, <3>2
  <2> QED BY <1>2, <1>9, <1>11, <2>1
<1>14. Increasing'
  <2> SUFFICES ASSUME NEW j \in 1..Len(sent'), NEW i \in 1..j PROVE b(i) <= b(j)
    BY <1>12
  <2>1. i \in 1..Len(sent') /\ j \in Nat /\ i <= j OBVIOUS
  <2>2. CASE j \in 1..K /\ b(j) = a(j)
    <3>1. i \in 1..K /\ b(i) = a(i) BY <1>1, <1>4, <2>1, <2>2
    <3> QED BY <1>10, <2>2, <3>1
  <2>3. CASE j = K + 1 /\ b(j) + n = o(1)
    <3>1. b(j) \in Int BY <1>6, <1>7, <2>3
    <3>2. CASE i \in 1..K /\ b(i) = a(i)
      <4>1. a(i) + n <= o(1) BY <1>1, <1>9, <3>2 DEF L
      <4>2. a(i) \in Int BY <1>5, <3>2
      <4> QED BY <1>5, <2>3, <3>1, <3>2, <4>1, <4>2
    <3>3. CASE i = K + 1 BY <2>3, <3>1, <3>3
    <3> QED BY <1>4, <2>1, <3>2, <3>3
  <2> QED BY <1>4, <2>2, <2>3
<1> QED BY <1>13, <1>14

\* A live request does not change the barrier's number.
LEMMA WriteLiveNo == ASSUME Inv, WriteLive PROVE BarrierNo' = BarrierNo
<1> PICK k \in Kinds : xin' = Append(xin, LiveRequest(k)) /\ asked' = Append(asked, k)
  BY DEF WriteLive
<1>1. /\ xin \in Seq(Request) /\ Len(xin) \in Nat /\ xcount \in Nat
      /\ asked \in Seq(RequestKind) /\ Len(asked) \in Nat
  BY DEF Inv, TypeOK
<1>2. Len(xin') = Len(xin) + 1 /\ Len(asked') = Len(asked) + 1 BY <1>1
<1>3. xcount' = xcount BY DEF WriteLive, displayVars
<1> QED BY <1>1, <1>2, <1>3 DEF BarrierNo

\* A request without an answer only moves the display on.
LEMMA OrderLater ==
  ASSUME Inv, OrderInv, xout' = xout, BarrierNo' = BarrierNo, xcount' = xcount + 1,
         UNCHANGED <<relay, nSynth, sent, final>>
  PROVE  OrderInv'
<1>1. BarrierNo \in Nat /\ xcount \in Nat /\ TypeOK BY BarrierNat DEF Inv, TypeOK
<1>2. xcount - BarrierNo \in Int /\ xcount' - BarrierNo' = (xcount - BarrierNo) + 1 BY <1>1
<1>3. /\ \A i \in 1..Len(xout) : Off(xout[i].seq) \in 0..(Modulus - 1)
      /\ \A j \in 1..Len(sent) : Ahead(sent[j].seq) \in 0..(Modulus - 1)
      /\ Off(nSynth) \in 0..(Modulus - 1)
  BY <1>1, OffRange
<1>4. \A x : Off(x)' = Off(x) BY DEF Off
<1>5. ASSUME NEW x \in Int, x <= xcount - BarrierNo PROVE x <= xcount' - BarrierNo'
  BY <1>2, <1>5
<1>6. Ordered'
  <2> SUFFICES ASSUME NEW k \in 1..Len(xout), Past \/ Opens(xout[k]), NEW i \in k..Len(xout)
               PROVE  /\ Off(xout[i].seq) <= xcount' - BarrierNo'
                      /\ \A j \in i..Len(xout) : Off(xout[i].seq) <= Off(xout[j].seq)
    BY DEF Ordered, Past, Off
  <2>1. i \in 1..Len(xout) OBVIOUS
  <2>2. Off(xout[i].seq) \in Int BY <1>3, <2>1
  <2> QED BY <1>5, <2>2 DEF OrderInv, Ordered
<1>7. Counted'
  <2> SUFFICES ASSUME Past
               PROVE  /\ Off(nSynth) <= xcount' - BarrierNo'
                      /\ \A i \in 1..Len(xout) : Off(nSynth) <= Off(xout[i].seq)
                      /\ \A j \in 1..Len(sent) :
                           /\ Ahead(sent[j].seq) + Off(nSynth) <= xcount' - BarrierNo'
                           /\ \A i \in 1..Len(xout) :
                                Ahead(sent[j].seq) + Off(nSynth) <= Off(xout[i].seq)
    BY DEF Counted, Past, Off, Ahead
  <2>1. Off(nSynth) \in Int /\ \A j \in 1..Len(sent) : Ahead(sent[j].seq) + Off(nSynth) \in Int
    BY <1>3
  <2> QED BY <1>5, <2>1 DEF OrderInv, Counted
<1>8. Increasing' BY DEF OrderInv, Increasing, Ahead
<1> QED BY <1>6, <1>7, <1>8 DEF OrderInv

\* Replayed events have the final number.
LEMMA ReplayedAtFinal ==
  ASSUME Inv, TakeBarrier
  PROVE  \A j \in 1..Len(sent') : Dist(final % Modulus, sent'[j].seq) = 0
<1> DEFINE replay == [i \in 1..Len(buffered) |-> [buffered[i] EXCEPT !.seq = Stamp(buffered[i])]]
<1>1. sent = <<>> /\ sent' = sent \o replay BY DEF TakeBarrier, Inv, PhasesOK
<1>2. buffered \in Seq(Message) /\ Len(buffered) \in Nat /\ final \in Nat BY DEF Inv, TypeOK
<1>3. Len(sent') = Len(buffered) /\ \A i \in 1..Len(sent') : sent'[i] = replay[i]
  BY <1>1, <1>2
<1>4. ASSUME NEW i \in 1..Len(buffered) PROVE replay[i].seq = final % Modulus
  <2>1. buffered[i] \in Message BY <1>2
  <2>2. replay[i] = [buffered[i] EXCEPT !.seq = Stamp(buffered[i])] OBVIOUS
  <2> QED BY <2>1, <2>2 DEF Message, Stamp
<1>5. Dist(final % Modulus, (final + 0) % Modulus) = 0 % Modulus BY <1>2, DistPlus
<1>6. final + 0 = final BY <1>2
<1>7. 0 % Modulus = 0 BY ModSmall, ModulusAssumption
<1> HIDE DEF replay
<1> QED BY <1>3, <1>4, <1>5, <1>6, <1>7

\* The forwarding counts on from the reply that is taken for the barrier's.
LEMMA CountedFrom ==
  ASSUME Inv, Ordered, Receive, xcount' = xcount, final' = final, BarrierNo' = BarrierNo,
         nSynth' = Head(xout).seq, Opens(xout[1]),
         \A j \in 1..Len(sent') : Dist(final % Modulus, sent'[j].seq) = 0
  PROVE  Counted' /\ Increasing'
<1>1. /\ Len(xout) \in Nat /\ Len(xout) >= 1 /\ Len(xout') = Len(xout) - 1 /\ Head(xout) = xout[1]
      /\ \A i \in 1..Len(xout') : xout'[i] = xout[i + 1]
  BY Received DEF Inv, TypeOK
<1>2. /\ Off(xout[1].seq) <= xcount - BarrierNo
      /\ \A i \in 1..Len(xout) : Off(xout[1].seq) <= Off(xout[i].seq)
  BY <1>1 DEF Ordered
<1>3. BarrierNo \in Nat BY BarrierNat DEF Inv
<1>4. Off(xout[1].seq) \in 0..(Modulus - 1) BY <1>1, <1>3, OffRange DEF Inv
<1> DEFINE n == Dist(BarrierNo % Modulus, xout[1].seq)
           S == xcount - BarrierNo
           p(i) == Dist(BarrierNo % Modulus, xout'[i].seq)
           b(j) == Dist(final % Modulus, sent'[j].seq)
<1>5. n \in Int /\ n <= S BY <1>2, <1>4 DEF Off
<1>6. \A i \in 1..Len(xout') : i + 1 \in 1..Len(xout) BY <1>1
<1>7. \A i \in 1..Len(xout') : n <= p(i) BY <1>1, <1>2, <1>6 DEF Off
<1>8. \A j \in 1..Len(sent') : b(j) = 0 OBVIOUS
<1>9. Counted' <=>
         (Past' => /\ n <= S /\ \A i \in 1..Len(xout') : n <= p(i)
                   /\ \A j \in 1..Len(sent') :
                        b(j) + n <= S /\ \A i \in 1..Len(xout') : b(j) + n <= p(i))
  BY <1>1 DEF Counted, Off, Ahead
<1>10. Increasing' <=> \A j \in 1..Len(sent') : \A i \in 1..j : b(i) <= b(j)
  BY DEF Increasing, Ahead
<1> HIDE DEF n, S, p, b
<1>11. \A j \in 1..Len(sent') : b(j) + n = n BY <1>5, <1>8
<1>12. Counted' BY <1>5, <1>7, <1>9, <1>11
<1>13. \A j \in 1..Len(sent') : \A i \in 1..j : i \in 1..Len(sent') OBVIOUS
<1>14. Increasing' BY <1>8, <1>10, <1>13
<1> QED BY <1>12, <1>14

LEMMA OrderStep == MaxLive < Modulus /\ NumInv /\ OrderInv /\ [Next]_vars => OrderInv'
<1> SUFFICES ASSUME MaxLive < Modulus, NumInv, OrderInv, [Next]_vars PROVE OrderInv'
  OBVIOUS
<1>0. Inv /\ Inv' /\ BarrierNo \in Nat BY InvStep, BarrierNat DEF NumInv, Inv
<1> USE DEF OrderInv
<1>1. CASE UNCHANGED <<xout, xcount, final, nSynth, sent>> /\ BarrierNo' = BarrierNo /\ Past' = Past
  BY <1>1 DEF Ordered, Counted, Increasing, Off, Ahead, Opens
<1>2. CASE WriteSynth \/ ReceiveLive
  <2>1. /\ relay' = "drain" /\ sent' = <<>> /\ xout' = xout
        /\ \A i \in 1..Len(xout) : ~Opens(xout[i])
    BY <1>0, <1>2, SynthOnly DEF WriteSynth, ReceiveLive, Inv, PhasesOK, relayVars
  <2> QED BY <2>1 DEF Ordered, Counted, Increasing, Past, Opens
<1>3. CASE WriteLive
  <2>1. UNCHANGED <<xout, xcount, relay, final, nSynth, sent>> BY <1>3 DEF WriteLive, relayVars, displayVars
  <2>2. BarrierNo' = BarrierNo
    BY <1>0, <1>3, WriteLiveNo
  <2> QED BY <1>1, <2>1, <2>2 DEF Past
<1>4. CASE Count \/ CloseDone \/ SeeDone \/ UNCHANGED vars
  <2>1. UNCHANGED <<xout, xcount, xin, asked, final, nSynth, sent>>
    BY <1>4 DEF Count, CloseDone, SeeDone, vars, mainVars, relayVars, displayVars
  <2>2. Past' = Past
    BY <1>4 DEF Past, Count, CloseDone, SeeDone, vars, mainVars, relayVars, displayVars
  <2> QED BY <1>1, <2>1, <2>2 DEF BarrierNo
<1>5. CASE Execute
  <2>1. BarrierNo' = BarrierNo /\ xcount' = xcount + 1 /\ xcount \in Nat
        /\ Len(xin') = Len(xin) - 1 /\ Len(xin) \in Nat /\ Head(xin) \in Request
    BY <1>0, <1>5, Executed
  <2>2. UNCHANGED <<relay, nSynth, sent, final, asked>> BY <1>5 DEF Execute, mainVars, relayVars
  <2>3. CASE xout' = xout
    BY <1>0, <2>1, <2>2, <2>3, OrderLater
  <2>4. ASSUME NEW kind \in {"reply", "error"}, xout' = Append(xout, Msg(kind, Head(xin)))
        PROVE  OrderInv'
    <3> DEFINE m == Msg(kind, Head(xin))
    <3>1. m \in Message /\ m.seq = xcount' % Modulus BY <2>1, MsgType DEF Msg
    <3> HIDE DEF m
    <3>2. xcount <= xcount' /\ xcount' + Len(xin') = xcount + Len(xin) BY <2>1
    <3>3. Ordered' /\ Counted' BY <1>0, <2>1, <2>2, <2>4, <3>1, <3>2, OrderAppend DEF m
    <3>4. Increasing' BY <2>2 DEF Increasing, Ahead
    <3> QED BY <3>3, <3>4
  <2> QED BY <1>5, <2>3, <2>4 DEF Execute
<1>6. CASE Notify
  <2> PICK kind \in {"focus", "event"} : xout' = Append(xout, Msg(kind, NoRequest))
    BY <1>6 DEF Notify
  <2> DEFINE m == Msg(kind, NoRequest)
  <2>1. UNCHANGED <<relay, nSynth, sent, final, asked, xcount, xin>>
    BY <1>6 DEF Notify, mainVars, relayVars
  <2>2. m \in Message /\ m.seq = xcount' % Modulus
    BY <1>0, <2>1, MsgType DEF Msg, Inv, TypeOK
  <2> HIDE DEF m
  <2>3. BarrierNo' = BarrierNo BY <2>1 DEF BarrierNo
  <2>4. xcount <= xcount' /\ xcount' + Len(xin') = xcount + Len(xin)
    BY <1>0, <2>1 DEF Inv, TypeOK
  <2>5. Ordered' /\ Counted' BY <1>0, <2>1, <2>2, <2>3, <2>4, OrderAppend DEF m
  <2>6. Increasing' BY <2>1 DEF Increasing, Ahead
  <2> QED BY <2>5, <2>6
<1>7. CASE Drain \/ DrainToBarrier
  <2>1. /\ Receive /\ UNCHANGED <<xcount, xin, asked, final, sent>> /\ ~Past /\ ~Past'
    BY <1>7 DEF Drain, DrainToBarrier, mainVars, displayVars, Past
  <2>2. BarrierNo' = BarrierNo BY <2>1 DEF BarrierNo
  <2>3. Ordered' BY <1>0, <2>1, <2>2, OrderReceive
  <2> QED BY <2>1, <2>3 DEF Counted, Increasing, Ahead
<1>8. CASE TakeBarrier
  <2>1. /\ Receive /\ Head(xout).kind = "reply" /\ nSynth' = Head(xout).seq
        /\ UNCHANGED <<xcount, xin, asked, final, run>>
    BY <1>8 DEF TakeBarrier, mainVars, displayVars
  <2>2. BarrierNo' = BarrierNo BY <2>1 DEF BarrierNo
  <2>3. Head(xout) = xout[1] /\ Len(xout) \in Nat /\ 1 \in 1..Len(xout)
    BY <1>0, <2>1, Received DEF Inv, TypeOK
  <2>4. Opens(xout[1])
    <3>1. AnswerOK(xout[1]) BY <1>0, <2>3 DEF Inv, AnswersOK
    <3> QED BY <2>1, <2>3, <3>1 DEF AnswerOK, Opens, Barrier
  <2>5. Ordered' BY <1>0, <2>1, <2>2, <2>4, OrderReceive
  <2>6. \A j \in 1..Len(sent') : Dist(final % Modulus, sent'[j].seq) = 0
    BY <1>0, <1>8, ReplayedAtFinal
  <2>7. Counted' /\ Increasing'
    BY <1>0, <2>1, <2>2, <2>3, <2>4, <2>6, CountedFrom
  <2> QED BY <2>5, <2>7
<1>9. CASE Forward
  <2> DEFINE m == Head(xout)
             e == [m EXCEPT !.seq = Shifted(m.seq)]
  <2>1. /\ Receive /\ Past /\ UNCHANGED <<relay, nSynth, final, xcount, xin, asked>>
        /\ sent' \in {sent, Append(sent, e)}
    BY <1>9 DEF Forward, mainVars, displayVars, Past
  <2>2. BarrierNo' = BarrierNo BY <2>1 DEF BarrierNo
  <2>3. m \in Message /\ m = xout[1] /\ 1 \in 1..Len(xout)
    BY <1>0, <2>1, Received DEF Inv, TypeOK
  <2>4. final \in Nat /\ nSynth \in 0..(Modulus - 1) /\ m.seq \in 0..(Modulus - 1)
    BY <1>0, <2>3 DEF Inv, TypeOK, Message
  <2> HIDE DEF m
  <2>5. /\ Beyond(Shifted(m.seq)) = Dist(nSynth, m.seq) BY <2>4, ShiftedIs
  <2>6. Ahead(Shifted(m.seq)) = Dist(nSynth, m.seq) BY <2>5 DEF Beyond, Ahead, Dist
  <2>7. Off(nSynth) <= Off(m.seq) BY <2>1, <2>3 DEF Counted
  <2>8. (BarrierNo % Modulus) \in 0..(Modulus - 1) BY <1>0, ModRange
  <2>9. Dist(nSynth, m.seq) = Off(m.seq) - Off(nSynth)
    BY <2>4, <2>7, <2>8, DistDiff DEF Off
  <2>10. Off(m.seq) \in Int /\ Off(nSynth) \in Int
    <3>1. Off(m.seq) \in 0..(Modulus - 1) /\ Off(nSynth) \in 0..(Modulus - 1)
      BY <2>4, <2>8, DistRange DEF Off
    <3> QED BY <3>1
  <2>11. Shifted(m.seq) \in 0..(Modulus - 1)
    <3>1. final + m.seq + Modulus - nSynth \in Nat BY <2>4, ModulusAssumption
    <3> QED BY <3>1, ModRange DEF Shifted
  <2>12. e \in Message /\ e.seq = Shifted(m.seq) BY <2>3, <2>11 DEF Message
  <2>13. Ahead(e.seq) + Off(nSynth) = Off(m.seq) BY <2>6, <2>9, <2>10, <2>12
  <2> HIDE DEF e
  <2>14. Counted' /\ Increasing'
    BY <1>0, <2>1, <2>2, <2>12, <2>13, OrderForward DEF m
  <2>15. Ordered' BY <1>0, <2>1, <2>2, OrderReceive DEF Past
  <2> QED BY <2>14, <2>15
<1>10. CASE RelayDirect
  <2> DEFINE m == Head(xout)
             e == [m EXCEPT !.hidden = m.kind = "reply" /\ m.seq \in suppressed]
  <2>1. /\ Receive /\ Past /\ UNCHANGED <<relay, nSynth, final, xcount, xin, asked>>
        /\ sent' = Append(sent, e)
    BY <1>10 DEF RelayDirect, displayVars, Past
  <2>2. BarrierNo' = BarrierNo BY <2>1 DEF BarrierNo
  <2>3. m \in Message BY <1>0, <2>1, Received DEF Inv, TypeOK
  <2>4. BarrierNo = 0 /\ final = 0 /\ nSynth = 0 BY <1>0, <1>10 DEF RelayDirect, Inv, PhasesOK
  <2> HIDE DEF m
  <2>5. e \in Message /\ e.seq = m.seq /\ m.seq \in 0..(Modulus - 1) BY <2>3 DEF Message
  <2>6. 0 % Modulus = 0 BY ModSmall, ModulusAssumption
  <2>7. Dist(0, 0) = 0
    <3>1. Dist(0 % Modulus, (0 + 0) % Modulus) = 0 % Modulus BY DistPlus
    <3> QED BY <2>6, <3>1
  <2>8. Dist(0, m.seq) \in 0..(Modulus - 1) BY <2>5, DistRange, ModulusAssumption
  <2>9. Ahead(e.seq) + Off(nSynth) = Off(m.seq)
    BY <2>4, <2>5, <2>6, <2>7, <2>8 DEF Ahead, Off
  <2> HIDE DEF e
  <2>10. Counted' /\ Increasing'
    BY <1>0, <2>1, <2>2, <2>5, <2>9, OrderForward DEF m
  <2>11. Ordered' BY <1>0, <2>1, <2>2, OrderReceive DEF Past
  <2> QED BY <2>10, <2>11
<1> QED BY <1>2, <1>3, <1>4, <1>5, <1>6, <1>7, <1>8, <1>9, <1>10 DEF Next, Main, Relay

LEMMA OrderInit == Init => OrderInv
<1> SUFFICES ASSUME Init PROVE OrderInv
  OBVIOUS
<1>1. /\ asked = <<>> /\ xin = <<>> /\ xout = <<>> /\ sent = <<>> /\ nSynth = 0
      /\ xcount = connSeq
      /\ \/ relay = "drain"
         \/ relay = "direct" /\ connSeq = 0
  BY DEF Init
<1>2. CASE relay = "drain" BY <1>1, <1>2 DEF OrderInv, Ordered, Counted, Increasing, Past
<1>3. CASE relay = "direct" /\ connSeq = 0
  <2>1. BarrierNo = 0 /\ xcount = 0 BY <1>1, <1>3 DEF BarrierNo
  <2>2. 0 % Modulus = 0 BY ModSmall, ModulusAssumption
  <2>3. Dist(0 % Modulus, (0 + 0) % Modulus) = 0 % Modulus BY DistPlus
  <2>4. Off(nSynth) = 0 BY <1>1, <2>1, <2>2, <2>3 DEF Off
  <2> QED BY <1>1, <2>1, <2>4 DEF OrderInv, Ordered, Counted, Increasing
<1> QED BY <1>1, <1>2, <1>3

\* While fewer requests are made than there are numbers, the numbers the
\* application sees never decrease, never fall behind SESSION_LIVE and never run
\* ahead of the application, even when the barrier is missed
\* (client.go:1173-1180).
THEOREM NumbersMonotone == ASSUME MaxLive < Modulus PROVE Spec => []NeverBackwards
<1>1. NumInv /\ OrderInv => NeverBackwards
  <2> SUFFICES ASSUME NumInv, OrderInv, NEW j \in 1..Len(sent)
               PROVE  /\ Beyond(sent[j].seq) <= Len(asked)
                      /\ \A i \in 1..j : Beyond(sent[i].seq) <= Beyond(sent[j].seq)
    BY DEF NeverBackwards
  <2>1. \A x : Beyond(x) = Ahead(x) BY DEF Beyond, Ahead, Dist
  <2>2. BarrierNo \in Nat /\ TypeOK /\ PhasesOK BY BarrierNat DEF NumInv, Inv
  <2>3. Past BY <2>2 DEF Past, PhasesOK, TypeOK
  <2>4. xcount - BarrierNo <= Len(asked) /\ xcount - BarrierNo \in 0..(Modulus - 1)
    BY <2>2, <2>3, LiveRange DEF NumInv, Inv, AfterBarrier
  <2>5. Ahead(sent[j].seq) + Off(nSynth) <= xcount - BarrierNo BY <2>3 DEF OrderInv, Counted
  <2>6. Ahead(sent[j].seq) \in 0..(Modulus - 1) /\ Off(nSynth) \in 0..(Modulus - 1)
    BY <2>2, OffRange
  <2>7. Len(asked) \in Nat BY <2>2 DEF TypeOK
  <2>8. Ahead(sent[j].seq) <= Len(asked) BY <2>4, <2>5, <2>6, <2>7
  <2> QED BY <2>1, <2>8 DEF OrderInv, Increasing
<1> QED BY <1>1, NumInvInit, NumInvStep, OrderInit, OrderStep, PTL DEF Spec

-----------------------------------------------------------------------------
(* OnlyGpuRewritten *)

\* Requests are only added, so that what was misnumbered stays so.
LEMMA MisnumberedStays ==
  ASSUME Inv, [Next]_vars
  PROVE  /\ \A n : Misnumbered(n) => Misnumbered(n)'
         /\ Len(asked) <= Len(asked') /\ Len(asked') \in Nat
         /\ \A n \in 1..Len(asked) : n \in 1..Len(asked') /\ asked'[n] = asked[n]
<1>0. asked \in Seq(RequestKind) /\ Len(asked) \in Nat BY DEF Inv, TypeOK
<1>1. /\ Len(asked) <= Len(asked') /\ Len(asked') \in Nat
      /\ \A n \in 1..Len(asked) : n \in 1..Len(asked') /\ asked'[n] = asked[n]
  <2>1. CASE WriteLive
    <3>1. PICK k \in Kinds : asked' = Append(asked, k) BY <2>1 DEF WriteLive
    <3> QED BY <1>0, <3>1
  <2>2. CASE asked' = asked BY <1>0, <2>2
  <2> QED
    BY <2>1, <2>2 DEF Next, Main, Relay, WriteSynth, Count, ReceiveLive, CloseDone, Execute,
       Notify, Drain, SeeDone, DrainToBarrier, TakeBarrier, Forward, RelayDirect, vars, mainVars
<1> QED BY <1>1 DEF Misnumbered

LEMMA CountStep ==
  ASSUME Inv, CountOK, [Next]_vars
  PROVE  CountOK'
<1>0. asked \in Seq(RequestKind) /\ Len(asked) \in Nat /\ connSeq \in Nat
  BY DEF Inv, TypeOK
<1>1. CASE UNCHANGED <<asked, uncounted, connSeq>> /\ suppressed' \subseteq suppressed
           /\ (relay' = "direct" => relay = "direct")
  BY <1>1 DEF CountOK, Misnumbered
<1>2. CASE WriteSynth \/ ReceiveLive
  <2>1. relay' = "drain" BY <1>2, SynthOnly DEF WriteSynth, ReceiveLive, relayVars
  <2> QED BY <2>1 DEF CountOK
<1>3. CASE WriteLive
  <2> PICK k \in Kinds : uncounted' = LiveRequest(k) /\ asked' = Append(asked, k)
    BY <1>3 DEF WriteLive
  <2>1. Len(asked') = Len(asked) + 1 /\ asked'[Len(asked')] = k BY <1>0
  <2>2. uncounted = NoRequest /\ UNCHANGED <<connSeq, suppressed, relay>>
    BY <1>3 DEF WriteLive, relayVars
  <2>3. uncounted'.kind = k /\ uncounted' # NoRequest BY DEF LiveRequest, NoRequest
  <2>4. CASE relay = "direct"
    <3>1. connSeq <= Len(asked) /\ (connSeq = Len(asked) \/ Misnumbered(connSeq + 1))
      BY <2>2, <2>4 DEF CountOK
    <3>2. connSeq' + 1 <= Len(asked') /\ (connSeq' + 1 = Len(asked') \/ Misnumbered(connSeq + 1)')
      BY <1>0, <2>1, <2>2, <3>1, MisnumberedStays
    <3>3. \A s \in suppressed' : \E n \in 1..Len(asked') :
            s = n % Modulus /\ (asked'[n] = "gpu" \/ Misnumbered(n)')
      BY <2>2, <2>4, MisnumberedStays DEF CountOK
    <3> QED BY <2>1, <2>3, <3>2, <3>3 DEF CountOK
  <2> QED BY <2>2, <2>4 DEF CountOK
<1>4. CASE Count
  <2>1. uncounted # NoRequest /\ uncounted' = NoRequest /\ asked' = asked /\ relay' = relay
    BY <1>4 DEF Count, relayVars
  <2>2. \A n : Misnumbered(n)' <=> Misnumbered(n) BY <2>1 DEF Misnumbered
  <2>3. ASSUME relay = "direct" PROVE CountOK'
    <3>1. /\ connSeq + 1 <= Len(asked) /\ uncounted.kind = asked[Len(asked)]
          /\ connSeq + 1 = Len(asked) \/ Misnumbered(connSeq + 1)
      BY <2>1, <2>3 DEF CountOK
    <3>2. Len(asked) \in 1..Len(asked) /\ connSeq + 1 \in 1..Len(asked) BY <1>0, <3>1
    <3>3. CASE IsSetup(uncounted)
      <4>1. connSeq' = connSeq /\ suppressed' = suppressed BY <1>4, <3>3 DEF Count
      <4>2. asked[Len(asked)] = "segment" BY <3>1, <3>3 DEF IsSetup
      <4>3. connSeq + 1 = Len(asked) => Misnumbered(connSeq + 1)
        BY <3>2, <4>2 DEF Misnumbered
      <4>4. connSeq <= Len(asked) BY <1>0, <3>1
      <4> QED BY <2>1, <2>2, <2>3, <3>1, <4>1, <4>3, <4>4 DEF CountOK
    <3>4. CASE ~IsSetup(uncounted)
      <4>1. /\ connSeq' = connSeq + 1
            /\ suppressed' = suppressed \cup
                 (IF uncounted.kind = "gpu" THEN {NumberOf(connSeq)} ELSE {})
        BY <1>4, <3>4 DEF Count
      <4>2. Misnumbered(connSeq + 1) => Misnumbered(connSeq' + 1)
        BY <1>0, <4>1 DEF Misnumbered
      <4>3. ASSUME NEW s \in suppressed'
            PROVE  \E n \in 1..Len(asked) :
                     s = n % Modulus /\ (asked[n] = "gpu" \/ Misnumbered(n))
        <5>1. CASE s \in suppressed BY <2>3, <5>1 DEF CountOK
        <5>2. CASE uncounted.kind = "gpu" /\ s = NumberOf(connSeq)
          <6>1. s = (connSeq + 1) % Modulus BY <5>2 DEF NumberOf
          <6>2. asked[connSeq + 1] = "gpu" \/ Misnumbered(connSeq + 1) BY <3>1, <5>2
          <6> QED BY <3>2, <6>1, <6>2
        <5> QED BY <4>1, <4>3, <5>1, <5>2
      <4> QED BY <2>1, <2>2, <3>1, <4>1, <4>2, <4>3 DEF CountOK
    <3> QED BY <3>3, <3>4
  <2> QED BY <2>1, <2>3 DEF CountOK
<1>5. CASE RelayDirect
  <2>1. UNCHANGED <<asked, uncounted, connSeq, relay>> /\ suppressed' \subseteq suppressed
    BY <1>5 DEF RelayDirect
  <2> QED BY <1>1, <2>1
<1> QED
  BY <1>1, <1>2, <1>3, <1>4, <1>5
  DEF Next, Main, Relay, CloseDone, Execute, Notify, Drain, SeeDone, DrainToBarrier, TakeBarrier,
      Forward, vars, mainVars, relayVars

\* A reply with a registered number answers the request that registered it.
LEMMA HiddenIsGpu ==
  ASSUME MaxLive < Modulus, Inv, CountOK, RelayDirect,
         Head(xout).kind = "reply", Head(xout).seq \in suppressed
  PROVE  Head(xout).of.kind = "gpu" \/ Misnumbered(Head(xout).of.n)
<1> DEFINE m == Head(xout)
<1>1. relay = "direct" /\ Past /\ Receive BY DEF RelayDirect, Past
<1>2. /\ m.of.n \in 1..Len(asked) /\ m.of.kind = asked[m.of.n]
      /\ m.seq = (BarrierNo + m.of.n) % Modulus
  BY <1>1, FirstAnswer
<1>3. BarrierNo = 0 BY <1>1 DEF Inv, PhasesOK
<1>4. PICK n \in 1..Len(asked) : m.seq = n % Modulus /\ (asked[n] = "gpu" \/ Misnumbered(n))
  BY <1>1 DEF CountOK
<1>5. Len(asked) \in Nat /\ Len(asked) <= MaxLive /\ MaxLive \in Nat
  BY BoundsAssumption DEF Inv, TypeOK, PhasesOK
<1> HIDE DEF m
<1>6. n \in 0..(2 * Modulus - 1) /\ n < Modulus BY <1>5, ModulusAssumption
<1>7. m.of.n \in 0..(2 * Modulus - 1) /\ m.of.n < Modulus /\ BarrierNo + m.of.n = m.of.n
  BY <1>2, <1>3, <1>5, ModulusAssumption
<1>8. n % Modulus = n BY <1>6, ModSmall
<1>9. m.of.n % Modulus = m.of.n BY <1>7, ModSmall
<1> QED BY <1>2, <1>4, <1>7, <1>8, <1>9 DEF m

LEMMA GpuStep ==
  MaxLive < Modulus /\ NumInv /\ GpuInv /\ [Next]_vars => GpuInv'
<1> SUFFICES ASSUME MaxLive < Modulus, NumInv, GpuInv, [Next]_vars
             PROVE  GpuInv'
  OBVIOUS
<1>0. Inv /\ BufferedOK /\ CountOK /\ OnlyGpuRewritten BY DEF NumInv, GpuInv
<1>1. CountOK' /\ \A n : Misnumbered(n) => Misnumbered(n)'
  BY <1>0, CountStep, MisnumberedStays
<1>2. sent \in Seq(Message) BY <1>0 DEF Inv, TypeOK
<1>3. ASSUME NEW e \in Message, sent' = Append(sent, e),
             e.hidden => e.of.kind = "gpu" \/ Misnumbered(e.of.n)
      PROVE  OnlyGpuRewritten'
  <2>1. \A i \in 1..Len(sent') :
          IF i = Len(sent) + 1 THEN sent'[i] = e
                               ELSE i \in 1..Len(sent) /\ sent'[i] = sent[i]
    BY <1>2, <1>3
  <2> QED BY <1>0, <1>1, <1>3, <2>1 DEF OnlyGpuRewritten
<1>4. CASE sent' = sent BY <1>0, <1>1, <1>4 DEF OnlyGpuRewritten, GpuInv
<1>5. CASE TakeBarrier
  <2> DEFINE replay == [i \in 1..Len(buffered) |-> [buffered[i] EXCEPT !.seq = Stamp(buffered[i])]]
  <2>1. sent = <<>> /\ sent' = sent \o replay BY <1>0, <1>5 DEF TakeBarrier, Inv, PhasesOK
  <2>2. buffered \in Seq(Message) /\ Len(buffered) \in Nat BY <1>0 DEF Inv, TypeOK
  <2>3. Len(sent') = Len(buffered) /\ \A i \in 1..Len(sent') : sent'[i] = replay[i]
    BY <2>1, <2>2
  <2>4. ASSUME NEW i \in 1..Len(buffered) PROVE replay[i].hidden = FALSE
    <3>1. buffered[i] \in Message BY <2>2
    <3>2. replay[i] = [buffered[i] EXCEPT !.seq = Stamp(buffered[i])] OBVIOUS
    <3>3. buffered[i].hidden = FALSE BY <1>0 DEF BufferedOK
    <3> QED BY <3>1, <3>2, <3>3 DEF Message
  <2> HIDE DEF replay
  <2>5. \A i \in 1..Len(sent') : ~sent'[i].hidden BY <2>3, <2>4
  <2> QED BY <1>1, <2>5 DEF OnlyGpuRewritten, GpuInv
<1>6. CASE Forward
  <2> DEFINE m == Head(xout)
             e == [m EXCEPT !.seq = Shifted(m.seq)]
  <2>1. Receive /\ sent' \in {sent, Append(sent, e)} BY <1>6 DEF Forward
  <2>2. m \in Message /\ m = xout[1] /\ 1 \in 1..Len(xout)
    BY <1>0, <2>1, Received DEF Inv, TypeOK
  <2>3. m.hidden = FALSE BY <1>0, <2>2 DEF Inv, AnswersOK
  <2> HIDE DEF m
  <2>4. Shifted(m.seq) \in 0..(Modulus - 1)
    <3>1. m.seq \in 0..(Modulus - 1) /\ nSynth \in 0..(Modulus - 1) /\ final \in Nat
      BY <1>0, <2>2 DEF Inv, TypeOK, Message
    <3>2. final + m.seq + Modulus - nSynth \in Nat BY <3>1, ModulusAssumption
    <3> QED BY <3>2, ModRange DEF Shifted
  <2>5. e \in Message /\ ~e.hidden BY <2>2, <2>3, <2>4 DEF Message
  <2> HIDE DEF e
  <2> QED BY <1>1, <1>3, <1>4, <2>1, <2>5 DEF GpuInv
<1>7. CASE RelayDirect
  <2> DEFINE m == Head(xout)
             hide == m.kind = "reply" /\ m.seq \in suppressed
             e == [m EXCEPT !.hidden = hide]
  <2>1. Receive /\ sent' = Append(sent, e) BY <1>7 DEF RelayDirect
  <2>2. m \in Message BY <1>0, <2>1, Received DEF Inv
  <2>3. hide => m.of.kind = "gpu" \/ Misnumbered(m.of.n) BY <1>0, <1>7, HiddenIsGpu
  <2> HIDE DEF m
  <2>4. e \in Message /\ e.of = m.of /\ (e.hidden <=> hide) BY <2>2 DEF Message
  <2> HIDE DEF e, hide
  <2> QED BY <1>1, <1>3, <2>1, <2>3, <2>4 DEF GpuInv
<1>8. sent' = sent \/ TakeBarrier \/ Forward \/ RelayDirect
  BY DEF Next, Main, Relay, WriteSynth, WriteLive, Count, ReceiveLive, CloseDone, Execute, Notify,
         Drain, SeeDone, DrainToBarrier, vars, relayVars
<1> QED BY <1>1, <1>4, <1>5, <1>6, <1>7, <1>8 DEF GpuInv

LEMMA GpuInit == Init => GpuInv
<1> SUFFICES ASSUME Init PROVE GpuInv
  OBVIOUS
<1>1. /\ asked = <<>> /\ sent = <<>> /\ uncounted = NoRequest /\ suppressed = {}
      /\ relay = "direct" => connSeq = 0
  BY DEF Init
<1> QED BY <1>1 DEF GpuInv, CountOK, OnlyGpuRewritten

\* Only replies about GPU extensions are rewritten, although requests are counted
\* after they are written and the relay may have the reply first, and but for the
\* replies to what follows a request taken for a setup; while fewer requests are
\* made than there are numbers (client.go:376-381, 806-838, 1243-1260).
THEOREM GpuOnly == ASSUME MaxLive < Modulus PROVE Spec => []OnlyGpuRewritten
<1>1. GpuInv => OnlyGpuRewritten BY DEF GpuInv
<1> QED BY <1>1, NumInvInit, NumInvStep, GpuInit, GpuStep, PTL DEF Spec
=============================================================================
