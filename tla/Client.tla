------------------------------- MODULE Client -------------------------------
(***************************************************************************)
(* proxxxy-client: Run, handleX11Setup and handleX11Data of                *)
(* internal/client/client.go, with the X connections it opens to the real  *)
(* display (external: the display answers every query it is asked).        *)
(*                                                                         *)
(* synthRelay and relayXToServer appear by what they do to sequence        *)
(* numbers: on a connection opened by the application's own setup bytes    *)
(* the display's count is the application's; on a synthesised one the      *)
(* final number of SESSION_LIVE takes the place of the requests counted at *)
(* the barrier.                                                            *)
(***************************************************************************)
EXTENDS Wire

VARIABLES
  live,    \* live[c]: c has left the SESSION_RESUME loop (~inSynthesis)
  xconn    \* xconn[c][a]: c's X connection for a

clientVars == <<live, xconn>>

\* st: how it was opened; base: number of the last application request not
\* counted by the display after SESSION_LIVE; cnt: requests written since;
\* has: resources present on the display; bad: setup bytes or a first request
\* landed where they do not belong.
XConn == [st : {"none", "synth", "fresh"}, base : Nat, cnt : Nat,
          has : SUBSET Nat, bad : {"no", "setup", "request"}]
NoXConn == [st |-> "none", base |-> 0, cnt |-> 0, has |-> {},
            bad |-> "no"]

ClientTypeOK ==
  /\ live \in [Clients -> BOOLEAN]
  /\ xconn \in [Clients -> [Apps -> XConn]]

ClientInit ==
  /\ live = [c \in Clients |-> FALSE]
  /\ xconn = [c \in Clients |-> [a \in Apps |-> NoXConn]]

\* The next message c can read.
Inbox(c) == IF cliOpen[c] /\ toClient[c] # <<>> THEN {Head(toClient[c])} ELSE {}

Consume(c) ==
  /\ toClient' = [toClient EXCEPT ![c] = Tail(@)]
  /\ UNCHANGED <<srvOpen, cliOpen>>

Output(c, m) == toServer' = [toServer EXCEPT ![c] = Append(@, m)]

\* Messages a loop has no case for: SESSION_RESUME always, X11Setup and
\* SESSION_LIVE once live.
RecvIgnored(c) ==
  /\ \E m \in Inbox(c) :
       /\ m.type = "RESUME" \/ (live[c] /\ m.type \in {"SETUP", "LIVE"})
  /\ Consume(c)
  /\ UNCHANGED <<toServer, clientVars>>

\* handleX11Setup and the synthesised requests after it: a new X connection
\* replaces one that exists.
RecvX11Setup(c) ==
  /\ ~live[c]
  /\ \E m \in Inbox(c) :
       /\ m.type = "SETUP"
       /\ xconn' = [xconn EXCEPT ![c][m.conn] =
                      [NoXConn EXCEPT !.st = "synth", !.base = m.seq, !.has = m.res]]
  /\ Consume(c)
  /\ UNCHANGED <<toServer, live>>

\* The application's number at SESSION_LIVE, by which synthRelay replaces the
\* display's number at the barrier (seqOffset).
BarrierCounted(x, m, a) == IF a \in m.conns THEN m.finals[a] - 1 ELSE x.base  \* mutant
FinalSeq(x, m, a) == IF a \in m.conns THEN m.finals[a] ELSE x.base

\* SESSION_LIVE: every synthesised connection gets its final number.
RecvLive(c) ==
  /\ ~live[c]
  /\ \E m \in Inbox(c) :
       /\ m.type = "LIVE"
       /\ xconn' = [xconn EXCEPT ![c] = [a \in Apps |->
                      IF xconn[c][a].st = "synth"
                        THEN [xconn[c][a] EXCEPT !.cnt = 0,
                               !.base = FinalSeq(xconn[c][a], m, a)]
                        ELSE xconn[c][a]]]
  /\ live' = [live EXCEPT ![c] = TRUE]
  /\ Consume(c)
  /\ UNCHANGED toServer

\* A connection opened by setup bytes: they are not a numbered request.
SetupCounted == [NoXConn EXCEPT !.st = "fresh", !.cnt = 1]  \* mutant
FreshXConn == [NoXConn EXCEPT !.st = "fresh"]

\* handleX11Data with setup bytes: the display's setup reply goes back to
\* the server.  On a connection that exists they are written into its stream.
RecvSetupBytes(c) ==
  /\ \E m \in Inbox(c) :
       /\ m.type = "DATA" /\ m.n = 0
       /\ IF xconn[c][m.conn].st = "none"
            THEN /\ xconn' = [xconn EXCEPT ![c][m.conn] = FreshXConn]
                 /\ Output(c, XOutput(m.conn, "setup", 0))
            ELSE /\ xconn' = [xconn EXCEPT ![c][m.conn] = [@ EXCEPT !.bad = "setup"]]
                 /\ UNCHANGED toServer
  /\ Consume(c)
  /\ UNCHANGED live

\* The display counts the request and creates what it asks for.
Counted(x, m) ==
  [x EXCEPT !.cnt = x.cnt + 1,
            !.has = IF m.query THEN x.has ELSE x.has \cup {m.n}]

\* handleX11Data with a request.  On a connection that does not exist it is
\* written where the display expects a setup request.  A reply that arrives
\* before SESSION_LIVE is drained.
RecvRequest(c) ==
  /\ \E m \in Inbox(c) :
       /\ IsRequest(m)
       /\ LET x == xconn[c][m.conn] IN
            IF x.st = "none"
              THEN /\ xconn' = [xconn EXCEPT ![c][m.conn] =
                                  [NoXConn EXCEPT !.st = "fresh", !.bad = "request"]]
                   /\ UNCHANGED toServer
              ELSE /\ xconn' = [xconn EXCEPT ![c][m.conn] = Counted(x, m)]
                   /\ IF m.query /\ x.bad = "no" /\ (live[c] \/ x.st = "fresh")
                        THEN Output(c, XOutput(m.conn, "reply", x.base + x.cnt + 1))
                        ELSE UNCHANGED toServer
  /\ Consume(c)
  /\ UNCHANGED live

\* The process ends and its X connections with it.
Gone(c) ==
  /\ cliOpen' = [cliOpen EXCEPT ![c] = FALSE]
  /\ toClient' = [toClient EXCEPT ![c] = <<>>]
  /\ xconn' = [xconn EXCEPT ![c] = [a \in Apps |-> NoXConn]]
  /\ UNCHANGED <<srvOpen, toServer, live>>

\* Run returns: the server closed the connection.
ClientExit(c) == cliOpen[c] /\ ~srvOpen[c] /\ Gone(c)

\* The process is killed.
ClientCrash(c) == cliOpen[c] /\ Gone(c)

ClientStep(c) ==
  \/ RecvIgnored(c) \/ RecvX11Setup(c) \/ RecvLive(c)
  \/ RecvSetupBytes(c) \/ RecvRequest(c) \/ ClientExit(c)
=============================================================================
