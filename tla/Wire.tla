-------------------------------- MODULE Wire --------------------------------
(***************************************************************************)
(* The TCP link between proxxxy-server and a proxxxy-client process, and   *)
(* the messages of internal/wire/wire.go that travel on it.                *)
(*                                                                         *)
(* A client process makes one connection in its life (cmd/client exits     *)
(* when Client.Run returns), so a member of Clients stands for the process *)
(* and for its connection.  Messages are framed, typed and delivered in    *)
(* order; framing and byte layout are abstracted.                          *)
(***************************************************************************)
EXTENDS Naturals, Sequences

CONSTANTS Clients,   \* proxxxy-client processes
          Apps,      \* connIDs: X11 application connections to the fake display
          NoClient   \* the nil net.Conn

ASSUME NoClientAssumption == NoClient \notin Clients

VARIABLES
  srvOpen,    \* srvOpen[c]: the server's end of c's connection is open
  cliOpen,    \* cliOpen[c]: c's process runs and its end is open
  toClient,   \* toClient[c]: messages written by the server, unread by c
  toServer    \* toServer[c]: messages written by c, unread by the server

wireVars == <<srvOpen, cliOpen, toClient, toServer>>

-----------------------------------------------------------------------------
(* Messages.  Request number n of a connection stands for its bytes; number *)
(* 0 is the connection setup request.                                       *)

SessionResume == [type |-> "RESUME"]

\* MsgX11Setup and the synthesised requests that follow it for one
\* connection: res is the set of resources (request numbers that created
\* tracked state) the snapshot recreates, seq the app's sequence number.
X11Setup(a, seq, res) == [type |-> "SETUP", conn |-> a, seq |-> seq, res |-> res]

\* MsgSessionLive: the final sequence numbers of the connections conns.
SessionLive(conns, finals) == [type |-> "LIVE", conns |-> conns, finals |-> finals]

\* MsgX11Data towards the client: request n; query says it needs a reply.
X11Data(a, n, query) == [type |-> "DATA", conn |-> a, n |-> n, query |-> query]

\* MsgX11Data towards the server: what the X server sent.  The first byte
\* tells a setup reply or reply (1) from an event (>= 2).
XOutput(a, kind, seq) == [conn |-> a, kind |-> kind, seq |-> seq]

ClientMsg ==
  [type : {"RESUME"}]
  \cup [type : {"SETUP"}, conn : Apps, seq : Nat, res : SUBSET Nat]
  \cup [type : {"LIVE"}, conns : SUBSET Apps, finals : [Apps -> Nat]]
  \cup [type : {"DATA"}, conn : Apps, n : Nat, query : BOOLEAN]

ServerMsg == [conn : Apps, kind : {"setup", "reply", "event"}, seq : Nat]

IsRequest(m) == m.type = "DATA" /\ m.n > 0

-----------------------------------------------------------------------------
(* Writing.  A write to an end the server has closed fails.  A write to a   *)
(* peer that is gone fails or is swallowed by the socket buffer.            *)

Write(c, m) ==
  /\ srvOpen[c]
  /\ toClient' = IF cliOpen[c]
                   THEN [toClient EXCEPT ![c] = Append(@, m)]
                   ELSE toClient

WriteError(c) ==
  /\ ~srvOpen[c] \/ ~cliOpen[c]
  /\ UNCHANGED toClient

\* A write whose result the caller ignores.
WriteIgnored(c, m) ==
  toClient' = IF srvOpen[c] /\ cliOpen[c]
                THEN [toClient EXCEPT ![c] = Append(@, m)]
                ELSE toClient

WireTypeOK ==
  /\ srvOpen \in [Clients -> BOOLEAN]
  /\ cliOpen \in [Clients -> BOOLEAN]
  /\ toClient \in [Clients -> Seq(ClientMsg)]
  /\ toServer \in [Clients -> Seq(ServerMsg)]

WireInit ==
  /\ srvOpen = [c \in Clients |-> FALSE]
  /\ cliOpen = [c \in Clients |-> FALSE]
  /\ toClient = [c \in Clients |-> <<>>]
  /\ toServer = [c \in Clients |-> <<>>]
=============================================================================
