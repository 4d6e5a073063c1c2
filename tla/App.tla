--------------------------------- MODULE App --------------------------------
(***************************************************************************)
(* The X11 applications, seen from the fake display's socket: what the     *)
(* server reads from and writes to them.  The code is Xlib/XCB, outside    *)
(* the repository; the module models how the server uses it: a setup       *)
(* request, then numbered requests, some of which block the application    *)
(* until a reply with their number arrives.                                *)
(***************************************************************************)
EXTENDS Wire     \* Apps: the connIDs

CONSTANT MaxReq     \* bound: requests an application makes
ASSUME MaxReqAssumption == MaxReq \in Nat

VARIABLES
  app,       \* app[a]: "none", "up" or "down": a's socket to the fake display
  reqs,      \* reqs[a]: kinds of the requests a has written, in order
  waiting,   \* waiting[a]: number of the query a is blocked on, 0 if none
  setups     \* setups[a]: setup replies a has received

appVars == <<app, reqs, waiting, setups>>

ReqKind == {"state", "query"}   \* changes tracked state / needs a reply

AppTypeOK ==
  /\ app \in [Apps -> {"none", "up", "down"}]
  /\ reqs \in [Apps -> Seq(ReqKind)]
  /\ waiting \in [Apps -> Nat]
  /\ setups \in [Apps -> 0..2]

AppInit ==
  /\ app = [a \in Apps |-> "none"]
  /\ reqs = [a \in Apps |-> <<>>]
  /\ waiting = [a \in Apps |-> 0]
  /\ setups = [a \in Apps |-> 0]

\* The application connects to the fake display and writes its setup request.
AppConnect(a) ==
  /\ app[a] = "none"
  /\ app' = [app EXCEPT ![a] = "up"]
  /\ UNCHANGED <<reqs, waiting, setups>>

\* It writes a request, once it has its setup reply and is not blocked.
AppRequest(a, kind) ==
  /\ app[a] = "up"
  /\ setups[a] > 0
  /\ waiting[a] = 0
  /\ Len(reqs[a]) < MaxReq
  /\ reqs' = [reqs EXCEPT ![a] = Append(@, kind)]
  /\ waiting' = [waiting EXCEPT ![a] = IF kind = "query" THEN Len(reqs[a]) + 1 ELSE 0]
  /\ UNCHANGED <<app, setups>>

AppQuit(a) ==
  /\ app[a] = "up"
  /\ app' = [app EXCEPT ![a] = "down"]
  /\ UNCHANGED <<reqs, waiting, setups>>

\* One Write to the application's socket: nothing happens if it is gone.
\* Xlib takes the reply whose number it waits for.
AppWrite(a, kind, seq) ==
  IF app[a] # "up" THEN UNCHANGED appVars
  ELSE
    /\ setups' = [setups EXCEPT ![a] =
                    IF kind = "setup" /\ @ < 2 THEN @ + 1 ELSE @]
    /\ waiting' = [waiting EXCEPT ![a] =
                    IF kind = "reply" /\ @ = seq THEN 0 ELSE @]
    /\ UNCHANGED <<app, reqs>>
=============================================================================
