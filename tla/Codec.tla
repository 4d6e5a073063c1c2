------------------------------- MODULE Codec -------------------------------
(***************************************************************************)
(* Delta compression of one application connection (internal/compress): an *)
(* Encoder in the server, the messages under way, and a Decoder in the     *)
(* client.  The encoder keeps a dictionary and a registry of templates and *)
(* refers to what it believes the client holds.  Clients come and go; each *)
(* brings an empty decoder, and handleClient calls OnClientDisconnect for  *)
(* each that has gone, whenever it comes to it.                            *)
(*                                                                         *)
(* A command is a sequence of bytes whose first is its opcode and whose    *)
(* second is its length, as in X11 requests.  Fingerprints do not collide. *)
(***************************************************************************)
EXTENDS Naturals, Sequences, SequencesExt

CONSTANTS
  Commands,    \* the commands an application makes
  NoCommand,   \* no previous command of an opcode
  Capacity,    \* of the dictionary, in bytes
  MaxClients,  \* bound: clients that connect
  MaxCommands  \* bound: commands encoded for one client

ASSUME CommandsAssumption ==
  \A c \in Commands : c \in Seq(Nat) /\ Len(c) >= 2 /\ c[2] = Len(c)
ASSUME NoCommandAssumption == NoCommand \notin Commands
ASSUME BoundsAssumption ==
  Capacity \in Nat /\ MaxClients \in Nat /\ MaxCommands \in Nat

VARIABLES
  prev,       \* prev[op]: the last command encoded of an opcode
  templates,  \* the registry, in order of creation; a template's id is its place
  lru,        \* the dictionary, most recently used first
  nextID,     \* of the dictionary
  expired,    \* ids evicted since DrainExpiredDicts was last called
  chan,       \* messages under way
  cdict,      \* the decoder's dictionary, by id
  ctemplates, \* the decoder's templates, by id
  up,         \* a client is connected
  clients,    \* how many have connected
  owed,       \* calls of OnClientDisconnect to be made
  halfway,    \* calls that have been through the dictionary only
  stale,      \* tables that may still be about an earlier client
  sent,       \* history: commands encoded for this client
  got,        \* history: commands this client has decoded
  failed,     \* history: this client could not decode a message
  forgotten   \* history: ids this client holds, marked otherwise by a late call

encoder == <<prev, templates, lru, nextID, expired>>
decoder == <<cdict, ctemplates, got, failed>>
link    == <<up, clients, owed, halfway, stale>>
vars    == <<encoder, decoder, link, chan, sent, forgotten>>

Opcodes == {c[1] : c \in Commands}

Init ==
  /\ prev = [op \in Opcodes |-> NoCommand]
  /\ templates = <<>> /\ lru = <<>> /\ nextID = 0 /\ expired = <<>>
  /\ chan = <<>>
  /\ cdict = <<>> /\ ctemplates = <<>>
  /\ up = FALSE /\ clients = 0 /\ owed = 0 /\ halfway = 0 /\ stale = {}
  /\ sent = <<>> /\ got = <<>> /\ failed = FALSE /\ forgotten = {}
-----------------------------------------------------------------------------
(* Templates.  A set of places stands for the runs of bytes between them. *)

Diff(a, b) == {i \in DOMAIN a : a[i] # b[i]}

Observable(p, c) == p # NoCommand /\ Len(p) = Len(c) /\ Diff(p, c) # {}

\* Mutant: the fixed bytes are not compared.
AnyBase(base, c, slots) == TRUE

\* A base of another length has another length in its second byte.
BaseMatches(base, c, slots) ==
  \A i \in DOMAIN base \ slots : i \in DOMAIN c /\ base[i] = c[i]

Matching(p, c) ==
  {i \in DOMAIN templates : /\ templates[i].base[1] = c[1]
                            /\ templates[i].slots = Diff(p, c)
                            /\ BaseMatches(templates[i].base, c, Diff(p, c))}

Params(c, slots) == [i \in slots |-> c[i]]

Apply(base, params) ==
  [i \in DOMAIN base |-> IF i \in DOMAIN params THEN params[i] ELSE base[i]]

\* Messages.  TemplateDefine and DictExpire carry nothing to forward.
TemplateDefine(i, t) == [type |-> "TemplateDefine", id |-> i, template |-> t]
TemplateApply(i, ps) == [type |-> "TemplateApply", id |-> i, params |-> ps]
DictDefine(i, c)     == [type |-> "DictDefine", id |-> i, data |-> c]
DictRef(i)           == [type |-> "DictRef", id |-> i]
DictExpire(i)        == [type |-> "DictExpire", id |-> i]
X11Data(c)           == [type |-> "X11Data", data |-> c]

TemplateHit(p, c) ==
  /\ Matching(p, c) # {}
  /\ LET first == CHOOSE i \in Matching(p, c) : \A j \in Matching(p, c) : i <= j
     IN  chan' = Append(chan, TemplateApply(first, Params(c, Diff(p, c))))
  /\ UNCHANGED templates

NewTemplate(p, c) ==
  LET t == [base |-> p, slots |-> Diff(p, c)]
      i == Len(templates) + 1
  IN  /\ Matching(p, c) = {}
      /\ templates' = Append(templates, t)
      /\ chan' = chan \o <<TemplateDefine(i, t), TemplateApply(i, Params(c, t.slots))>>
-----------------------------------------------------------------------------
(* The dictionary. *)

\* Used(l)[k]: the bytes of the first k entries.
Used(l) ==
  LET u[k \in 0..Len(l)] == IF k = 0 THEN 0 ELSE u[k - 1] + Len(l[k].data) IN u

\* Mutant: room is made without regard to the newcomer.
EvictedShort(l, needed) ==
  LET kept == CHOOSE k \in 0..Len(l) :
                /\ Used(l)[k] <= Capacity
                /\ \A j \in k + 1..Len(l) : Used(l)[j] > Capacity
  IN  SubSeq(l, 1, kept)

\* What is left after the least recently used are evicted to make room.
Evicted(l, needed) ==
  LET kept == CHOOSE k \in 0..Len(l) :
                /\ Used(l)[k] + needed <= Capacity
                /\ \A j \in k + 1..Len(l) : Used(l)[j] + needed > Capacity
  IN  SubSeq(l, 1, kept)

\* Mutant: only the first one evicted is remembered.
ToExpireFirst(l) == IF l = <<>> \/ ~Last(l).inClient THEN <<>> ELSE <<Last(l).id>>

\* The last goes first.
ToExpire(l) ==
  LET x[k \in 0..Len(l)] ==
        IF k = 0 THEN <<>> ELSE (IF l[k].inClient THEN <<l[k].id>> ELSE <<>>) \o x[k - 1]
  IN  x[Len(l)]

Found(c) == {i \in DOMAIN lru : lru[i].data = c}

ClassifyKnown(c) == \E i \in Found(c) :
  /\ lru' = <<[lru[i] EXCEPT !.inClient = TRUE]>> \o RemoveAt(lru, i)
  /\ chan' = Append(chan, IF lru[i].inClient THEN DictRef(lru[i].id)
                                             ELSE DictDefine(lru[i].id, c))
  /\ forgotten' = forgotten \ {lru[i].id}
  /\ UNCHANGED <<nextID, expired>>

ClassifyNew(c) ==
  /\ Found(c) = {}
  /\ Len(c) <= Capacity
  /\ LET kept == Evicted(lru, Len(c))
         new  == [id |-> nextID + 1, data |-> c, inClient |-> TRUE]
     IN  /\ lru' = <<new>> \o kept
         /\ expired' = expired \o ToExpire(SubSeq(lru, Len(kept) + 1, Len(lru)))
         /\ chan' = Append(chan, DictDefine(new.id, c))
  /\ nextID' = nextID + 1
  /\ UNCHANGED forgotten

Passthrough(c) ==
  /\ Found(c) = {}
  /\ Len(c) > Capacity
  /\ chan' = Append(chan, X11Data(c))
  /\ UNCHANGED <<lru, nextID, expired, forgotten>>

Classify(c) == ClassifyKnown(c) \/ ClassifyNew(c) \/ Passthrough(c)
-----------------------------------------------------------------------------
(* The server.  drainRequests does not call Encode yet; Ready is what a    *)
(* caller would have to see to: the tables are about the client connected. *)

Ready == up /\ stale = {}

\* Encode passes a draw command through the region tracker, which it empties at
\* once; nothing is ever coalesced.
Encode(c) ==
  LET p == prev[c[1]] IN
  /\ Ready
  /\ Len(sent) < MaxCommands
  /\ \/ /\ Observable(p, c)
        /\ TemplateHit(p, c) \/ NewTemplate(p, c)
        /\ UNCHANGED <<lru, nextID, expired, forgotten>>
     \/ /\ ~Observable(p, c)
        /\ Classify(c)
        /\ UNCHANGED templates
  /\ prev' = [prev EXCEPT ![c[1]] = c]
  /\ sent' = Append(sent, c)
  /\ UNCHANGED <<decoder, link>>

DrainExpiredDicts ==
  /\ expired # <<>>
  /\ chan' = IF up THEN chan \o [i \in DOMAIN expired |-> DictExpire(expired[i])]
                   ELSE chan
  /\ expired' = <<>>
  /\ UNCHANGED <<prev, templates, lru, nextID, decoder, link, sent, forgotten>>

\* The first half of OnClientDisconnect: Dict.ClientDisconnected.
ForgetDict ==
  /\ owed > 0
  /\ owed' = owed - 1 /\ halfway' = halfway + 1
  /\ forgotten' = forgotten \cup {lru[i].id : i \in {j \in DOMAIN lru : lru[j].inClient}}
  /\ lru' = [i \in DOMAIN lru |-> [lru[i] EXCEPT !.inClient = FALSE]]
  /\ stale' = stale \ {"dict"}
  /\ UNCHANGED <<prev, templates, nextID, expired, decoder, up, clients, chan, sent>>

\* Mutant: the registry outlives the client.
KeepTemplates ==
  /\ halfway > 0
  /\ halfway' = halfway - 1
  /\ prev' = [op \in Opcodes |-> NoCommand]
  /\ stale' = stale \ {"templates"}
  /\ UNCHANGED <<templates, lru, nextID, expired, decoder, up, clients, owed, chan, sent, forgotten>>

\* The second half, which another goroutine may find undone.
ForgetTemplates ==
  /\ halfway > 0
  /\ halfway' = halfway - 1
  /\ templates' = <<>>
  /\ prev' = [op \in Opcodes |-> NoCommand]
  /\ stale' = stale \ {"templates"}
  /\ UNCHANGED <<lru, nextID, expired, decoder, up, clients, owed, chan, sent, forgotten>>
-----------------------------------------------------------------------------
(* The client. *)

\* A client connects, and takes over from one that is still there.
Connect ==
  /\ clients < MaxClients
  /\ clients' = clients + 1
  /\ up' = TRUE
  /\ owed' = IF up THEN owed + 1 ELSE owed
  /\ stale' = IF up THEN {"dict", "templates"} ELSE stale
  /\ chan' = <<>> /\ cdict' = <<>> /\ ctemplates' = <<>>
  /\ sent' = <<>> /\ got' = <<>> /\ failed' = FALSE /\ forgotten' = {}
  /\ UNCHANGED <<encoder, halfway>>

Disconnect ==
  /\ up
  /\ up' = FALSE
  /\ owed' = owed + 1
  /\ stale' = {"dict", "templates"}
  /\ chan' = <<>> /\ cdict' = <<>> /\ ctemplates' = <<>>
  /\ sent' = <<>> /\ got' = <<>> /\ failed' = FALSE /\ forgotten' = {}
  /\ UNCHANGED <<encoder, clients, halfway>>

With(f, i, v)  == [j \in DOMAIN f \cup {i} |-> IF j = i THEN v ELSE f[j]]
Without(f, i)  == [j \in DOMAIN f \ {i} |-> f[j]]

Deliver(c) == got' = Append(got, c) /\ UNCHANGED failed
Fail       == failed' = TRUE /\ UNCHANGED got
Forward(m) ==
  CASE m.type \in {"X11Data", "DictDefine"} -> Deliver(m.data)
    [] m.type = "DictRef" ->
         IF m.id \in DOMAIN cdict THEN Deliver(cdict[m.id]) ELSE Fail
    [] m.type = "TemplateApply" ->
         IF /\ m.id \in DOMAIN ctemplates
            /\ DOMAIN m.params = ctemplates[m.id].slots
         THEN Deliver(Apply(ctemplates[m.id].base, m.params))
         ELSE Fail
    [] OTHER -> UNCHANGED <<got, failed>>

Decode ==
  /\ chan # <<>>
  /\ LET m == Head(chan) IN
     /\ Forward(m)
     /\ cdict' = CASE m.type = "DictDefine" -> With(cdict, m.id, m.data)
                   [] m.type = "DictExpire" -> Without(cdict, m.id)
                   [] OTHER -> cdict
     /\ ctemplates' = IF m.type = "TemplateDefine"
                      THEN With(ctemplates, m.id, m.template) ELSE ctemplates
     /\ forgotten' = IF m.type = "DictExpire" THEN forgotten \ {m.id} ELSE forgotten
  /\ chan' = Tail(chan)
  /\ UNCHANGED <<encoder, link, sent>>
-----------------------------------------------------------------------------
Next ==
  \/ \E c \in Commands : Encode(c)
  \/ DrainExpiredDicts \/ ForgetDict \/ ForgetTemplates
  \/ Connect \/ Disconnect \/ Decode

Spec == Init /\ [][Next]_vars
-----------------------------------------------------------------------------
Entry    == [id : 1..nextID, data : Commands, inClient : BOOLEAN]
Template == [base : Commands, slots : SUBSET Nat]

\* The tables are well formed: the dictionary stays within its capacity, holds a
\* command once, and never an id that is to expire.
TypeOK ==
  /\ prev \in [Opcodes -> Commands \cup {NoCommand}]
  /\ templates \in Seq(Template)
  /\ lru \in Seq(Entry)
  /\ Used(lru)[Len(lru)] <= Capacity
  /\ \A i, j \in DOMAIN lru : lru[i].id = lru[j].id \/ lru[i].data = lru[j].data => i = j
  /\ \A i \in DOMAIN lru, k \in DOMAIN expired : lru[i].id # expired[k]
  /\ stale \subseteq {"dict", "templates"}
  /\ owed \in Nat /\ halfway \in Nat

\* No client is ever sent a reference to an entry or a template it does not hold,
\* whatever was evicted, and however late the calls for earlier clients come.
NothingUnknown == ~failed

\* A client's dictionary is never larger than the encoder believes: what it holds
\* is in use, about to expire, or was marked absent by a call that came after the
\* client had been sent it (compress.go:33-37).
ClientHoldsNoMore ==
  stale = {} =>
    \A i \in DOMAIN cdict :
      \/ \E e \in DOMAIN lru : lru[e].id = i /\ lru[e].inClient
      \/ \E k \in DOMAIN expired : expired[k] = i
      \/ \E k \in DOMAIN chan : chan[k] = DictExpire(i)
      \/ i \in forgotten

\* The client decodes exactly what was encoded for it, in its order.
Link == INSTANCE Channel WITH
          queue <- SubSeq(sent, Len(got) + 1, Len(sent)), received <- got
Lossless == Link!Spec
=============================================================================
