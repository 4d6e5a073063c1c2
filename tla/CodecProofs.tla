----------------------------- MODULE CodecProofs -----------------------------
(***************************************************************************)
(* TypeOK, NothingUnknown, ClientHoldsNoMore and Lossless for any          *)
(* commands, capacity and number of clients.  What the encoder may refer   *)
(* to is what the decoder will hold once it has read the messages under    *)
(* way; Holds and HasTemplate say what it will hold after the first k of   *)
(* them, so that a reference under way is about the decoder as it will     *)
(* find it, whatever is defined, evicted or forgotten after it was sent.   *)
(***************************************************************************)
EXTENDS Codec, Integers, SequenceTheorems, WellFoundedInduction, TLAPS

AnyParams == UNION {[S -> Nat] : S \in SUBSET Nat}
Message ==
  [type : {"TemplateDefine"}, id : Nat, template : Template]
    \cup [type : {"TemplateApply"}, id : Nat, params : AnyParams]
    \cup [type : {"DictDefine"}, id : Nat, data : Commands]
    \cup [type : {"DictRef", "DictExpire"}, id : Nat]
    \cup [type : {"X11Data"}, data : Commands]

Content(m) == m.type \notin {"TemplateDefine", "DictExpire"}
Touches(m, i) == m.type \in {"DictDefine", "DictExpire"} /\ m.id = i
Defines(m, i) == m.type = "TemplateDefine" /\ m.id = i

\* What a decoder with dictionary d, and one with templates ts, has for id i after
\* the first k of the messages q.
Holds(q, d, k, i, c) ==
  \/ \E j \in 1..k : /\ q[j] = DictDefine(i, c)
                     /\ \A l \in j + 1..k : ~Touches(q[l], i)
  \/ (\A l \in 1..k : ~Touches(q[l], i)) /\ i \in DOMAIN d /\ d[i] = c

HasTemplate(q, ts, k, i, t) ==
  \/ \E j \in 1..k : /\ q[j] = TemplateDefine(i, t)
                     /\ \A l \in j + 1..k : ~Defines(q[l], i)
  \/ (\A l \in 1..k : ~Defines(q[l], i)) /\ i \in DOMAIN ts /\ ts[i] = t

\* The k-th message decodes to c.
Decodes(q, d, ts, k, c) ==
  \/ q[k].type \in {"X11Data", "DictDefine"} /\ q[k].data = c
  \/ q[k].type = "DictRef" /\ Holds(q, d, k - 1, q[k].id, c)
  \/ /\ q[k].type = "TemplateApply"
     /\ \E t \in Template : /\ HasTemplate(q, ts, k - 1, q[k].id, t)
                            /\ DOMAIN q[k].params = t.slots
                            /\ Apply(t.base, q[k].params) = c

\* The messages q decode to what is left of s after the first g: G[k] commands have
\* been decoded after k messages.
Counts(q, d, ts, s, G) ==
  \A k \in 1..Len(q) :
    /\ Content(q[k]) => /\ G[k] = G[k - 1] + 1
                        /\ Decodes(q, d, ts, k, s[G[k]])
    /\ ~Content(q[k]) => G[k] = G[k - 1]

Run(q, d, ts, s, g) ==
  \E G \in [0..Len(q) -> 0..Len(s)] :
    G[0] = g /\ G[Len(q)] = Len(s) /\ Counts(q, d, ts, s, G)
-----------------------------------------------------------------------------
(* The tables *)

Held(S) == [id : S, data : Commands, inClient : BOOLEAN]

IdsOf(l)   == {l[e].id : e \in DOMAIN l}
InUseOf(l) == {l[e].id : e \in {x \in DOMAIN l : l[x].inClient}}
Distinct(l) == \A i, j \in DOMAIN l : l[i].id = l[j].id \/ l[i].data = l[j].data => i = j

Tables ==
  /\ nextID \in Nat
  /\ lru \in Seq(Held(1..nextID)) /\ Distinct(lru)
  /\ Used(lru)[Len(lru)] <= Capacity
  /\ expired \in Seq(1..nextID)
  /\ Range(expired) \cap IdsOf(lru) = {}

Typed ==
  /\ prev \in [Opcodes -> Commands \cup {NoCommand}]
  /\ templates \in Seq(Template)
  /\ chan \in Seq(Message)
  /\ sent \in Seq(Commands) /\ got \in Seq(Commands)
  /\ up \in BOOLEAN /\ owed \in Nat /\ halfway \in Nat
  /\ stale \subseteq {"dict", "templates"}

\* An id that has been said to expire is in use no longer, and never again.
ExpireOnce(q, free) ==
  /\ \A k \in 1..Len(q) : q[k].type = "DictExpire" => q[k].id \in free
  /\ \A j, k \in 1..Len(q) :
       j < k /\ q[j].type = "DictExpire" /\ q[k].type = "DictDefine" => q[k].id # q[j].id
Free == (1..nextID) \ IdsOf(lru)
Gone == ExpireOnce(chan, Free)

NobodyThere ==
  ~up => chan = <<>> /\ cdict = <<>> /\ ctemplates = <<>> /\ sent = <<>> /\ got = <<>>

HeldAll(q, d, l) ==
  \A e \in DOMAIN l : l[e].inClient => Holds(q, d, Len(q), l[e].id, l[e].data)
DictAgrees == "dict" \notin stale => HeldAll(chan, cdict, lru)

HasAll(q, ts, all) ==
  \A i \in DOMAIN all : HasTemplate(q, ts, Len(q), i, all[i])
TemplatesAgree == "templates" \notin stale => HasAll(chan, ctemplates, templates)

\* The encoder accounts for every id a decoder with dictionary d has, and for every
\* one it has at some time while it reads the messages q.
AccountedFor(q, d, known) ==
  /\ \A i \in DOMAIN d : i \in known \/ \E x \in 1..Len(q) : q[x] = DictExpire(i)
  /\ \A k \in 1..Len(q) : q[k].type = "DictDefine" =>
       q[k].id \in known \/ \E x \in k + 1..Len(q) : q[x] = DictExpire(q[k].id)
Known == InUseOf(lru) \cup Range(expired) \cup forgotten
HoldsNoMore == AccountedFor(chan, cdict, Known)

LinkOK == Run(chan, cdict, ctemplates, sent, Len(got)) /\ ~failed

IInv ==
  /\ Tables /\ Typed /\ Gone /\ NobodyThere
  /\ DictAgrees /\ TemplatesAgree /\ HoldsNoMore /\ LinkOK
-----------------------------------------------------------------------------
(* Recursive functions over the entries of a dictionary *)

\* A function given by its first value and a step for each further one exists, and
\* two that start and go on alike are the same.
Goes(m, f, a, step) == f[0] = a /\ \A k \in 1..m : f[k] = step[k][f[k - 1]]

LEMMA Recursion ==
  ASSUME NEW n \in Nat, NEW S, NEW a \in S, NEW step \in [1..n -> [S -> S]]
  PROVE  \E f \in [0..n -> S] : Goes(n, f, a, step)
<1> USE DEF Goes
<1> DEFINE P(m) == \E f \in [0..m -> S] : Goes(m, f, a, step)
           T == {m \in Nat : m <= n /\ ~P(m)}
<1>1. P(0)
  <2>1. [k \in 0..0 |-> a] \in [0..0 -> S] /\ Goes(0, [k \in 0..0 |-> a], a, step)
    OBVIOUS
  <2> QED BY <2>1
<1>2. ASSUME NEW m \in 1..n, P(m - 1) PROVE P(m)
  <2>1. PICK f \in [0..(m - 1) -> S] : Goes(m - 1, f, a, step)
    BY <1>2
  <2> DEFINE g == [k \in 0..m |-> IF k = m THEN step[m][f[m - 1]] ELSE f[k]]
  <2>2. f[m - 1] \in S /\ step[m] \in [S -> S]
    OBVIOUS
  <2>3. g \in [0..m -> S] BY <2>2
  <2>4. Goes(m, g, a, step) BY <2>1
  <2> QED BY <2>3, <2>4
<1>3. CASE T = {}
  BY <1>3 DEF T
<1>4. CASE T # {}
  <2>1. PICK m \in T : \A k \in T : ~(<<k, m>> \in OpToRel(<, Nat))
    BY <1>4, WFMin, NatLessThanWellFounded
  <2>2. \A k \in T : ~(k < m) BY <2>1 DEF OpToRel
  <2> HIDE DEF P
  <2>3. m \in 1..n BY <1>1
  <2>4. P(m - 1) BY <2>2, <2>3
  <2> QED BY <1>2, <2>3, <2>4
<1> QED BY <1>3, <1>4

Alike(n, f, g) ==
  f[0] = g[0] /\ \A k \in 1..n : f[k - 1] = g[k - 1] => f[k] = g[k]

LEMMA AlikeEverywhere ==
  ASSUME NEW n \in Nat, NEW f, NEW g, Alike(n, f, g)
  PROVE  \A k \in 0..n : f[k] = g[k]
<1> USE DEF Alike
<1> DEFINE T == {k \in Nat : k <= n /\ f[k] # g[k]}
<1>1. CASE T = {}
  BY <1>1
<1>2. CASE T # {}
  <2>1. PICK m \in T : \A k \in T : ~(<<k, m>> \in OpToRel(<, Nat))
    BY <1>2, WFMin, NatLessThanWellFounded
  <2>2. \A k \in T : ~(k < m) BY <2>1 DEF OpToRel
  <2>3. m \in 1..n OBVIOUS
  <2>4. f[m - 1] = g[m - 1] BY <2>2, <2>3
  <2> QED BY <2>3, <2>4
<1> QED BY <1>1, <1>2

Entries == [id : Nat, data : Commands, inClient : BOOLEAN]

LEMMA EntryAt ==
  ASSUME NEW l \in Seq(Entries), NEW k \in 1..Len(l)
  PROVE  l[k] \in Entries /\ l[k].data \in Commands /\ Len(l[k].data) \in Nat
<1>1. l[k] \in Entries BY ElementOfSeq
<1>2. l[k].data \in Commands BY <1>1 DEF Entries
<1> QED BY <1>1, <1>2, CommandsAssumption

SumsUp(l, v) ==
  v[0] = 0 /\ \A k \in 1..Len(l) : v[k] = v[k - 1] + Len(l[k].data)

\* Used is what sums up the entries.
LEMMA UsedIs ==
  ASSUME NEW l \in Seq(Entries), NEW v \in [0..Len(l) -> Nat], SumsUp(l, v)
  PROVE  Used(l) = v
<1> DEFINE F(w) == [k \in 0..Len(l) |-> IF k = 0 THEN 0 ELSE w[k - 1] + Len(l[k].data)]
<1>1. v = F(v)
  BY DEF SumsUp
<1>2. ASSUME NEW w, w = F(w) PROVE w = v
  <2>1. w[0] = v[0] BY <1>2 DEF SumsUp
  <2>2. \A k \in 1..Len(l) : w[k] = w[k - 1] + Len(l[k].data) BY <1>2
  <2>3. \A k \in 1..Len(l) : w[k - 1] = v[k - 1] => w[k] = v[k] BY <2>2 DEF SumsUp
  <2>4. \A k \in 0..Len(l) : w[k] = v[k]
    <3>1. Len(l) \in Nat BY LenProperties
    <3> HIDE DEF F
    <3>2. Alike(Len(l), w, v) BY <2>1, <2>3 DEF Alike
    <3> QED BY <3>1, <3>2, AlikeEverywhere
  <2>5. w = [k \in 0..Len(l) |-> w[k]] BY <1>2
  <2>6. v = [k \in 0..Len(l) |-> v[k]] OBVIOUS
  <2>7. [k \in 0..Len(l) |-> w[k]] = [k \in 0..Len(l) |-> v[k]] BY <2>4
  <2> HIDE DEF F
  <2> QED BY <2>5, <2>6, <2>7
<1> QED BY <1>1, <1>2 DEF Used

LEMMA UsedSums ==
  ASSUME NEW l \in Seq(Entries)
  PROVE  Used(l) \in [0..Len(l) -> Nat] /\ SumsUp(l, Used(l))
<1>0. Len(l) \in Nat BY LenProperties
<1> USE <1>0
<1> DEFINE step == [k \in 1..Len(l) |-> [x \in Nat |-> x + Len(l[k].data)]]
<1>1. \A k \in 1..Len(l) : Len(l[k].data) \in Nat
  BY EntryAt
<1>2. step \in [1..Len(l) -> [Nat -> Nat]] BY <1>1
<1> HIDE DEF step
<1>4. PICK v \in [0..Len(l) -> Nat] : Goes(Len(l), v, 0, step)
  <2>1. 0 \in Nat OBVIOUS
  <2> QED BY <1>0, <1>2, <2>1, Recursion
<1>5. SumsUp(l, v)
  <2> SUFFICES ASSUME NEW k \in 1..Len(l) PROVE v[k] = v[k - 1] + Len(l[k].data)
    BY <1>4 DEF SumsUp, Goes
  <2>1. v[k] = step[k][v[k - 1]] BY <1>4 DEF Goes
  <2>2. v[k - 1] \in Nat OBVIOUS
  <2>3. step[k] = [x \in Nat |-> x + Len(l[k].data)] BY DEF step
  <2> QED BY <2>1, <2>2, <2>3
<1> QED BY <1>5, UsedIs

InFront(r, e, l, k) ==
  /\ Len(r) = k + 1
  /\ \A j \in 1..k + 1 : r[j] = IF j = 1 THEN e ELSE l[j - 1]
Moved(r, e, l, i) ==
  /\ Len(r) = Len(l)
  /\ \A j \in 1..Len(l) : r[j] = IF j = 1 THEN e ELSE IF j <= i THEN l[j - 1] ELSE l[j]

\* What an entry in front of others takes, what one moved to the front does, and
\* what marking does.
LEMMA UsedInFront ==
  ASSUME NEW l \in Seq(Entries), NEW k \in 0..Len(l), NEW e \in Entries,
         NEW r \in Seq(Entries), InFront(r, e, l, k)
  PROVE  Used(r)[Len(r)] = Len(e.data) + Used(l)[k]
<1> DEFINE n == Len(l)  u == Used(l)  x == Len(e.data)
           v == [j \in 0..k + 1 |-> IF j = 0 THEN 0 ELSE x + u[j - 1]]
<1>1. n \in Nat BY LenProperties
<1>2. k \in 0..n OBVIOUS
<1>3. x \in Nat BY CommandsAssumption DEF Entries
<1>4. u \in [0..n -> Nat] /\ SumsUp(l, u) BY UsedSums
<1>5. r \in Seq(Entries) /\ Len(r) = k + 1 /\ r[1] = e BY <1>1, <1>2 DEF InFront
<1>6. \A j \in 2..k + 1 : r[j] = l[j - 1] BY <1>1, <1>2 DEF InFront
<1>7. \A j \in 1..n : u[j] = u[j - 1] + Len(l[j].data) BY <1>4 DEF SumsUp
<1> HIDE DEF n, u, x
<1>8. v \in [0..Len(r) -> Nat]
  <2> SUFFICES ASSUME NEW j \in 0..k + 1 PROVE v[j] \in Nat
    BY <1>5
  <2>1. j # 0 => j - 1 \in 0..n BY <1>1, <1>2
  <2> QED BY <1>3, <1>4, <2>1
<1>9. SumsUp(r, v)
  <2> SUFFICES ASSUME NEW j \in 1..k + 1 PROVE v[j] = v[j - 1] + Len(r[j].data)
    BY <1>5 DEF SumsUp
  <2>1. CASE j = 1
    <3>1. u[0] = 0 BY <1>4 DEF SumsUp
    <3>2. v[1] = x + u[0] /\ v[0] = 0 BY <1>2, <1>1
    <3>3. Len(r[1].data) = x BY <1>5 DEF x
    <3> HIDE DEF v
    <3> QED BY <2>1, <3>1, <3>2, <3>3, <1>3
  <2>2. CASE j # 1
    <3>1. j - 1 \in 1..n /\ j - 1 - 1 \in 0..n /\ j \in 2..k + 1 BY <2>2, <1>1, <1>2
    <3>2. u[j - 1] = u[j - 1 - 1] + Len(l[j - 1].data) BY <3>1, <1>7
    <3>3. u[j - 1] \in Nat /\ u[j - 1 - 1] \in Nat BY <3>1, <1>4, <1>1
    <3>4. v[j] = x + u[j - 1] /\ v[j - 1] = x + u[j - 1 - 1] BY <2>2, <1>1, <1>2
    <3>5. r[j] = l[j - 1] BY <3>1, <1>6
    <3>6. Len(l[j - 1].data) \in Nat BY <3>1, EntryAt DEF n
    <3> HIDE DEF v
    <3>7. v[j] = v[j - 1] + Len(l[j - 1].data) BY <3>2, <3>3, <3>4, <3>6, <1>3
    <3> QED BY <3>5, <3>7
  <2> QED BY <2>1, <2>2
<1>10. Used(r) = v
  <2> HIDE DEF v
  <2> QED BY <1>5, <1>8, <1>9, UsedIs
<1>11. v[k + 1] = x + u[k] BY <1>1, <1>2
<1> QED BY <1>5, <1>10, <1>11 DEF x, u

\* What RemoveAt leaves.
LEMMA Removed ==
  ASSUME NEW S, NEW l \in Seq(S), NEW i \in 1..Len(l)
  PROVE  /\ RemoveAt(l, i) \in Seq(S)
         /\ Len(RemoveAt(l, i)) = Len(l) - 1
         /\ \A j \in 1..Len(l) - 1 : RemoveAt(l, i)[j] = IF j < i THEN l[j] ELSE l[j + 1]
<1>0. Len(l) \in Nat BY LenProperties
<1> USE <1>0
<1> DEFINE s == SubSeq(l, 1, i - 1)  t == SubSeq(l, i + 1, Len(l))
<1>1. s \in Seq(S) /\ Len(s) = i - 1 /\ \A j \in 1..i - 1 : s[j] = l[j]
  OBVIOUS
<1>2. t \in Seq(S) /\ Len(t) = Len(l) - i /\ \A j \in 1..Len(l) - i : t[j] = l[j + i]
  OBVIOUS
<1>3. RemoveAt(l, i) = s \o t BY DEF RemoveAt
<1> HIDE DEF s, t
<1>4. /\ s \o t \in Seq(S) /\ Len(s \o t) = Len(s) + Len(t)
      /\ \A j \in 1..Len(s) + Len(t) : (s \o t)[j] = IF j <= Len(s) THEN s[j] ELSE t[j - Len(s)]
  BY <1>1, <1>2, ConcatProperties
<1> DEFINE w == s \o t
<1> HIDE DEF w
<1>5. /\ Len(w) = (i - 1) + (Len(l) - i)
      /\ \A j \in 1..(i - 1) + (Len(l) - i) : w[j] = IF j <= i - 1 THEN s[j] ELSE t[j - (i - 1)]
  BY <1>1, <1>2, <1>4 DEF w
<1>6. ASSUME NEW j \in 1..Len(l) - 1 PROVE w[j] = IF j < i THEN l[j] ELSE l[j + 1]
  <2>1. CASE j < i BY <2>1, <1>1, <1>5
  <2>2. CASE ~(j < i)
    <3>1. w[j] = t[j - (i - 1)] BY <2>2, <1>5
    <3>2. t[j - (i - 1)] = l[j - (i - 1) + i] BY <2>2, <1>2
    <3>3. j - (i - 1) + i = j + 1 OBVIOUS
    <3> QED BY <2>2, <3>1, <3>2, <3>3
  <2> QED BY <2>1, <2>2
<1> QED BY <1>3, <1>4, <1>5, <1>6 DEF w

LEMMA Prepended ==
  ASSUME NEW S, NEW e \in S, NEW s \in Seq(S)
  PROVE  <<e>> \o s \in Seq(S) /\ InFront(<<e>> \o s, e, s, Len(s))
<1>1. <<e>> \in Seq(S) /\ Len(<<e>>) = 1 /\ <<e>>[1] = e OBVIOUS
<1>2. Len(s) \in Nat BY LenProperties
<1> DEFINE t == <<e>>  w == t \o s
<1> HIDE DEF t
<1>3. /\ w \in Seq(S) /\ Len(w) = 1 + Len(s)
      /\ \A j \in 1..1 + Len(s) : w[j] = IF j <= 1 THEN t[j] ELSE s[j - 1]
  BY <1>1, ConcatProperties DEF t
<1> HIDE DEF w
<1>4. \A j \in 1..Len(s) + 1 : w[j] = IF j = 1 THEN e ELSE s[j - 1]
  BY <1>1, <1>2, <1>3 DEF t
<1>5. w \in Seq(S) /\ InFront(w, e, s, Len(s)) BY <1>2, <1>3, <1>4 DEF InFront
<1> QED BY <1>5 DEF w, t

LEMMA MovedToFront ==
  ASSUME NEW S, NEW l \in Seq(S), NEW i \in 1..Len(l), NEW e \in S
  PROVE  <<e>> \o RemoveAt(l, i) \in Seq(S) /\ Moved(<<e>> \o RemoveAt(l, i), e, l, i)
<1>0. Len(l) \in Nat BY LenProperties
<1> DEFINE s == RemoveAt(l, i)  r == <<e>> \o s
<1>1. /\ s \in Seq(S) /\ Len(s) = Len(l) - 1
      /\ \A j \in 1..Len(l) - 1 : s[j] = IF j < i THEN l[j] ELSE l[j + 1]
  BY Removed
<1> HIDE DEF s
<1>2. /\ r \in Seq(S) /\ Len(r) = Len(s) + 1
      /\ \A j \in 1..Len(s) + 1 : r[j] = IF j = 1 THEN e ELSE s[j - 1]
  BY <1>1, Prepended DEF InFront
<1> HIDE DEF r
<1>3. ASSUME NEW j \in 1..Len(l)
      PROVE  r[j] = IF j = 1 THEN e ELSE IF j <= i THEN l[j - 1] ELSE l[j]
  <2>1. CASE j = 1 BY <2>1, <1>0, <1>1, <1>2
  <2>2. CASE j # 1
    <3>1. r[j] = s[j - 1] BY <2>2, <1>0, <1>1, <1>2
    <3>2. s[j - 1] = IF j - 1 < i THEN l[j - 1] ELSE l[j - 1 + 1] BY <2>2, <1>0, <1>1
    <3>3. j - 1 + 1 = j /\ (j - 1 < i <=> j <= i) BY <1>0
    <3> QED BY <2>2, <3>1, <3>2, <3>3
  <2> QED BY <2>1, <2>2
<1>4. Len(r) = Len(l) BY <1>0, <1>1, <1>2
<1>5. r \in Seq(S) /\ Moved(r, e, l, i) BY <1>2, <1>3, <1>4 DEF Moved
<1> QED BY <1>5 DEF r, s

LEMMA UsedMoved ==
  ASSUME NEW l \in Seq(Entries), NEW i \in 1..Len(l), NEW e \in Entries, e.data = l[i].data,
         NEW r \in Seq(Entries), Moved(r, e, l, i)
  PROVE  Used(r)[Len(r)] = Used(l)[Len(l)]
<1> DEFINE n == Len(l)  u == Used(l)  x == Len(e.data)
           v == [j \in 0..n |-> IF j = 0 THEN 0 ELSE IF j <= i THEN x + u[j - 1] ELSE u[j]]
<1>1. n \in Nat /\ i \in 1..n BY LenProperties
<1>2. x = Len(l[i].data) OBVIOUS
<1>3. \A j \in 1..n : Len(l[j].data) \in Nat BY EntryAt
<1>4. u \in [0..n -> Nat] /\ SumsUp(l, u) BY UsedSums
<1>5. r \in Seq(Entries) /\ Len(r) = n BY DEF Moved
<1>6. r[1] = e /\ \A j \in 2..n : r[j] = IF j <= i THEN l[j - 1] ELSE l[j]
  BY <1>1 DEF Moved
<1>7. u[0] = 0 /\ \A j \in 1..n : u[j] = u[j - 1] + Len(l[j].data) BY <1>4 DEF SumsUp
<1>8. Len(r[1].data) = x BY <1>6
<1> HIDE DEF n, u, x
<1>9. x \in Nat BY <1>1, <1>2, <1>3
<1>10. u[i] = u[i - 1] + x BY <1>1, <1>2, <1>7
<1>11. v \in [0..Len(r) -> Nat]
  <2> SUFFICES ASSUME NEW j \in 0..n PROVE v[j] \in Nat
    BY <1>5
  <2>1. (j # 0 => j - 1 \in 0..n) /\ u[j] \in Nat BY <1>1, <1>4
  <2> QED BY <1>9, <1>4, <2>1
<1>12. ASSUME NEW j \in 1..n PROVE v[j] = v[j - 1] + Len(r[j].data)
  <2>0. u[j] = u[j - 1] + Len(l[j].data) /\ Len(l[j].data) \in Nat BY <1>7, <1>3
  <2>1. j - 1 \in 0..n /\ u[j - 1] \in Nat /\ u[j] \in Nat BY <1>1, <1>4
  <2>2. CASE j = 1
    <3>1. v[1] = x + u[0] /\ v[0] = 0 BY <1>1
    <3> HIDE DEF v
    <3> QED BY <2>2, <3>1, <1>7, <1>8, <1>9
  <2>3. CASE j # 1 /\ j <= i
    <3>1. j - 1 \in 1..n /\ j - 1 - 1 \in 0..n /\ j \in 2..n BY <2>3, <1>1
    <3>2. v[j] = x + u[j - 1] /\ v[j - 1] = x + u[j - 1 - 1] BY <2>3, <3>1, <2>1, <1>1
    <3>3. u[j - 1] = u[j - 1 - 1] + Len(l[j - 1].data) /\ Len(l[j - 1].data) \in Nat
      BY <3>1, <1>7, <1>3
    <3>4. r[j] = l[j - 1] BY <2>3, <3>1, <1>6
    <3>5. u[j - 1 - 1] \in Nat /\ u[j - 1] \in Nat BY <3>1, <2>1, <1>4
    <3> HIDE DEF v
    <3>6. v[j] = v[j - 1] + Len(l[j - 1].data) BY <3>2, <3>3, <3>5, <1>9
    <3> QED BY <3>4, <3>6
  <2>4. CASE j > i
    <3>1. v[j] = u[j] BY <2>4, <1>1
    <3>2. v[j - 1] = u[j - 1]
      <4>1. CASE j - 1 = i
        <5>1. v[i] = x + u[i - 1] BY <1>1
        <5>2. i - 1 \in 0..n /\ u[i - 1] \in Nat BY <1>1, <1>4
        <5> HIDE DEF v
        <5> QED BY <4>1, <5>1, <5>2, <1>9, <1>10
      <4>2. CASE j - 1 # i BY <4>2, <2>4, <2>1, <1>1
      <4> QED BY <4>1, <4>2
    <3>3. j \in 2..n BY <2>4, <1>1
    <3>4. r[j] = l[j] BY <2>4, <3>3, <1>1, <1>6
    <3> HIDE DEF v
    <3> QED BY <3>1, <3>2, <3>4, <2>0
  <2> QED BY <2>2, <2>3, <2>4, <1>1
<1>13. Used(r) = v
  <2>1. SumsUp(r, v)
    <3>1. v[0] = 0 BY <1>1
    <3> QED BY <1>5, <1>12, <3>1 DEF SumsUp
  <2> HIDE DEF v
  <2> QED BY <1>5, <1>11, <2>1, UsedIs
<1>14. v[n] = u[n]
  <2>1. CASE n = i
    <3>1. v[i] = x + u[i - 1] BY <1>1
    <3>2. i - 1 \in 0..n /\ u[i - 1] \in Nat BY <1>1, <1>4
    <3> HIDE DEF v
    <3> QED BY <2>1, <3>1, <3>2, <1>9, <1>10
  <2>2. CASE n # i BY <2>2, <1>1
  <2> QED BY <2>1, <2>2
<1> QED BY <1>5, <1>13, <1>14 DEF u, n

LEMMA UsedMarked ==
  ASSUME NEW l \in Seq(Entries), NEW r \in Seq(Entries), Len(r) = Len(l),
         \A k \in 1..Len(l) : r[k].data = l[k].data
  PROVE  Used(r) = Used(l)
BY UsedSums, UsedIs DEF SumsUp

-----------------------------------------------------------------------------
(* Room, and what is made to expire for it *)

\* As many as fit beside the newcomer are kept, the most recently used.
LEMMA SomeKept ==
  ASSUME NEW l \in Seq(Entries), NEW needed \in Nat, needed <= Capacity
  PROVE  \E k \in 0..Len(l) : Evicted(l, needed) = SubSeq(l, 1, k) /\ Used(l)[k] + needed <= Capacity
<1> DEFINE n == Len(l)  u == Used(l)
           Fits(k) == u[k] + needed <= Capacity /\ \A j \in k + 1..n : u[j] + needed > Capacity
           T == {m \in Nat : m <= n /\ u[n - m] + needed <= Capacity}
<1>1. n \in Nat BY LenProperties
<1>2. u \in [0..n -> Nat] /\ u[0] = 0 BY UsedSums DEF SumsUp
<1> HIDE DEF n, u
<1>3. n \in T
  <2>1. n - n = 0 BY <1>1
  <2> QED BY <1>1, <1>2, <2>1
<1>4. PICK m \in T : \A k \in T : ~(<<k, m>> \in OpToRel(<, Nat))
  BY <1>3, WFMin, NatLessThanWellFounded
<1>5. \A k \in T : ~(k < m) BY <1>4 DEF OpToRel
<1>6. n - m \in 0..n BY <1>1
<1>7. Fits(n - m)
  <2> SUFFICES ASSUME NEW j \in n - m + 1..n PROVE ~(u[j] + needed <= Capacity)
    BY <1>1, <1>2, <1>6, BoundsAssumption
  <2>1. j \in 0..n /\ n - j \in Nat /\ n - j < m /\ n - j <= n /\ n - (n - j) = j BY <1>1, <1>6
  <2> QED BY <2>1, <1>5
<1>8. \E k \in 0..n : Fits(k) BY <1>6, <1>7
<1> HIDE DEF T
<1> DEFINE kept == CHOOSE k \in 0..n : Fits(k)
<1>9. kept \in 0..n /\ Fits(kept) BY <1>8
<1>10. Evicted(l, needed) = SubSeq(l, 1, kept) BY DEF Evicted, n, u
<1> HIDE DEF kept
<1> QED BY <1>9, <1>10 DEF n, u

Expiring(l, k) == IF l[k].inClient THEN <<l[k].id>> ELSE <<>>

\* Those of which the client is thought to hold the data are told, and no others.
LEMMA Expired ==
  ASSUME NEW S, NEW l \in Seq(Held(S))
  PROVE  /\ ToExpire(l) \in Seq(S)
         /\ Range(ToExpire(l)) = {l[k].id : k \in {j \in 1..Len(l) : l[j].inClient}}
<1> DEFINE n == Len(l)
           step == [k \in 1..n |-> [x \in Seq(S) |-> Expiring(l, k) \o x]]
           Told(k) == {l[j].id : j \in {i \in 1..k : l[i].inClient}}
<1>1. n \in Nat BY LenProperties
<1>2. \A k \in 1..n : /\ Expiring(l, k) \in Seq(S)
                      /\ Range(Expiring(l, k)) = IF l[k].inClient THEN {l[k].id} ELSE {}
  <2> SUFFICES ASSUME NEW k \in 1..n
               PROVE  /\ Expiring(l, k) \in Seq(S)
                      /\ Range(Expiring(l, k)) = IF l[k].inClient THEN {l[k].id} ELSE {}
    OBVIOUS
  <2>1. l[k] \in Held(S) BY ElementOfSeq
  <2>2. l[k].id \in S /\ l[k].inClient \in BOOLEAN BY <2>1 DEF Held
  <2>3. CASE l[k].inClient
    <3>1. <<l[k].id>> \in Seq(S) /\ Range(<<l[k].id>>) = {l[k].id} BY <2>2 DEF Range
    <3> QED BY <2>3, <3>1 DEF Expiring
  <2>4. CASE ~l[k].inClient
    <3>1. <<>> \in Seq(S) /\ Range(<<>>) = {} BY DEF Range
    <3> QED BY <2>4, <3>1 DEF Expiring
  <2> QED BY <2>3, <2>4
<1>3. step \in [1..n -> [Seq(S) -> Seq(S)]]
  <2> SUFFICES ASSUME NEW k \in 1..n, NEW x \in Seq(S) PROVE Expiring(l, k) \o x \in Seq(S)
    OBVIOUS
  <2> QED BY <1>2, ConcatProperties
<1> HIDE DEF n
<1>4. PICK v \in [0..n -> Seq(S)] : Goes(n, v, <<>>, step)
  <2>1. <<>> \in Seq(S) OBVIOUS
  <2> HIDE DEF step
  <2> QED BY <1>1, <1>3, <2>1, Recursion
<1>5. v[0] = <<>> BY <1>4 DEF Goes
<1>6. \A k \in 1..n : v[k] = Expiring(l, k) \o v[k - 1]
  <2> SUFFICES ASSUME NEW k \in 1..n PROVE v[k] = Expiring(l, k) \o v[k - 1]
    OBVIOUS
  <2>1. v[k] = step[k][v[k - 1]] BY <1>4 DEF Goes
  <2>2. v[k - 1] \in Seq(S) BY <1>1
  <2>3. step[k] = [x \in Seq(S) |-> Expiring(l, k) \o x] OBVIOUS
  <2> HIDE DEF step
  <2> QED BY <2>1, <2>2, <2>3
<1> HIDE DEF step
<1>7. ToExpire(l) = v[n]
  <2> DEFINE F(w) == [k \in 0..Len(l) |-> IF k = 0 THEN <<>>
                       ELSE (IF l[k].inClient THEN <<l[k].id>> ELSE <<>>) \o w[k - 1]]
  <2>1. v = F(v) BY <1>5, <1>6 DEF n, Expiring
  <2>2. ASSUME NEW w, w = F(w) PROVE w = v
    <3>1. w[0] = v[0] BY <2>2, <1>1, <1>5 DEF n
    <3>2. \A k \in 1..n : w[k] = Expiring(l, k) \o w[k - 1]
      <4> SUFFICES ASSUME NEW k \in 1..n PROVE w[k] = Expiring(l, k) \o w[k - 1]
        OBVIOUS
      <4>1. k \in 0..Len(l) /\ k # 0 BY <1>1 DEF n
      <4>2. F(w)[k] = Expiring(l, k) \o w[k - 1] BY <4>1 DEF Expiring
      <4> HIDE DEF F
      <4> QED BY <4>2, <2>2
    <3>3. \A k \in 1..n : w[k - 1] = v[k - 1] => w[k] = v[k] BY <3>2, <1>6
    <3>4. \A k \in 0..n : w[k] = v[k]
      <4> HIDE DEF F
      <4>1. Alike(n, w, v) BY <3>1, <3>3 DEF Alike
      <4> QED BY <4>1, <1>1, AlikeEverywhere
    <3>5. w = [k \in 0..n |-> w[k]] BY <2>2 DEF n
    <3>6. v = [k \in 0..n |-> v[k]] OBVIOUS
    <3>7. [k \in 0..n |-> w[k]] = [k \in 0..n |-> v[k]] BY <3>4
    <3> HIDE DEF F
    <3> QED BY <3>5, <3>6, <3>7
  <2> QED BY <2>1, <2>2 DEF ToExpire, n
<1>8. \A k \in 1..n : Range(v[k]) = Range(Expiring(l, k)) \cup Range(v[k - 1])
  <2> SUFFICES ASSUME NEW k \in 1..n PROVE Range(v[k]) = Range(Expiring(l, k)) \cup Range(v[k - 1])
    OBVIOUS
  <2>1. v[k - 1] \in Seq(S) BY <1>1
  <2>2. Expiring(l, k) \in Seq(S) BY <1>2
  <2>3. Range(Expiring(l, k) \o v[k - 1]) = Range(Expiring(l, k)) \cup Range(v[k - 1])
    BY <2>1, <2>2, RangeConcatenation
  <2> QED BY <2>3, <1>6
<1>9. \A k \in 0..n : Range(v[k]) = Told(k)
  <2> DEFINE f == [k \in 0..n |-> Range(v[k])]  g == [k \in 0..n |-> Told(k)]
  <2>1. f[0] = g[0]
    <3>1. Range(v[0]) = {} BY <1>5 DEF Range
    <3>2. Told(0) = {} OBVIOUS
    <3> QED BY <1>1, <3>1, <3>2
  <2>2. \A k \in 1..n : f[k - 1] = g[k - 1] => f[k] = g[k]
    <3> SUFFICES ASSUME NEW k \in 1..n, f[k - 1] = g[k - 1] PROVE f[k] = g[k]
      OBVIOUS
    <3>a. k \in 0..n /\ k - 1 \in 0..n BY <1>1
    <3>0. f[k - 1] = Range(v[k - 1]) /\ f[k] = Range(v[k]) /\ g[k - 1] = Told(k - 1) /\ g[k] = Told(k)
      <4> HIDE DEF Told, n
      <4> QED BY <3>a
    <3>1. Told(k) = (IF l[k].inClient THEN {l[k].id} ELSE {}) \cup Told(k - 1)
      <4>1. 1..k = (1..k - 1) \cup {k} BY <1>1
      <4> QED BY <4>1
    <3>2. Range(v[k]) = (IF l[k].inClient THEN {l[k].id} ELSE {}) \cup Range(v[k - 1])
      BY <1>2, <1>8
    <3> HIDE DEF f, g, Told
    <3> QED BY <3>0, <3>1, <3>2
  <2>3. \A k \in 0..n : f[k] = g[k]
    <3> HIDE DEF f, g
    <3>1. Alike(n, f, g) BY <2>1, <2>2 DEF Alike
    <3> QED BY <1>1, <3>1, AlikeEverywhere
  <2> QED BY <2>3
<1> QED
  <2>1. v[n] \in Seq(S) BY <1>1
  <2>2. Range(v[n]) = Told(n) BY <1>1, <1>9
  <2> QED BY <2>1, <2>2, <1>7 DEF n

-----------------------------------------------------------------------------
(* What a decoder will hold *)

\* r is the messages q and then the messages w.
Joined(r, q, w) ==
  /\ r \in Seq(Message)
  /\ Len(r) = Len(q) + Len(w)
  /\ \A j \in 1..Len(q) : r[j] = q[j]
  /\ \A j \in 1..Len(w) : r[Len(q) + j] = w[j]

DictAfter(d, m) ==
  CASE m.type = "DictDefine" -> With(d, m.id, m.data)
    [] m.type = "DictExpire" -> Without(d, m.id)
    [] OTHER -> d
TemplatesAfter(ts, m) ==
  IF m.type = "TemplateDefine" THEN With(ts, m.id, m.template) ELSE ts

LEMMA JoinedIs ==
  ASSUME NEW q \in Seq(Message), NEW w \in Seq(Message)
  PROVE  Joined(q \o w, q, w)
<1> DEFINE r == q \o w
<1>1. Len(q) \in Nat /\ Len(w) \in Nat BY LenProperties
<1>2. /\ r \in Seq(Message) /\ Len(r) = Len(q) + Len(w)
      /\ \A j \in 1..Len(q) + Len(w) : r[j] = IF j <= Len(q) THEN q[j] ELSE w[j - Len(q)]
  BY ConcatProperties
<1> HIDE DEF r
<1>3. \A j \in 1..Len(q) : r[j] = q[j] BY <1>1, <1>2
<1>4. ASSUME NEW j \in 1..Len(w) PROVE r[Len(q) + j] = w[j]
  <2>1. Len(q) + j \in 1..Len(q) + Len(w) /\ ~(Len(q) + j <= Len(q)) /\ Len(q) + j - Len(q) = j
    BY <1>1
  <2> QED BY <2>1, <1>2
<1>5. Joined(r, q, w) BY <1>2, <1>3, <1>4 DEF Joined
<1> QED BY <1>5 DEF r

\* What is held after the first messages depends on these alone.
LEMMA SamePrefix ==
  ASSUME NEW q, NEW r, NEW k \in Nat, \A j \in 1..k : r[j] = q[j],
         NEW d, NEW i, NEW c
  PROVE  /\ Holds(q, d, k, i, c) => Holds(r, d, k, i, c)
         /\ HasTemplate(q, d, k, i, c) => HasTemplate(r, d, k, i, c)
<1>1. \A j \in 1..k : \A l \in j + 1..k : r[l] = q[l] OBVIOUS
<1>2. Holds(q, d, k, i, c) => Holds(r, d, k, i, c) BY <1>1 DEF Holds
<1>3. HasTemplate(q, d, k, i, c) => HasTemplate(r, d, k, i, c) BY <1>1 DEF HasTemplate
<1> QED BY <1>2, <1>3

\* More messages, that do not touch it, leave held what is held.
LEMMA StillHeld ==
  ASSUME NEW q \in Seq(Message), NEW w \in Seq(Message), NEW r, Joined(r, q, w),
         NEW d, NEW i, NEW c
  PROVE  /\ Holds(q, d, Len(q), i, c) /\ (\A l \in 1..Len(w) : ~Touches(w[l], i))
              => Holds(r, d, Len(r), i, c)
         /\ HasTemplate(q, d, Len(q), i, c) /\ (\A l \in 1..Len(w) : ~Defines(w[l], i))
              => HasTemplate(r, d, Len(r), i, c)
<1>1. Len(q) \in Nat /\ Len(w) \in Nat BY LenProperties
<1>2. Len(r) = Len(q) + Len(w) BY DEF Joined
<1>3. \A j \in 1..Len(q) : r[j] = q[j] BY DEF Joined
<1>4. \A j \in Len(q) + 1..Len(r) : \E x \in 1..Len(w) : r[j] = w[x]
  <2> SUFFICES ASSUME NEW j \in Len(q) + 1..Len(r) PROVE \E x \in 1..Len(w) : r[j] = w[x]
    OBVIOUS
  <2>1. j - Len(q) \in 1..Len(w) /\ Len(q) + (j - Len(q)) = j BY <1>1, <1>2
  <2>2. r[Len(q) + (j - Len(q))] = w[j - Len(q)] BY <2>1 DEF Joined
  <2> QED BY <2>1, <2>2
<1>5. ASSUME Holds(q, d, Len(q), i, c), \A l \in 1..Len(w) : ~Touches(w[l], i)
      PROVE  Holds(r, d, Len(r), i, c)
  <2>1. \A j \in Len(q) + 1..Len(r) : ~Touches(r[j], i) BY <1>4, <1>5
  <2>2. CASE \E j \in 1..Len(q) : q[j] = DictDefine(i, c) /\ \A l \in j + 1..Len(q) : ~Touches(q[l], i)
    <3>1. PICK j \in 1..Len(q) : q[j] = DictDefine(i, c) /\ \A l \in j + 1..Len(q) : ~Touches(q[l], i)
      BY <2>2
    <3>2. j \in 1..Len(r) /\ r[j] = DictDefine(i, c) BY <3>1, <1>1, <1>2, <1>3
    <3>3. \A l \in j + 1..Len(r) : ~Touches(r[l], i) BY <3>1, <2>1, <1>1, <1>2, <1>3
    <3> QED BY <3>2, <3>3 DEF Holds
  <2>3. CASE (\A l \in 1..Len(q) : ~Touches(q[l], i)) /\ i \in DOMAIN d /\ d[i] = c
    <3>1. \A l \in 1..Len(r) : ~Touches(r[l], i) BY <2>3, <2>1, <1>1, <1>2, <1>3
    <3> QED BY <2>3, <3>1 DEF Holds
  <2> QED BY <1>5, <2>2, <2>3 DEF Holds
<1>6. ASSUME HasTemplate(q, d, Len(q), i, c), \A l \in 1..Len(w) : ~Defines(w[l], i)
      PROVE  HasTemplate(r, d, Len(r), i, c)
  <2>1. \A j \in Len(q) + 1..Len(r) : ~Defines(r[j], i) BY <1>4, <1>6
  <2>2. CASE \E j \in 1..Len(q) : q[j] = TemplateDefine(i, c) /\ \A l \in j + 1..Len(q) : ~Defines(q[l], i)
    <3>1. PICK j \in 1..Len(q) : q[j] = TemplateDefine(i, c) /\ \A l \in j + 1..Len(q) : ~Defines(q[l], i)
      BY <2>2
    <3>2. j \in 1..Len(r) /\ r[j] = TemplateDefine(i, c) BY <3>1, <1>1, <1>2, <1>3
    <3>3. \A l \in j + 1..Len(r) : ~Defines(r[l], i) BY <3>1, <2>1, <1>1, <1>2, <1>3
    <3> QED BY <3>2, <3>3 DEF HasTemplate
  <2>3. CASE (\A l \in 1..Len(q) : ~Defines(q[l], i)) /\ i \in DOMAIN d /\ d[i] = c
    <3>1. \A l \in 1..Len(r) : ~Defines(r[l], i) BY <2>3, <2>1, <1>1, <1>2, <1>3
    <3> QED BY <2>3, <3>1 DEF HasTemplate
  <2> QED BY <1>6, <2>2, <2>3 DEF HasTemplate
<1> QED BY <1>5, <1>6

\* What the last message defines is held.
LEMMA NowHeld ==
  ASSUME NEW r \in Seq(Message), NEW k \in 1..Len(r), NEW d, NEW i, NEW c
  PROVE  /\ r[k] = DictDefine(i, c) => Holds(r, d, k, i, c)
         /\ r[k] = TemplateDefine(i, c) => HasTemplate(r, d, k, i, c)
<1>1. Len(r) \in Nat BY LenProperties
<1>2. k \in 1..k /\ k + 1..k = {} BY <1>1
<1>3. r[k] = DictDefine(i, c) => Holds(r, d, k, i, c) BY <1>2 DEF Holds
<1>4. r[k] = TemplateDefine(i, c) => HasTemplate(r, d, k, i, c) BY <1>2 DEF HasTemplate
<1> QED BY <1>3, <1>4

\* A decoder that has read a message holds after those that follow what one that has
\* it yet to read holds after it and them.
LEMMA HeldByNext ==
  ASSUME NEW q \in Seq(Message), q # <<>>, NEW k \in 1..Len(q), NEW d, NEW i, NEW c
  PROVE  /\ Holds(q, d, k, i, c) => Holds(Tail(q), DictAfter(d, Head(q)), k - 1, i, c)
         /\ HasTemplate(q, d, k, i, c) =>
              HasTemplate(Tail(q), TemplatesAfter(d, Head(q)), k - 1, i, c)
<1> DEFINE n == Len(q)  r == Tail(q)  m == Head(q)
<1>1. n \in Nat /\ k \in 1..n BY LenProperties
<1>2. m = q[1] OBVIOUS
<1>3. Len(r) = n - 1 /\ \A j \in 1..n - 1 : r[j] = q[j + 1] BY HeadTailProperties
<1> HIDE DEF n, r, m
<1>4. \A j \in 2..n : j - 1 \in 1..n - 1 /\ r[j - 1] = q[j]
  <2> SUFFICES ASSUME NEW j \in 2..n PROVE j - 1 \in 1..n - 1 /\ r[j - 1] = q[j]
    OBVIOUS
  <2>1. j - 1 \in 1..n - 1 /\ (j - 1) + 1 = j BY <1>1
  <2> QED BY <2>1, <1>3
<1>5. ASSUME Holds(q, d, k, i, c) PROVE Holds(r, DictAfter(d, m), k - 1, i, c)
  <2>1. CASE \E j \in 1..k : q[j] = DictDefine(i, c) /\ \A l \in j + 1..k : ~Touches(q[l], i)
    <3>1. PICK j \in 1..k : q[j] = DictDefine(i, c) /\ \A l \in j + 1..k : ~Touches(q[l], i)
      BY <2>1
    <3>2. \A l \in j..k - 1 : ~Touches(r[l], i)
      <4> SUFFICES ASSUME NEW l \in j..k - 1 PROVE ~Touches(r[l], i)
        OBVIOUS
      <4>1. l + 1 \in j + 1..k /\ l \in 1..n - 1 BY <1>1
      <4> QED BY <4>1, <3>1, <1>3
    <3>3. CASE j = 1
      <4>1. m = DictDefine(i, c) BY <3>1, <3>3, <1>2
      <4>2. DictAfter(d, m) = With(d, i, c) BY <4>1 DEF DictAfter, DictDefine
      <4>3. i \in DOMAIN DictAfter(d, m) /\ DictAfter(d, m)[i] = c BY <4>2 DEF With
      <4>4. \A l \in 1..k - 1 : ~Touches(r[l], i) BY <3>2, <3>3
      <4> QED BY <4>3, <4>4 DEF Holds
    <3>4. CASE j # 1
      <4>1. j \in 2..n /\ j - 1 \in 1..k - 1 BY <3>4, <1>1
      <4>2. r[j - 1] = DictDefine(i, c) BY <4>1, <1>4, <3>1
      <4>3. \A l \in (j - 1) + 1..k - 1 : ~Touches(r[l], i) BY <3>2
      <4> QED BY <4>1, <4>2, <4>3 DEF Holds
    <3> QED BY <3>3, <3>4
  <2>2. CASE (\A l \in 1..k : ~Touches(q[l], i)) /\ i \in DOMAIN d /\ d[i] = c
    <3>1. ~Touches(m, i) BY <2>2, <1>1, <1>2
    <3>2. i \in DOMAIN DictAfter(d, m) /\ DictAfter(d, m)[i] = c
      <4>1. CASE m.type = "DictDefine"
        BY <4>1, <3>1, <2>2 DEF DictAfter, With, Touches
      <4>2. CASE m.type = "DictExpire"
        BY <4>2, <3>1, <2>2 DEF DictAfter, Without, Touches
      <4>3. CASE m.type \notin {"DictDefine", "DictExpire"}
        BY <4>3, <2>2 DEF DictAfter
      <4> QED BY <4>1, <4>2, <4>3
    <3>3. \A l \in 1..k - 1 : ~Touches(r[l], i)
      <4> SUFFICES ASSUME NEW l \in 1..k - 1 PROVE ~Touches(r[l], i)
        OBVIOUS
      <4>1. l + 1 \in 1..k /\ l \in 1..n - 1 BY <1>1
      <4> QED BY <4>1, <2>2, <1>3
    <3> QED BY <3>2, <3>3 DEF Holds
  <2> QED BY <1>5, <2>1, <2>2 DEF Holds
<1>6. ASSUME HasTemplate(q, d, k, i, c) PROVE HasTemplate(r, TemplatesAfter(d, m), k - 1, i, c)
  <2>1. CASE \E j \in 1..k : q[j] = TemplateDefine(i, c) /\ \A l \in j + 1..k : ~Defines(q[l], i)
    <3>1. PICK j \in 1..k : q[j] = TemplateDefine(i, c) /\ \A l \in j + 1..k : ~Defines(q[l], i)
      BY <2>1
    <3>2. \A l \in j..k - 1 : ~Defines(r[l], i)
      <4> SUFFICES ASSUME NEW l \in j..k - 1 PROVE ~Defines(r[l], i)
        OBVIOUS
      <4>1. l + 1 \in j + 1..k /\ l \in 1..n - 1 BY <1>1
      <4> QED BY <4>1, <3>1, <1>3
    <3>3. CASE j = 1
      <4>1. m = TemplateDefine(i, c) BY <3>1, <3>3, <1>2
      <4>2. TemplatesAfter(d, m) = With(d, i, c) BY <4>1 DEF TemplatesAfter, TemplateDefine
      <4>3. i \in DOMAIN TemplatesAfter(d, m) /\ TemplatesAfter(d, m)[i] = c BY <4>2 DEF With
      <4>4. \A l \in 1..k - 1 : ~Defines(r[l], i) BY <3>2, <3>3
      <4> QED BY <4>3, <4>4 DEF HasTemplate
    <3>4. CASE j # 1
      <4>1. j \in 2..n /\ j - 1 \in 1..k - 1 BY <3>4, <1>1
      <4>2. r[j - 1] = TemplateDefine(i, c) BY <4>1, <1>4, <3>1
      <4>3. \A l \in (j - 1) + 1..k - 1 : ~Defines(r[l], i) BY <3>2
      <4> QED BY <4>1, <4>2, <4>3 DEF HasTemplate
    <3> QED BY <3>3, <3>4
  <2>2. CASE (\A l \in 1..k : ~Defines(q[l], i)) /\ i \in DOMAIN d /\ d[i] = c
    <3>1. ~Defines(m, i) BY <2>2, <1>1, <1>2
    <3>2. i \in DOMAIN TemplatesAfter(d, m) /\ TemplatesAfter(d, m)[i] = c
      BY <3>1, <2>2 DEF TemplatesAfter, With, Defines
    <3>3. \A l \in 1..k - 1 : ~Defines(r[l], i)
      <4> SUFFICES ASSUME NEW l \in 1..k - 1 PROVE ~Defines(r[l], i)
        OBVIOUS
      <4>1. l + 1 \in 1..k /\ l \in 1..n - 1 BY <1>1
      <4> QED BY <4>1, <2>2, <1>3
    <3> QED BY <3>2, <3>3 DEF HasTemplate
  <2> QED BY <1>6, <2>1, <2>2 DEF HasTemplate
<1> QED BY <1>5, <1>6 DEF r, m

-----------------------------------------------------------------------------
(* What the messages under way decode to *)

LEMMA DecodesPrefix ==
  ASSUME NEW q, NEW r, NEW k \in Nat \ {0}, \A j \in 1..k : r[j] = q[j],
         NEW d, NEW ts, NEW c, Decodes(q, d, ts, k, c)
  PROVE  Decodes(r, d, ts, k, c)
<1>1. r[k] = q[k] OBVIOUS
<1>2. k - 1 \in Nat /\ \A j \in 1..k - 1 : r[j] = q[j] OBVIOUS
<1>3. \A i : Holds(q, d, k - 1, i, c) => Holds(r, d, k - 1, i, c) BY <1>2, SamePrefix
<1>4. \A i, t : HasTemplate(q, ts, k - 1, i, t) => HasTemplate(r, ts, k - 1, i, t)
  BY <1>2, SamePrefix
<1> QED BY <1>1, <1>3, <1>4 DEF Decodes

\* Messages that carry nothing to forward leave the run as it was, and one more that
\* decodes to c is for a command c more.
LEMMA RunGoesOn ==
  ASSUME NEW q \in Seq(Message), NEW w \in Seq(Message), NEW r, Joined(r, q, w),
         NEW d, NEW ts, NEW s \in Seq(Commands), NEW g, Run(q, d, ts, s, g),
         \A j \in 1..Len(w) : ~Content(w[j])
  PROVE  Run(r, d, ts, s, g)
<1> DEFINE n == Len(q)  k == Len(w)
<1>1. n \in Nat /\ k \in Nat /\ Len(s) \in Nat BY LenProperties
<1>2. PICK G \in [0..n -> 0..Len(s)] : G[0] = g /\ G[n] = Len(s) /\ Counts(q, d, ts, s, G)
  BY DEF Run
<1>3. Len(r) = n + k /\ \A j \in 1..n : r[j] = q[j] BY DEF Joined
<1>4. \A j \in 1..k : ~Content(r[n + j]) BY DEF Joined
<1> HIDE DEF n, k
<1> DEFINE H == [j \in 0..n + k |-> IF j <= n THEN G[j] ELSE Len(s)]
<1>5. H \in [0..Len(r) -> 0..Len(s)] /\ H[0] = g /\ H[Len(r)] = Len(s)
  <2>1. H \in [0..n + k -> 0..Len(s)] BY <1>1
  <2>2. H[0] = g BY <1>1, <1>2
  <2>3. H[n + k] = Len(s)
    <3>1. CASE k = 0
      <4>1. n + k = n /\ n \in 0..n + k BY <3>1, <1>1
      <4> QED BY <4>1, <1>1, <1>2
    <3>2. CASE k # 0
      <4>1. ~(n + k <= n) /\ n + k \in 0..n + k BY <3>2, <1>1
      <4> QED BY <4>1
    <3> QED BY <3>1, <3>2
  <2> HIDE DEF H
  <2> QED BY <2>1, <2>2, <2>3, <1>3
<1>6. ASSUME NEW j \in 1..Len(r)
      PROVE  /\ Content(r[j]) => H[j] = H[j - 1] + 1 /\ Decodes(r, d, ts, j, s[H[j]])
             /\ ~Content(r[j]) => H[j] = H[j - 1]
  <2>1. CASE j <= n
    <3>1. j \in 1..n /\ j - 1 \in 0..n BY <2>1, <1>1, <1>3
    <3>2. H[j] = G[j] /\ H[j - 1] = G[j - 1] BY <2>1, <3>1, <1>1
    <3>3. /\ Content(q[j]) => G[j] = G[j - 1] + 1 /\ Decodes(q, d, ts, j, s[G[j]])
          /\ ~Content(q[j]) => G[j] = G[j - 1]
      BY <3>1, <1>2 DEF Counts, n
    <3>4. r[j] = q[j] /\ \A x \in 1..j : r[x] = q[x] BY <3>1, <1>1, <1>3
    <3>5. Decodes(q, d, ts, j, s[G[j]]) => Decodes(r, d, ts, j, s[G[j]])
      <4>1. j \in Nat \ {0} BY <3>1
      <4> DEFINE e == s[G[j]]
      <4> HIDE DEF e, H
      <4>2. ASSUME Decodes(q, d, ts, j, e) PROVE Decodes(r, d, ts, j, e)
        BY <3>4, <4>1, <4>2, DecodesPrefix
      <4> QED BY <4>2 DEF e
    <3> HIDE DEF H
    <3> QED BY <3>2, <3>3, <3>4, <3>5
  <2>2. CASE j > n
    <3>1. j - n \in 1..k /\ n + (j - n) = j BY <2>2, <1>1, <1>3
    <3>2. ~Content(r[j]) BY <3>1, <1>4
    <3>3. H[j] = Len(s) BY <2>2, <1>1, <1>3
    <3>4. H[j - 1] = Len(s)
      <4>1. CASE j - 1 = n BY <4>1, <1>1, <1>2, <1>3
      <4>2. CASE j - 1 # n BY <4>2, <2>2, <1>1, <1>3
      <4> QED BY <4>1, <4>2
    <3> QED BY <3>2, <3>3, <3>4
  <2> QED BY <2>1, <2>2, <1>1
<1> HIDE DEF H
<1>7. Counts(r, d, ts, s, H) BY <1>6 DEF Counts
<1> QED BY <1>5, <1>7 DEF Run

LEMMA RunWithContent ==
  ASSUME NEW q \in Seq(Message), NEW r \in Seq(Message), Len(r) = Len(q) + 1,
         \A j \in 1..Len(q) : r[j] = q[j],
         NEW d, NEW ts, NEW s \in Seq(Commands), NEW c \in Commands, NEW g, Run(q, d, ts, s, g),
         Content(r[Len(r)]), Decodes(r, d, ts, Len(r), c)
  PROVE  Run(r, d, ts, Append(s, c), g)
<1> DEFINE n == Len(q)  t == Append(s, c)
<1>1. n \in Nat /\ Len(s) \in Nat BY LenProperties
<1>2. PICK G \in [0..n -> 0..Len(s)] : G[0] = g /\ G[n] = Len(s) /\ Counts(q, d, ts, s, G)
  BY DEF Run
<1>3. Len(r) = n + 1 /\ \A j \in 1..n : r[j] = q[j] OBVIOUS
<1>4. Len(t) = Len(s) + 1 /\ (\A j \in 1..Len(s) : t[j] = s[j]) /\ t[Len(s) + 1] = c
  BY AppendProperties
<1>5. \A j \in 1..n : Content(q[j]) => G[j] \in 1..Len(s)
  <2> SUFFICES ASSUME NEW j \in 1..n, Content(q[j]) PROVE G[j] \in 1..Len(s)
    OBVIOUS
  <2>1. G[j] = G[j - 1] + 1 BY <1>2 DEF Counts
  <2>2. G[j - 1] \in 0..Len(s) /\ G[j] \in 0..Len(s) BY <1>1
  <2> QED BY <2>1, <2>2, <1>1
<1>6. \A j \in 1..n :
        /\ Content(q[j]) => G[j] = G[j - 1] + 1 /\ Decodes(q, d, ts, j, s[G[j]])
        /\ ~Content(q[j]) => G[j] = G[j - 1]
  BY <1>2 DEF Counts
<1> HIDE DEF n, t
<1> DEFINE H == [j \in 0..n + 1 |-> IF j <= n THEN G[j] ELSE Len(s) + 1]
<1>7. H \in [0..Len(r) -> 0..Len(t)] /\ H[0] = g /\ H[Len(r)] = Len(t)
  BY <1>1, <1>2, <1>3, <1>4
<1>8. ASSUME NEW j \in 1..Len(r)
      PROVE  /\ Content(r[j]) => H[j] = H[j - 1] + 1 /\ Decodes(r, d, ts, j, t[H[j]])
             /\ ~Content(r[j]) => H[j] = H[j - 1]
  <2>1. CASE j <= n
    <3>1. j \in 1..n /\ j - 1 \in 0..n BY <2>1, <1>1, <1>3
    <3>2. H[j] = G[j] /\ H[j - 1] = G[j - 1] BY <2>1, <3>1, <1>1
    <3>3. Content(q[j]) => t[G[j]] = s[G[j]] BY <3>1, <1>4, <1>5
    <3>4. r[j] = q[j] /\ \A x \in 1..j : r[x] = q[x] BY <3>1, <1>1, <1>3
    <3>5. Decodes(q, d, ts, j, s[G[j]]) => Decodes(r, d, ts, j, s[G[j]])
      <4>1. j \in Nat \ {0} BY <3>1
      <4> DEFINE e == s[G[j]]
      <4> HIDE DEF e, H
      <4>2. ASSUME Decodes(q, d, ts, j, e) PROVE Decodes(r, d, ts, j, e)
        BY <3>4, <4>1, <4>2, DecodesPrefix
      <4> QED BY <4>2 DEF e
    <3> HIDE DEF H
    <3> QED BY <3>1, <3>2, <3>3, <3>4, <3>5, <1>6
  <2>2. CASE j > n
    <3>1. j = n + 1 BY <2>2, <1>1, <1>3
    <3>2. H[j] = Len(s) + 1 /\ H[j - 1] = Len(s)
      BY <3>1, <1>1, <1>2
    <3>3. Content(r[j]) /\ Decodes(r, d, ts, j, c) BY <3>1, <1>3
    <3>4. t[H[j]] = c BY <3>2, <1>4
    <3> HIDE DEF H
    <3> QED BY <3>2, <3>3, <3>4
  <2> QED BY <2>1, <2>2, <1>1
<1> HIDE DEF H
<1>9. Counts(r, d, ts, t, H) BY <1>8 DEF Counts
<1> QED BY <1>7, <1>9 DEF Run, t

\* A decoder reads the first message, to what was encoded next for it if it is to
\* forward something, and the run goes on from there.
LEMMA RunOfNext ==
  ASSUME NEW q \in Seq(Message), q # <<>>, NEW d, NEW ts, NEW s \in Seq(Commands),
         NEW g \in Nat, Run(q, d, ts, s, g)
  PROVE  /\ Content(Head(q)) => g + 1 \in 1..Len(s) /\ Decodes(q, d, ts, 1, s[g + 1])
         /\ Run(Tail(q), DictAfter(d, Head(q)), TemplatesAfter(ts, Head(q)), s,
                IF Content(Head(q)) THEN g + 1 ELSE g)
<1> DEFINE n == Len(q)  r == Tail(q)  m == Head(q)
           d2 == DictAfter(d, m)  t2 == TemplatesAfter(ts, m)
           g2 == IF Content(m) THEN g + 1 ELSE g
<1>1. n \in Nat \ {0} /\ Len(s) \in Nat BY LenProperties, EmptySeq
<1>2. PICK G \in [0..n -> 0..Len(s)] : G[0] = g /\ G[n] = Len(s) /\ Counts(q, d, ts, s, G)
  BY DEF Run
<1>3. m = q[1] OBVIOUS
<1>4. r \in Seq(Message) /\ Len(r) = n - 1 /\ \A j \in 1..n - 1 : r[j] = q[j + 1]
  BY HeadTailProperties
<1>5. \A k \in 1..n : \A i, c :
        /\ Holds(q, d, k, i, c) => Holds(r, d2, k - 1, i, c)
        /\ HasTemplate(q, ts, k, i, c) => HasTemplate(r, t2, k - 1, i, c)
  BY HeldByNext
<1>6. \A j \in 1..n :
        /\ Content(q[j]) => G[j] = G[j - 1] + 1 /\ Decodes(q, d, ts, j, s[G[j]])
        /\ ~Content(q[j]) => G[j] = G[j - 1]
  BY <1>2 DEF Counts
<1> HIDE DEF n, r, m, d2, t2
<1>7. G[1] \in 0..Len(s) /\ G[1] = g2
  <2>1. 1 \in 1..n /\ 1 - 1 = 0 /\ 1 \in 0..n BY <1>1
  <2>2. Content(q[1]) => G[1] = G[0] + 1 BY <2>1, <1>6
  <2>3. ~Content(q[1]) => G[1] = G[0] BY <2>1, <1>6
  <2> QED BY <2>1, <2>2, <2>3, <1>2, <1>3
<1>8. Content(m) => g + 1 \in 1..Len(s) /\ Decodes(q, d, ts, 1, s[g + 1])
  <2>1. 1 \in 1..n BY <1>1
  <2> QED BY <2>1, <1>1, <1>3, <1>6, <1>7
<1> DEFINE H == [j \in 0..n - 1 |-> G[j + 1]]
<1>9. H \in [0..n - 1 -> 0..Len(s)] BY <1>1
<1>10. H[0] = g2 /\ H[n - 1] = Len(s) BY <1>1, <1>2, <1>7
<1>11. ASSUME NEW j \in 1..n - 1
       PROVE  /\ Content(r[j]) => H[j] = H[j - 1] + 1 /\ Decodes(r, d2, t2, j, s[H[j]])
              /\ ~Content(r[j]) => H[j] = H[j - 1]
  <2>1. j + 1 \in 1..n /\ j \in 1..n /\ j + 1 - 1 = j BY <1>1
  <2>2. H[j] = G[j + 1] /\ H[j - 1] = G[j] BY <1>1
  <2>3. r[j] = q[j + 1] BY <1>4
  <2>4. Decodes(q, d, ts, j + 1, s[G[j + 1]]) => Decodes(r, d2, t2, j, s[G[j + 1]])
    <3>1. \A i, c : Holds(q, d, j, i, c) => Holds(r, d2, j - 1, i, c) BY <2>1, <1>5
    <3>2. \A i, c : HasTemplate(q, ts, j, i, c) => HasTemplate(r, t2, j - 1, i, c) BY <2>1, <1>5
    <3> QED BY <3>1, <3>2, <2>1, <2>3 DEF Decodes
  <2>5. /\ Content(q[j + 1]) => G[j + 1] = G[j] + 1 /\ Decodes(q, d, ts, j + 1, s[G[j + 1]])
        /\ ~Content(q[j + 1]) => G[j + 1] = G[j]
    BY <2>1, <1>6
  <2> HIDE DEF H
  <2> QED BY <2>2, <2>3, <2>4, <2>5
<1> HIDE DEF H
<1>12. Counts(r, d2, t2, s, H) BY <1>4, <1>11 DEF Counts
<1>13. Run(r, d2, t2, s, g2)
  <2> HIDE DEF g2
  <2> QED BY <1>4, <1>9, <1>10, <1>12 DEF Run
<1> QED BY <1>8, <1>13 DEF m, r, d2, t2

-----------------------------------------------------------------------------
(* What the encoder does to its dictionary *)

LEMMA HeldAreEntries ==
  ASSUME NEW S, S \subseteq Nat, NEW l \in Seq(Held(S))
  PROVE  l \in Seq(Entries)
<1>1. Held(S) \subseteq Entries BY DEF Held, Entries
<1> QED BY <1>1, SeqMonotonic

LEMMA HeldAt ==
  ASSUME NEW S, NEW l \in Seq(Held(S)), NEW k \in 1..Len(l)
  PROVE  l[k] \in Held(S) /\ l[k].id \in S /\ l[k].data \in Commands /\ l[k].inClient \in BOOLEAN
<1>1. l[k] \in Held(S) BY ElementOfSeq
<1> QED BY <1>1 DEF Held

\* Using an entry moves it to the front, and marks it present.
Reused(r, e, l, i) ==
  /\ Distinct(r)
  /\ Used(r)[Len(r)] = Used(l)[Len(l)]
  /\ IdsOf(r) = IdsOf(l) /\ InUseOf(r) = InUseOf(l) \cup {l[i].id}
  /\ \A j \in DOMAIN r : r[j] = e \/ \E x \in DOMAIN l : r[j] = l[x]

LEMMA EntryUsed ==
  ASSUME NEW S, S \subseteq Nat, NEW l \in Seq(Held(S)), Distinct(l), NEW i \in 1..Len(l),
         NEW e \in Held(S), e.id = l[i].id, e.data = l[i].data, e.inClient,
         NEW r \in Seq(Held(S)), Moved(r, e, l, i)
  PROVE  Reused(r, e, l, i)
<1> DEFINE n == Len(l)
           pos(j) == IF j = 1 THEN i ELSE IF j <= i THEN j - 1 ELSE j
<1>1. n \in Nat /\ i \in 1..n BY LenProperties
<1>3. e.id = l[i].id /\ e.data = l[i].data /\ e.inClient OBVIOUS
<1>4. Len(r) = n /\ \A j \in 1..n : r[j] = IF j = 1 THEN e ELSE IF j <= i THEN l[j - 1] ELSE l[j]
  BY DEF Moved
<1>5. DOMAIN r = 1..n /\ DOMAIN l = 1..n BY <1>4, LenProperties
<1>6. Used(r)[Len(r)] = Used(l)[Len(l)]
  <2>1. l \in Seq(Entries) /\ r \in Seq(Entries) BY <1>4, HeldAreEntries
  <2>2. e \in Entries BY DEF Held, Entries
  <2> QED BY <2>1, <2>2, UsedMoved
<1>7. \A x, y \in 1..n : l[x].id = l[y].id \/ l[x].data = l[y].data => x = y BY <1>5 DEF Distinct
<1>8. \A j \in 1..n : j # 1 => r[j] = l[pos(j)] BY <1>4
<1>9. r[1] = e BY <1>1, <1>4
<1> HIDE DEF n
<1>10. \A j \in 1..n : /\ pos(j) \in 1..n
                       /\ r[j].id = l[pos(j)].id /\ r[j].data = l[pos(j)].data
                       /\ j # 1 => r[j] = l[pos(j)]
  <2> SUFFICES ASSUME NEW j \in 1..n
               PROVE  /\ pos(j) \in 1..n
                      /\ r[j].id = l[pos(j)].id /\ r[j].data = l[pos(j)].data
                      /\ j # 1 => r[j] = l[pos(j)]
    OBVIOUS
  <2>1. CASE j = 1 BY <2>1, <1>1, <1>3, <1>9
  <2>2. CASE j # 1
    <3>1. pos(j) \in 1..n BY <2>2, <1>1
    <3>2. r[j] = l[pos(j)] BY <2>2, <1>8
    <3> HIDE DEF pos
    <3> QED BY <2>2, <3>1, <3>2
  <2> QED BY <2>1, <2>2
<1>11. \A j, k \in 1..n : pos(j) = pos(k) => j = k BY <1>1
<1>12. \A x \in 1..n : \E j \in 1..n : pos(j) = x
  <2> SUFFICES ASSUME NEW x \in 1..n PROVE \E j \in 1..n : pos(j) = x
    OBVIOUS
  <2>1. CASE x = i
    <3>1. 1 \in 1..n /\ pos(1) = x BY <2>1, <1>1
    <3> QED BY <3>1
  <2>2. CASE x < i
    <3>1. x + 1 \in 1..n /\ pos(x + 1) = x BY <2>2, <1>1
    <3> QED BY <3>1
  <2>3. CASE x > i
    <3>1. pos(x) = x BY <2>3, <1>1
    <3> QED BY <3>1
  <2> QED BY <2>1, <2>2, <2>3, <1>1
<1>13. \A j \in 1..n : pos(j) = i => j = 1 BY <1>1
<1> HIDE DEF pos
<1>14. Distinct(r)
  <2> SUFFICES ASSUME NEW j \in 1..n, NEW k \in 1..n, r[j].id = r[k].id \/ r[j].data = r[k].data
               PROVE  j = k
    BY <1>5 DEF Distinct
  <2>1. pos(j) \in 1..n /\ r[j].id = l[pos(j)].id /\ r[j].data = l[pos(j)].data BY <1>10
  <2>2. pos(k) \in 1..n /\ r[k].id = l[pos(k)].id /\ r[k].data = l[pos(k)].data BY <1>10
  <2>3. pos(j) = pos(k) BY <2>1, <2>2, <1>7
  <2> QED BY <2>3, <1>11
<1>15. IdsOf(r) = IdsOf(l)
  <2>1. IdsOf(r) = {r[j].id : j \in 1..n} /\ IdsOf(l) = {l[j].id : j \in 1..n} BY <1>5 DEF IdsOf
  <2>2. \A j \in 1..n : \E x \in 1..n : r[j].id = l[x].id BY <1>10
  <2>3. ASSUME NEW x \in 1..n PROVE \E j \in 1..n : r[j].id = l[x].id
    <3>1. PICK j \in 1..n : pos(j) = x BY <1>12
    <3>2. r[j].id = l[pos(j)].id BY <1>10
    <3> QED BY <3>1, <3>2
  <2> QED BY <2>1, <2>2, <2>3
<1>16. InUseOf(r) = InUseOf(l) \cup {l[i].id}
  <2>1. \A v : v \in InUseOf(r) <=> \E j \in 1..n : r[j].inClient /\ r[j].id = v BY <1>5 DEF InUseOf
  <2>2. \A v : v \in InUseOf(l) <=> \E x \in 1..n : l[x].inClient /\ l[x].id = v BY <1>5 DEF InUseOf
  <2>3. ASSUME NEW v \in InUseOf(r) PROVE v \in InUseOf(l) \cup {l[i].id}
    <3>1. PICK j \in 1..n : r[j].inClient /\ r[j].id = v BY <2>1, <2>3
    <3>2. CASE j = 1 BY <3>1, <3>2, <1>3, <1>9
    <3>3. CASE j # 1 BY <3>1, <3>3, <1>10, <2>2
    <3> QED BY <3>2, <3>3
  <2>4. ASSUME NEW v \in InUseOf(l) PROVE v \in InUseOf(r)
    <3>1. PICK x \in 1..n : l[x].inClient /\ l[x].id = v BY <2>2, <2>4
    <3>2. PICK j \in 1..n : pos(j) = x BY <1>12
    <3>3. r[j].id = v BY <3>1, <3>2, <1>10
    <3>4. r[j].inClient
      <4>1. CASE j = 1 BY <4>1, <1>3, <1>9
      <4>2. CASE j # 1 BY <4>2, <3>1, <3>2, <1>10
      <4> QED BY <4>1, <4>2
    <3> QED BY <3>3, <3>4, <2>1
  <2>5. l[i].id \in InUseOf(r)
    <3>1. 1 \in 1..n /\ r[1].inClient /\ r[1].id = l[i].id BY <1>1, <1>3, <1>9
    <3> QED BY <3>1, <2>1
  <2> QED BY <2>3, <2>4, <2>5
<1>17. \A j \in DOMAIN r : r[j] = e \/ \E x \in DOMAIN l : r[j] = l[x] BY <1>5, <1>9, <1>10
<1> QED BY <1>6, <1>14, <1>15, <1>16, <1>17 DEF Reused

\* A new entry comes to the front, and those that no longer fit go: what a client is
\* thought to hold is in use still, or is made to expire.
Remains(t, l, k) ==
  Len(t) = Len(l) - k /\ \A j \in 1..Len(l) - k : t[j] = l[k + j]

Entered(r, e, l, gone) ==
  /\ Distinct(r)
  /\ Used(r)[Len(r)] <= Capacity
  /\ IdsOf(r) \subseteq IdsOf(l) \cup {e.id}
  /\ Range(gone) \subseteq IdsOf(l) \ IdsOf(r)
  /\ InUseOf(l) \subseteq InUseOf(r) \cup Range(gone)
  /\ e.id \in InUseOf(r)
  /\ \A j \in DOMAIN r : r[j] = e \/ \E x \in DOMAIN l : r[j] = l[x]

LEMMA EntryAdded ==
  ASSUME NEW id \in Nat, NEW l \in Seq(Held(1..id)), Distinct(l), NEW k \in 0..Len(l),
         NEW e \in Held(1..id + 1), e.id = id + 1, e.inClient,
         \A x \in DOMAIN l : l[x].data # e.data,
         Used(l)[k] + Len(e.data) <= Capacity,
         NEW r \in Seq(Held(1..id + 1)), InFront(r, e, l, k),
         NEW t \in Seq(Held(1..id)), Remains(t, l, k),
         NEW gone, gone = ToExpire(t)
  PROVE  gone \in Seq(1..id) /\ Entered(r, e, l, gone)
<1> DEFINE n == Len(l)
<1>1. n \in Nat /\ k \in 0..n /\ DOMAIN l = 1..n BY LenProperties
<1>5. \A j \in 1..n : l[j].id \in 1..id BY HeldAt
<1>7. e.id = id + 1 /\ e.inClient OBVIOUS
<1>8. \A j \in 1..n : l[j].id # id + 1 /\ l[j].data # e.data BY <1>1, <1>5
<1>9. Len(r) = k + 1 /\ DOMAIN r = 1..k + 1 BY LenProperties DEF InFront
<1>10. \A j \in 1..k + 1 : r[j] = IF j = 1 THEN e ELSE l[j - 1] BY DEF InFront
<1>11. r[1] = e /\ \A j \in 2..k + 1 : j - 1 \in 1..k /\ j - 1 \in 1..n /\ r[j] = l[j - 1]
  <2>1. 1 \in 1..k + 1 BY <1>1
  <2>2. \A j \in 2..k + 1 : j - 1 \in 1..k /\ j - 1 \in 1..n /\ j \in 1..k + 1 /\ j # 1 BY <1>1
  <2> HIDE DEF n
  <2> QED BY <2>1, <2>2, <1>10
<1>12. \A j \in 1..k + 1 : j = 1 \/ j \in 2..k + 1 BY <1>1
<1>13. Len(t) = n - k /\ \A j \in 1..n - k : t[j] = l[k + j] BY DEF Remains
<1>15. gone \in Seq(1..id) /\ \A v : v \in Range(gone) <=> \E j \in 1..n - k : t[j].inClient /\ t[j].id = v
  <2>1. gone \in Seq(1..id) /\ Range(gone) = {t[j].id : j \in {x \in 1..Len(t) : t[x].inClient}}
    BY Expired
  <2> QED BY <2>1, <1>13
<1>17. \A x, y \in 1..n : l[x].id = l[y].id \/ l[x].data = l[y].data => x = y BY <1>1 DEF Distinct
<1> HIDE DEF n
<1>16. \A v : v \in Range(gone) <=> \E x \in k + 1..n : l[x].inClient /\ l[x].id = v
  <2>1. ASSUME NEW v \in Range(gone) PROVE \E x \in k + 1..n : l[x].inClient /\ l[x].id = v
    <3>1. PICK j \in 1..n - k : t[j].inClient /\ t[j].id = v BY <1>15, <2>1
    <3>2. k + j \in k + 1..n /\ t[j] = l[k + j] BY <1>1, <1>13
    <3> QED BY <3>1, <3>2
  <2>2. ASSUME NEW v, NEW x \in k + 1..n, l[x].inClient, l[x].id = v PROVE v \in Range(gone)
    <3>1. x - k \in 1..n - k /\ k + (x - k) = x BY <1>1
    <3>2. t[x - k] = l[x] BY <3>1, <1>13
    <3> QED BY <3>1, <3>2, <2>2, <1>15
  <2> QED BY <2>1, <2>2
<1>18. k + 1..n \subseteq 1..n BY <1>1
<1>19. Distinct(r)
  <2> SUFFICES ASSUME NEW j \in 1..k + 1, NEW h \in 1..k + 1,
                      r[j].id = r[h].id \/ r[j].data = r[h].data
               PROVE  j = h
    BY <1>9 DEF Distinct
  <2>1. CASE j = 1 /\ h = 1 BY <2>1
  <2>2. CASE j = 1 /\ h \in 2..k + 1 BY <2>2, <1>7, <1>8, <1>11
  <2>3. CASE j \in 2..k + 1 /\ h = 1 BY <2>3, <1>7, <1>8, <1>11
  <2>4. CASE j \in 2..k + 1 /\ h \in 2..k + 1
    <3>1. r[j] = l[j - 1] /\ r[h] = l[h - 1] /\ j - 1 \in 1..n /\ h - 1 \in 1..n BY <2>4, <1>11
    <3>2. j - 1 = h - 1 BY <3>1, <1>17
    <3> QED BY <3>2, <2>4, <1>1
  <2> QED BY <2>1, <2>2, <2>3, <2>4, <1>12
<1>20. Used(r)[Len(r)] <= Capacity
  <2>1. 1..id \subseteq Nat /\ 1..id + 1 \subseteq Nat OBVIOUS
  <2>2. l \in Seq(Entries) /\ r \in Seq(Entries) BY <2>1, HeldAreEntries
  <2>3. e \in Entries BY <2>1 DEF Held, Entries
  <2>4. Used(r)[Len(r)] = Len(e.data) + Used(l)[k] BY <2>2, <2>3, UsedInFront
  <2>5. Used(l)[k] \in Nat BY <2>2, <1>1, UsedSums DEF n
  <2>6. Len(e.data) \in Nat BY CommandsAssumption DEF Held
  <2> QED BY <2>4, <2>5, <2>6
<1>21. IdsOf(r) \subseteq IdsOf(l) \cup {id + 1}
  <2>1. ASSUME NEW j \in 1..k + 1 PROVE r[j].id = id + 1 \/ \E x \in 1..n : r[j].id = l[x].id
    <3>1. CASE j = 1 BY <3>1, <1>7, <1>11
    <3>2. CASE j \in 2..k + 1 BY <3>2, <1>11
    <3> QED BY <3>1, <3>2, <1>12
  <2> QED BY <2>1, <1>1, <1>9 DEF IdsOf
<1>22. Range(gone) \subseteq IdsOf(l) \ IdsOf(r)
  <2> SUFFICES ASSUME NEW v \in Range(gone) PROVE v \in IdsOf(l) /\ v \notin IdsOf(r)
    OBVIOUS
  <2>1. PICK x \in k + 1..n : l[x].inClient /\ l[x].id = v BY <1>16
  <2>2. x \in 1..n BY <1>18
  <2>3. ASSUME NEW j \in 1..k + 1, r[j].id = v PROVE FALSE
    <3>1. CASE j = 1 BY <3>1, <2>1, <2>2, <2>3, <1>7, <1>8, <1>11
    <3>2. CASE j \in 2..k + 1
      <4>1. r[j] = l[j - 1] /\ j - 1 \in 1..k /\ j - 1 \in 1..n BY <3>2, <1>11
      <4>2. j - 1 = x BY <4>1, <2>1, <2>2, <2>3, <1>17
      <4> QED BY <4>1, <4>2, <2>1, <1>1
    <3> QED BY <3>1, <3>2, <1>12
  <2> QED BY <2>1, <2>2, <2>3, <1>1, <1>9 DEF IdsOf
<1>23. InUseOf(l) \subseteq InUseOf(r) \cup Range(gone)
  <2> SUFFICES ASSUME NEW x \in 1..n, l[x].inClient PROVE l[x].id \in InUseOf(r) \cup Range(gone)
    BY <1>1 DEF InUseOf
  <2>1. CASE x \in 1..k
    <3>1. x + 1 \in 2..k + 1 /\ x + 1 - 1 = x /\ x + 1 \in 1..k + 1 BY <2>1, <1>1
    <3>2. r[x + 1] = l[x] BY <3>1, <1>11
    <3> QED BY <3>1, <3>2, <1>9 DEF InUseOf
  <2>2. CASE x \in k + 1..n BY <2>2, <1>16
  <2> QED BY <2>1, <2>2, <1>1
<1>24. id + 1 \in InUseOf(r)
  <2>1. 1 \in 1..k + 1 BY <1>1
  <2> QED BY <2>1, <1>7, <1>9, <1>11 DEF InUseOf
<1>25. \A j \in DOMAIN r : r[j] = e \/ \E x \in DOMAIN l : r[j] = l[x]
  BY <1>1, <1>9, <1>11, <1>12
<1> QED BY <1>7, <1>15, <1>19, <1>20, <1>21, <1>22, <1>23, <1>24, <1>25 DEF Entered

LEMMA FirstOf ==
  ASSUME NEW id \in Nat, NEW l \in Seq(Held(1..id)), NEW k \in 0..Len(l)
  PROVE  /\ SubSeq(l, 1, k) \in Seq(Held(1..id + 1)) /\ Len(SubSeq(l, 1, k)) = k
         /\ \A j \in 1..k : SubSeq(l, 1, k)[j] = l[j]
<1>1. Len(l) \in Nat BY LenProperties
<1>2. \A j \in 1..k : l[j] \in Held(1..id + 1)
  <2>1. Held(1..id) \subseteq Held(1..id + 1) BY DEF Held
  <2>2. 1..k \subseteq 1..Len(l) BY <1>1
  <2> QED BY <2>1, <2>2, HeldAt
<1>3. 1 \in Int /\ k \in Int BY <1>1
<1>4. /\ SubSeq(l, 1, k) \in Seq(Held(1..id + 1))
      /\ Len(SubSeq(l, 1, k)) = IF 1 <= k THEN k - 1 + 1 ELSE 0
      /\ \A j \in 1..k - 1 + 1 : SubSeq(l, 1, k)[j] = l[1 + j - 1]
  BY <1>2, <1>3, SubSeqProperties
<1> DEFINE s == SubSeq(l, 1, k)
<1>5. s \in Seq(Held(1..id + 1)) BY <1>4
<1>6. Len(s) = IF 1 <= k THEN k - 1 + 1 ELSE 0 BY <1>4
<1>7. \A j \in 1..k - 1 + 1 : s[j] = l[1 + j - 1] BY <1>4
<1> HIDE DEF s
<1>8. Len(s) = k BY <1>1, <1>6
<1>9. \A j \in 1..k : j \in 1..k - 1 + 1 /\ 1 + j - 1 = j BY <1>1
<1>10. \A j \in 1..k : s[j] = l[j] BY <1>7, <1>9
<1> QED BY <1>5, <1>8, <1>10 DEF s

LEMMA RestOf ==
  ASSUME NEW S, NEW l \in Seq(S), NEW k \in 0..Len(l)
  PROVE  /\ SubSeq(l, k + 1, Len(l)) \in Seq(S)
         /\ Remains(SubSeq(l, k + 1, Len(l)), l, k)
<1> DEFINE n == Len(l)  s == SubSeq(l, k + 1, n)
<1>1. n \in Nat /\ k \in 0..n BY LenProperties
<1>2. \A j \in k + 1..n : l[j] \in S
  <2>1. k + 1..n \subseteq 1..n BY <1>1
  <2> QED BY <2>1, ElementOfSeq
<1>3. k + 1 \in Int /\ n \in Int BY <1>1
<1> HIDE DEF n
<1>4. /\ s \in Seq(S) /\ Len(s) = IF k + 1 <= n THEN n - (k + 1) + 1 ELSE 0
      /\ \A j \in 1..n - (k + 1) + 1 : s[j] = l[k + 1 + j - 1]
  BY <1>2, <1>3, SubSeqProperties
<1>5. s \in Seq(S) BY <1>4
<1>6. Len(s) = IF k + 1 <= n THEN n - (k + 1) + 1 ELSE 0 BY <1>4
<1>7. \A j \in 1..n - (k + 1) + 1 : s[j] = l[k + 1 + j - 1] BY <1>4
<1> HIDE DEF s
<1>8. Len(s) = n - k BY <1>1, <1>6
<1>9. \A j \in 1..n - k : j \in 1..n - (k + 1) + 1 /\ k + 1 + j - 1 = k + j BY <1>1
<1>10. \A j \in 1..n - k : s[j] = l[k + j] BY <1>7, <1>9
<1>11. Remains(s, l, k) BY <1>8, <1>10 DEF Remains, n
<1> QED BY <1>5, <1>11 DEF s, n

LEMMA RoomMade ==
  ASSUME NEW id \in Nat, NEW l \in Seq(Held(1..id)), NEW c \in Commands, Len(c) <= Capacity,
         NEW e \in Held(1..id + 1)
  PROVE  \E k \in 0..Len(l) :
           /\ Used(l)[k] + Len(c) <= Capacity
           /\ <<e>> \o Evicted(l, Len(c)) \in Seq(Held(1..id + 1))
           /\ InFront(<<e>> \o Evicted(l, Len(c)), e, l, k)
           /\ SubSeq(l, Len(Evicted(l, Len(c))) + 1, Len(l)) \in Seq(Held(1..id))
           /\ Remains(SubSeq(l, Len(Evicted(l, Len(c))) + 1, Len(l)), l, k)
<1> DEFINE kept == Evicted(l, Len(c))  r == <<e>> \o kept  t == SubSeq(l, Len(kept) + 1, Len(l))
<1>1. Len(l) \in Nat BY LenProperties
<1>2. l \in Seq(Entries) BY HeldAreEntries
<1>3. Len(c) \in Nat BY CommandsAssumption
<1>4. PICK k \in 0..Len(l) : kept = SubSeq(l, 1, k) /\ Used(l)[k] + Len(c) <= Capacity
  BY <1>2, <1>3, SomeKept
<1>5. kept \in Seq(Held(1..id + 1)) /\ Len(kept) = k /\ \A j \in 1..k : kept[j] = l[j]
  <2> HIDE DEF kept
  <2> QED BY <1>1, <1>4, FirstOf
<1> HIDE DEF kept
<1>6. r \in Seq(Held(1..id + 1)) /\ InFront(r, e, kept, k) BY <1>5, Prepended
<1>7. t \in Seq(Held(1..id)) /\ Remains(t, l, k)
  <2>1. t = SubSeq(l, k + 1, Len(l)) BY <1>5
  <2> HIDE DEF t
  <2> QED BY <2>1, RestOf
<1> HIDE DEF r, t
<1>8. InFront(r, e, l, k)
  <2>1. \A j \in 1..k + 1 : j = 1 \/ j - 1 \in 1..k BY <1>1
  <2> QED BY <2>1, <1>5, <1>6 DEF InFront
<1> QED BY <1>4, <1>6, <1>7, <1>8 DEF r, t, kept

\* Marking every entry absent leaves the rest as it was.
LEMMA EntriesMarked ==
  ASSUME NEW S, S \subseteq Nat, NEW l \in Seq(Held(S)), Distinct(l),
         NEW r, r = [i \in DOMAIN l |-> [l[i] EXCEPT !.inClient = FALSE]]
  PROVE  /\ r \in Seq(Held(S)) /\ Distinct(r) /\ Used(r)[Len(r)] = Used(l)[Len(l)]
         /\ IdsOf(r) = IdsOf(l) /\ InUseOf(r) = {}
         /\ \A e \in DOMAIN r : ~r[e].inClient
<1>1. Len(l) \in Nat /\ DOMAIN l = 1..Len(l) BY LenProperties
<1>2. \A k \in 1..Len(l) : l[k] \in Held(S) BY HeldAt
<1>3. \A k \in 1..Len(l) :
        /\ r[k] \in Held(S) /\ r[k].id = l[k].id /\ r[k].data = l[k].data /\ r[k].inClient = FALSE
  BY <1>1, <1>2 DEF Held
<1>4. r = [i \in 1..Len(l) |-> r[i]] BY <1>1
<1>5. r \in [1..Len(l) -> Held(S)] BY <1>3, <1>4
<1>6. r \in Seq(Held(S)) /\ Len(r) = Len(l) /\ DOMAIN r = 1..Len(l) BY <1>1, <1>5
<1>7. Used(r)[Len(r)] = Used(l)[Len(l)]
  <2>1. l \in Seq(Entries) /\ r \in Seq(Entries) BY <1>6, HeldAreEntries
  <2> QED BY <2>1, <1>3, <1>6, UsedMarked
<1>8. Distinct(r) BY <1>1, <1>3, <1>6 DEF Distinct
<1>9. IdsOf(r) = IdsOf(l) BY <1>1, <1>3, <1>6 DEF IdsOf
<1>10. InUseOf(r) = {} /\ \A e \in DOMAIN r : ~r[e].inClient BY <1>3, <1>6 DEF InUseOf
<1> QED BY <1>6, <1>7, <1>8, <1>9, <1>10

-----------------------------------------------------------------------------
(* What more messages leave true *)

LEMMA OneJoined ==
  ASSUME NEW q \in Seq(Message), NEW m \in Message
  PROVE  /\ <<m>> \in Seq(Message) /\ Len(<<m>>) = 1 /\ <<m>>[1] = m
         /\ Joined(Append(q, m), q, <<m>>)
<1>1. <<m>> \in Seq(Message) /\ Len(<<m>>) = 1 /\ <<m>>[1] = m OBVIOUS
<1>2. Append(q, m) = q \o <<m>> BY AppendIsConcat
<1>3. Joined(q \o <<m>>, q, <<m>>) BY <1>1, JoinedIs
<1> QED BY <1>1, <1>2, <1>3

LEMMA ExpireOnceStill ==
  ASSUME NEW q \in Seq(Message), NEW w \in Seq(Message), NEW r, Joined(r, q, w),
         NEW free, NEW more, free \subseteq more, ExpireOnce(q, free),
         \/ \A l \in 1..Len(w) : w[l].type = "DictExpire" /\ w[l].id \in more
         \/ \A l \in 1..Len(w) : /\ w[l].type # "DictExpire"
                                 /\ w[l].type = "DictDefine" => w[l].id \notin free
  PROVE  ExpireOnce(r, more)
<1> DEFINE n == Len(q)  k == Len(w)
<1>1. n \in Nat /\ k \in Nat BY LenProperties
<1>2. Len(r) = n + k /\ (\A j \in 1..n : r[j] = q[j]) /\ (\A j \in 1..k : r[n + j] = w[j])
  BY DEF Joined
<1>3. /\ \A j \in 1..n : q[j].type = "DictExpire" => q[j].id \in free
      /\ \A i, j \in 1..n :
           i < j /\ q[i].type = "DictExpire" /\ q[j].type = "DictDefine" => q[j].id # q[i].id
  BY DEF ExpireOnce
<1>4. \/ \A l \in 1..k : w[l].type = "DictExpire" /\ w[l].id \in more
      \/ \A l \in 1..k : /\ w[l].type # "DictExpire"
                         /\ w[l].type = "DictDefine" => w[l].id \notin free
  OBVIOUS
<1> HIDE DEF n, k
<1>5. \A j \in 1..Len(r) : j \in 1..n \/ (j - n \in 1..k /\ r[j] = w[j - n])
  <2> SUFFICES ASSUME NEW j \in 1..Len(r), j \notin 1..n PROVE j - n \in 1..k /\ r[j] = w[j - n]
    OBVIOUS
  <2>1. j - n \in 1..k /\ n + (j - n) = j BY <1>1, <1>2
  <2> QED BY <2>1, <1>2
<1>6. ASSUME NEW j \in 1..Len(r), r[j].type = "DictExpire" PROVE r[j].id \in more
  BY <1>2, <1>3, <1>4, <1>5, <1>6
<1>7. ASSUME NEW i \in 1..Len(r), NEW j \in 1..Len(r), i < j,
             r[i].type = "DictExpire", r[j].type = "DictDefine"
      PROVE  r[j].id # r[i].id
  <2>1. CASE j \in 1..n
    <3>1. i \in 1..n BY <2>1, <1>1, <1>2, <1>7
    <3> QED BY <2>1, <3>1, <1>2, <1>3, <1>7
  <2>2. CASE j - n \in 1..k /\ r[j] = w[j - n]
    <3>1. \A l \in 1..k : w[l].type # "DictExpire" BY <2>2, <1>4, <1>7
    <3>2. i \in 1..n /\ r[i] = q[i] BY <3>1, <1>2, <1>5, <1>7
    <3>3. q[i].id \in free BY <3>2, <1>3, <1>7
    <3>4. r[j].id \notin free BY <2>2, <3>1, <1>4, <1>7
    <3> QED BY <3>2, <3>3, <3>4
  <2> QED BY <2>1, <2>2, <1>5
<1> QED BY <1>6, <1>7 DEF ExpireOnce

LEMMA AccountedStill ==
  ASSUME NEW q \in Seq(Message), NEW w \in Seq(Message), NEW r, Joined(r, q, w),
         NEW d, NEW known, NEW then, AccountedFor(q, d, known),
         \A i \in known : i \in then \/ \E x \in 1..Len(w) : w[x] = DictExpire(i),
         \A l \in 1..Len(w) : w[l].type = "DictDefine" => w[l].id \in then
  PROVE  AccountedFor(r, d, then)
<1> DEFINE n == Len(q)  k == Len(w)
<1>1. n \in Nat /\ k \in Nat BY LenProperties
<1>2. Len(r) = n + k /\ (\A j \in 1..n : r[j] = q[j]) /\ (\A j \in 1..k : r[n + j] = w[j])
  BY DEF Joined
<1>3. /\ \A i \in DOMAIN d : i \in known \/ \E x \in 1..n : q[x] = DictExpire(i)
      /\ \A j \in 1..n : q[j].type = "DictDefine" =>
           q[j].id \in known \/ \E x \in j + 1..n : q[x] = DictExpire(q[j].id)
  BY DEF AccountedFor
<1>4. \A i \in known : i \in then \/ \E x \in 1..k : w[x] = DictExpire(i) OBVIOUS
<1>5. \A l \in 1..k : w[l].type = "DictDefine" => w[l].id \in then OBVIOUS
<1> HIDE DEF n, k
<1>6. \A i \in known : i \in then \/ \E x \in n + 1..n + k : r[x] = DictExpire(i)
  <2> SUFFICES ASSUME NEW i \in known, i \notin then
               PROVE  \E x \in n + 1..n + k : r[x] = DictExpire(i)
    OBVIOUS
  <2>1. PICK x \in 1..k : w[x] = DictExpire(i) BY <1>4
  <2>2. n + x \in n + 1..n + k /\ r[n + x] = w[x] BY <1>1, <1>2
  <2> QED BY <2>1, <2>2
<1>7. \A j \in n + 1..n + k : j - n \in 1..k /\ r[j] = w[j - n]
  <2> SUFFICES ASSUME NEW j \in n + 1..n + k PROVE j - n \in 1..k /\ r[j] = w[j - n]
    OBVIOUS
  <2>1. j - n \in 1..k /\ n + (j - n) = j BY <1>1
  <2> QED BY <2>1, <1>2
<1>8. ASSUME NEW i \in DOMAIN d PROVE i \in then \/ \E x \in 1..n + k : r[x] = DictExpire(i)
  <2>1. CASE i \in known
    <3>1. n + 1..n + k \subseteq 1..n + k BY <1>1
    <3> QED BY <2>1, <3>1, <1>6
  <2>2. CASE \E x \in 1..n : q[x] = DictExpire(i)
    <3>1. 1..n \subseteq 1..n + k BY <1>1
    <3> QED BY <2>2, <3>1, <1>2
  <2> QED BY <2>1, <2>2, <1>3
<1>9. ASSUME NEW j \in 1..n + k, r[j].type = "DictDefine"
      PROVE  r[j].id \in then \/ \E x \in j + 1..n + k : r[x] = DictExpire(r[j].id)
  <2>1. CASE j \in 1..n
    <3>1. r[j] = q[j] BY <2>1, <1>2
    <3>2. CASE q[j].id \in known
      <4>1. n + 1..n + k \subseteq j + 1..n + k BY <2>1, <1>1
      <4> QED BY <3>1, <3>2, <4>1, <1>6
    <3>3. CASE \E x \in j + 1..n : q[x] = DictExpire(q[j].id)
      <4>1. \A x \in j + 1..n : x \in j + 1..n + k /\ x \in 1..n BY <2>1, <1>1
      <4> QED BY <3>1, <3>3, <4>1, <1>2
    <3> QED BY <2>1, <3>1, <3>2, <3>3, <1>3, <1>9
  <2>2. CASE j \in n + 1..n + k BY <2>2, <1>5, <1>7, <1>9
  <2> QED BY <2>1, <2>2, <1>1
<1> QED BY <1>2, <1>8, <1>9 DEF AccountedFor

LEMMA AllStillHeld ==
  ASSUME NEW q \in Seq(Message), NEW w \in Seq(Message), NEW r, Joined(r, q, w),
         NEW d, NEW ts, NEW l, NEW all
  PROVE  /\ HeldAll(q, d, l) /\ (\A e \in DOMAIN l, x \in 1..Len(w) : ~Touches(w[x], l[e].id))
              => HeldAll(r, d, l)
         /\ HasAll(q, ts, all) /\ (\A i \in DOMAIN all, x \in 1..Len(w) : ~Defines(w[x], i))
              => HasAll(r, ts, all)
<1>1. HeldAll(q, d, l) /\ (\A e \in DOMAIN l, x \in 1..Len(w) : ~Touches(w[x], l[e].id))
        => HeldAll(r, d, l)
  BY StillHeld DEF HeldAll
<1>2. HasAll(q, ts, all) /\ (\A i \in DOMAIN all, x \in 1..Len(w) : ~Defines(w[x], i))
        => HasAll(r, ts, all)
  BY StillHeld DEF HasAll
<1> QED BY <1>1, <1>2

-----------------------------------------------------------------------------
(* Encoding a command *)

LEMMA CommandAt ==
  ASSUME NEW c \in Commands
  PROVE  c \in Seq(Nat) /\ Len(c) \in Nat /\ 2 \in 1..Len(c) /\ c[2] = Len(c) /\ DOMAIN c = 1..Len(c)
         /\ c = [i \in 1..Len(c) |-> c[i]] /\ \A i \in 1..Len(c) : c[i] \in Nat
<1>1. c \in Seq(Nat) /\ Len(c) >= 2 /\ c[2] = Len(c) BY CommandsAssumption
<1> QED BY <1>1

\* A template whose base agrees with c but for its parameters gives c back: the length
\* is a parameter of none, so the base is as long as c.
LEMMA Applied ==
  ASSUME NEW p \in Commands, NEW c \in Commands, Observable(p, c), NEW b \in Commands,
         BaseMatches(b, c, Diff(p, c))
  PROVE  /\ DOMAIN Params(c, Diff(p, c)) = Diff(p, c)
         /\ Apply(b, Params(c, Diff(p, c))) = c
         /\ Params(c, Diff(p, c)) \in AnyParams
         /\ Diff(p, c) \subseteq Nat
<1> DEFINE slots == Diff(p, c)  ps == Params(c, slots)
<1>1. Len(p) = Len(c) BY DEF Observable
<1>2. 2 \in DOMAIN p /\ p[2] = c[2] BY <1>1, CommandAt
<1>3. 2 \notin slots BY <1>2 DEF Diff
<1>4. slots \subseteq 1..Len(c) BY <1>1, CommandAt DEF Diff
<1>5. \A i \in DOMAIN b \ slots : i \in DOMAIN c /\ b[i] = c[i] BY DEF BaseMatches
<1>6. DOMAIN b = 1..Len(b) /\ 2 \in DOMAIN b /\ b[2] = Len(b) BY CommandAt
<1>7. Len(b) = Len(c) BY <1>3, <1>5, <1>6, CommandAt
<1>8. DOMAIN ps = slots /\ \A i \in slots : ps[i] = c[i] BY DEF Params
<1> HIDE DEF slots
<1>9. \A i \in DOMAIN b : (IF i \in DOMAIN ps THEN ps[i] ELSE b[i]) = c[i] BY <1>5, <1>8
<1>10. Apply(b, ps) = c
  <2>1. DOMAIN b = 1..Len(c) BY <1>6, <1>7
  <2>2. Apply(b, ps) = [i \in DOMAIN b |-> c[i]] BY <1>9 DEF Apply
  <2>3. c = [i \in 1..Len(c) |-> c[i]] BY CommandAt
  <2> HIDE DEF ps
  <2> QED BY <2>1, <2>2, <2>3
<1>11. Len(c) \in Nat /\ slots \subseteq Nat
  <2>1. Len(c) \in Nat BY CommandAt
  <2>2. 1..Len(c) \subseteq Nat BY <2>1
  <2> QED BY <1>4, <2>1, <2>2
<1>12. ps \in AnyParams
  <2>1. \A i \in slots : c[i] \in Nat BY <1>4, CommandAt
  <2>2. ps \in [slots -> Nat] BY <2>1 DEF Params
  <2> HIDE DEF ps
  <2> QED BY <2>2, <1>11 DEF AnyParams
<1> QED BY <1>8, <1>10, <1>11, <1>12 DEF slots

\* A command encoded in one message.
OneMessage(c) ==
  \E m \in Message :
    /\ chan' = Append(chan, m)
    /\ Content(m) /\ Decodes(chan', cdict, ctemplates, Len(chan) + 1, c)
    /\ m.type = "DictDefine" => m.id \notin Free /\ m.id \in Known'
    /\ Tables' /\ Free \subseteq Free' /\ Known \subseteq Known'
    /\ HeldAll(chan', cdict, lru')
    /\ templates' = templates

\* What the rest of Encode does.
Encoding(c) ==
  /\ Ready
  /\ prev' = [prev EXCEPT ![c[1]] = c]
  /\ sent' = Append(sent, c)
  /\ UNCHANGED <<decoder, link>>

LEMMA ReadyAgrees ==
  IInv /\ Ready => HeldAll(chan, cdict, lru) /\ HasAll(chan, ctemplates, templates) /\ up
BY DEF IInv, Ready, DictAgrees, TemplatesAgree

LEMMA EncodedTyped ==
  ASSUME IInv, NEW c \in Commands, Encoding(c), chan' \in Seq(Message), templates' \in Seq(Template)
  PROVE  Typed' /\ NobodyThere' /\ DOMAIN cdict' = DOMAIN cdict
<1>1. Typed /\ up BY DEF IInv, Encoding, Ready
<1>2. prev' \in [Opcodes -> Commands \cup {NoCommand}] BY <1>1 DEF Typed, Encoding
<1>3. sent' \in Seq(Commands) BY <1>1 DEF Typed, Encoding
<1>4. UNCHANGED <<cdict, ctemplates, got, failed, up, clients, owed, halfway, stale>>
  BY DEF Encoding, decoder, link
<1>5. Typed' BY <1>1, <1>2, <1>3, <1>4 DEF Typed
<1> QED BY <1>1, <1>4, <1>5 DEF NobodyThere

LEMMA OneMessageKeeps ==
  ASSUME IInv, NEW c \in Commands, Encoding(c), OneMessage(c)
  PROVE  IInv'
<1>1. PICK m \in Message :
        /\ chan' = Append(chan, m)
        /\ Content(m) /\ Decodes(chan', cdict, ctemplates, Len(chan) + 1, c)
        /\ m.type = "DictDefine" => m.id \notin Free /\ m.id \in Known'
        /\ Tables' /\ Free \subseteq Free' /\ Known \subseteq Known'
        /\ HeldAll(chan', cdict, lru')
        /\ templates' = templates
  BY DEF OneMessage
<1>2. Tables /\ Typed /\ Gone /\ HoldsNoMore /\ LinkOK /\ chan \in Seq(Message) /\ sent \in Seq(Commands)
  BY DEF IInv, Typed
<1>3. UNCHANGED <<cdict, ctemplates, got, failed, up, clients, owed, halfway, stale>> /\ sent' = Append(sent, c)
  BY DEF Encoding, decoder, link
<1> DEFINE w == <<m>>  r == Append(chan, m)
<1>4. w \in Seq(Message) /\ Len(w) = 1 /\ w[1] = m /\ Joined(r, chan, w) BY <1>2, OneJoined
<1>5. r = chan' BY <1>1
<1> HIDE DEF w, r
<1>6. \A l \in 1..Len(w) : w[l] = m BY <1>4
<1>7. r \in Seq(Message) /\ Len(r) = Len(chan) + 1 /\ (\A j \in 1..Len(chan) : r[j] = chan[j])
      /\ r[Len(r)] = m
  <2>1. Len(chan) \in Nat BY <1>2, LenProperties
  <2> QED BY <2>1, <1>4 DEF Joined
<1>8. m.type \notin {"DictExpire", "TemplateDefine"} BY <1>1 DEF Content
<1>9. ExpireOnce(r, Free') BY <1>1, <1>2, <1>4, <1>6, <1>8, ExpireOnceStill DEF Gone
<1>10. AccountedFor(r, cdict, Known')
  <2>1. \A i \in Known : i \in Known' BY <1>1
  <2>2. \A l \in 1..Len(w) : w[l].type = "DictDefine" => w[l].id \in Known' BY <1>1, <1>6
  <2> HIDE DEF Known
  <2> QED BY <2>1, <2>2, <1>2, <1>4, AccountedStill DEF HoldsNoMore
<1>11. HasAll(r, ctemplates, templates)
  <2>1. \A i \in DOMAIN templates, x \in 1..Len(w) : ~Defines(w[x], i) BY <1>6, <1>8 DEF Defines
  <2>2. HasAll(chan, ctemplates, templates) BY ReadyAgrees DEF Encoding
  <2> QED BY <2>1, <2>2, <1>2, <1>4, AllStillHeld
<1>12. Run(r, cdict, ctemplates, sent', Len(got))
  <2>1. Run(chan, cdict, ctemplates, sent, Len(got)) BY <1>2 DEF LinkOK
  <2>2. Content(r[Len(r)]) BY <1>1, <1>7
  <2>3. Decodes(r, cdict, ctemplates, Len(r), c) BY <1>1, <1>5, <1>7
  <2>4. Run(r, cdict, ctemplates, Append(sent, c), Len(got)) BY <2>1, <2>2, <2>3, <1>2, <1>7, RunWithContent
  <2> QED BY <2>4, <1>3
<1>13. Typed' /\ NobodyThere'
  <2>1. chan' \in Seq(Message) BY <1>5, <1>7
  <2>2. templates' \in Seq(Template) BY <1>1, <1>2 DEF Typed
  <2> QED BY <2>1, <2>2, EncodedTyped
<1>14. Gone' BY <1>5, <1>9 DEF Gone
<1>15. HoldsNoMore' BY <1>3, <1>5, <1>10 DEF HoldsNoMore
<1>16. DictAgrees' BY <1>1, <1>3 DEF DictAgrees
<1>17. TemplatesAgree' BY <1>1, <1>3, <1>5, <1>11 DEF TemplatesAgree
<1>18. LinkOK' BY <1>2, <1>3, <1>5, <1>12 DEF LinkOK
<1> QED BY <1>1, <1>13, <1>14, <1>15, <1>16, <1>17, <1>18 DEF IInv

-----------------------------------------------------------------------------
(* Encode *)

LEMMA ByTemplate ==
  ASSUME NEW p \in Commands, NEW c \in Commands, Observable(p, c),
         NEW t \in Template, t.slots = Diff(p, c), BaseMatches(t.base, c, Diff(p, c)),
         NEW i \in Nat, NEW r, NEW k \in Nat, NEW ts, HasTemplate(r, ts, k, i, t),
         r[k + 1] = TemplateApply(i, Params(c, Diff(p, c))), NEW d
  PROVE  /\ r[k + 1] \in Message /\ Content(r[k + 1]) /\ r[k + 1].type = "TemplateApply"
         /\ Decodes(r, d, ts, k + 1, c)
<1> DEFINE slots == Diff(p, c)  ps == Params(c, slots)  m == TemplateApply(i, ps)
<1>1. t.base \in Commands BY DEF Template
<1>2. DOMAIN ps = slots /\ Apply(t.base, ps) = c /\ ps \in AnyParams BY <1>1, Applied
<1>3. r[k + 1] = m /\ t.slots = slots OBVIOUS
<1> HIDE DEF slots, ps
<1>4. m.type = "TemplateApply" /\ m.id = i /\ m.params = ps BY DEF TemplateApply
<1>5. m \in [type : {"TemplateApply"}, id : Nat, params : AnyParams] BY <1>2 DEF TemplateApply
<1>6. m \in Message BY <1>5 DEF Message
<1>7. Content(m) BY <1>4 DEF Content
<1>8. k + 1 - 1 = k OBVIOUS
<1> HIDE DEF m
<1>9. Decodes(r, d, ts, k + 1, c) BY <1>2, <1>3, <1>4, <1>8 DEF Decodes
<1> QED BY <1>3, <1>4, <1>6, <1>7, <1>9

\* Of the templates that match there is a first.
LEMMA FirstMatch ==
  ASSUME NEW M, M \subseteq Nat, M # {}
  PROVE  (CHOOSE i \in M : \A j \in M : i <= j) \in M
<1>1. PICK i \in M : \A j \in M : ~(<<j, i>> \in OpToRel(<, Nat))
  BY WFMin, NatLessThanWellFounded
<1>2. \A j \in M : ~(j < i) BY <1>1 DEF OpToRel
<1>3. \A j \in M : i \in Nat /\ j \in Nat OBVIOUS
<1>4. \A j \in M : i <= j BY <1>2, <1>3
<1> QED BY <1>4

LEMMA HitIsOne ==
  ASSUME IInv, NEW c \in Commands, Encoding(c), NEW p \in Commands, Observable(p, c),
         TemplateHit(p, c), UNCHANGED <<lru, nextID, expired, forgotten>>
  PROVE  OneMessage(c)
<1> DEFINE M == Matching(p, c)
           first == CHOOSE i \in M : \A j \in M : i <= j
           m == TemplateApply(first, Params(c, Diff(p, c)))
           k == Len(chan)
<1>1. Tables /\ Typed /\ chan \in Seq(Message) /\ templates \in Seq(Template) BY DEF IInv, Typed
<1>2. HeldAll(chan, cdict, lru) /\ HasAll(chan, ctemplates, templates) BY ReadyAgrees DEF Encoding
<1>3. M # {} /\ chan' = Append(chan, m) /\ templates' = templates BY DEF TemplateHit
<1>4. k \in Nat /\ Len(templates) \in Nat /\ DOMAIN templates = 1..Len(templates)
  BY <1>1, LenProperties
<1>5. M \subseteq 1..Len(templates) BY <1>4 DEF Matching
<1>6. first \in M
  <2>1. M \subseteq Nat BY <1>4, <1>5
  <2> HIDE DEF M
  <2> QED BY <2>1, <1>3, FirstMatch
<1> DEFINE t == templates[first]
<1>7. first \in DOMAIN templates /\ t.slots = Diff(p, c) /\ BaseMatches(t.base, c, Diff(p, c))
  <2> HIDE DEF first
  <2> QED BY <1>6 DEF Matching
<1> HIDE DEF M, first
<1>8. t \in Template /\ first \in Nat BY <1>1, <1>4, <1>7, ElementOfSeq
<1>9. HasTemplate(chan, ctemplates, k, first, t) BY <1>2, <1>7 DEF HasAll
<1> DEFINE r == Append(chan, m)
<1>10. r = chan' BY <1>3
<1>11. Len(r) = k + 1 /\ (\A j \in 1..k : r[j] = chan[j]) /\ r[k + 1] = m
  BY <1>1, AppendProperties
<1> HIDE DEF r, t
<1>12. HasTemplate(r, ctemplates, k, first, t) BY <1>4, <1>9, <1>11, SamePrefix
<1>13. m \in Message /\ Content(m) /\ m.type = "TemplateApply" /\ Decodes(r, cdict, ctemplates, k + 1, c)
  <2>1. r[k + 1] = TemplateApply(first, Params(c, Diff(p, c))) BY <1>11
  <2> HIDE DEF m, k
  <2>2. /\ r[k + 1] \in Message /\ Content(r[k + 1]) /\ r[k + 1].type = "TemplateApply"
        /\ Decodes(r, cdict, ctemplates, k + 1, c)
    BY <2>1, <1>4, <1>7, <1>8, <1>12, ByTemplate
  <2> QED BY <2>2, <1>11
<1> HIDE DEF m
<1>14. HeldAll(r, cdict, lru)
  <2>1. <<m>> \in Seq(Message) /\ Len(<<m>>) = 1 /\ <<m>>[1] = m /\ Joined(r, chan, <<m>>)
    BY <1>1, <1>13, OneJoined DEF r
  <2>2. \A e \in DOMAIN lru, x \in 1..Len(<<m>>) : ~Touches(<<m>>[x], lru[e].id)
    BY <2>1, <1>13 DEF Touches
  <2> QED BY <2>1, <2>2, <1>1, <1>2, AllStillHeld
<1>15. Tables' /\ Free' = Free /\ Known' = Known BY <1>1 DEF Tables, Free, Known
<1> QED BY <1>3, <1>10, <1>13, <1>14, <1>15 DEF OneMessage

\* What a command is defined by.
LEMMA DefineIs ==
  ASSUME NEW i \in Nat, NEW c \in Commands
  PROVE  /\ DictDefine(i, c) \in Message /\ Content(DictDefine(i, c))
         /\ DictDefine(i, c).type = "DictDefine"
         /\ DictDefine(i, c).id = i /\ DictDefine(i, c).data = c
<1>1. DictDefine(i, c) \in [type : {"DictDefine"}, id : Nat, data : Commands] BY DEF DictDefine
<1>2. DictDefine(i, c) \in Message BY <1>1 DEF Message
<1> QED BY <1>2 DEF DictDefine, Content

\* Defined last, an entry is held, and so is any other that was.
LEMMA DefinedHeld ==
  ASSUME NEW q \in Seq(Message), NEW i \in Nat, NEW c \in Commands, NEW d, NEW l, HeldAll(q, d, l),
         NEW e, e.id = i, e.data = c, \A x \in DOMAIN l : l[x].inClient => l[x].id # i,
         NEW r, \A j \in DOMAIN r : r[j] = e \/ \E x \in DOMAIN l : r[j] = l[x]
  PROVE  HeldAll(Append(q, DictDefine(i, c)), d, r)
<1> DEFINE m == DictDefine(i, c)  p == Append(q, m)
<1>1. m \in Message /\ m.type = "DictDefine" /\ m.id = i BY DefineIs
<1>2. Len(q) \in Nat BY LenProperties
<1>3. p \in Seq(Message) /\ Len(p) = Len(q) + 1 /\ p[Len(q) + 1] = m BY <1>1, AppendProperties
<1>4. <<m>> \in Seq(Message) /\ Len(<<m>>) = 1 /\ <<m>>[1] = m /\ Joined(p, q, <<m>>)
  BY <1>1, OneJoined
<1>5. p[Len(p)] = DictDefine(i, c) BY <1>3
<1> HIDE DEF m, p
<1>6. Holds(p, d, Len(p), i, c)
  <2>1. Len(p) \in 1..Len(p) BY <1>2, <1>3
  <2> QED BY <2>1, <1>3, <1>5, NowHeld
<1>7. ASSUME NEW x \in DOMAIN l, l[x].inClient PROVE Holds(p, d, Len(p), l[x].id, l[x].data)
  <2>1. Holds(q, d, Len(q), l[x].id, l[x].data) BY <1>7 DEF HeldAll
  <2>2. l[x].id # i BY <1>7
  <2>3. \A y \in 1..Len(<<m>>) : ~Touches(<<m>>[y], l[x].id) BY <2>2, <1>1, <1>4 DEF Touches
  <2> QED BY <2>1, <2>3, <1>4, StillHeld
<1>8. ASSUME NEW j \in DOMAIN r, r[j].inClient PROVE Holds(p, d, Len(p), r[j].id, r[j].data)
  <2>1. CASE r[j] = e BY <2>1, <1>6
  <2>2. CASE \E x \in DOMAIN l : r[j] = l[x] BY <2>2, <1>7, <1>8
  <2> QED BY <2>1, <2>2
<1> QED BY <1>8 DEF HeldAll, p, m

LEMMA KnownIsOne ==
  ASSUME IInv, NEW c \in Commands, Encoding(c), ClassifyKnown(c), UNCHANGED templates
  PROVE  OneMessage(c)
<1>1. PICK i \in Found(c) :
        /\ lru' = <<[lru[i] EXCEPT !.inClient = TRUE]>> \o RemoveAt(lru, i)
        /\ chan' = Append(chan, IF lru[i].inClient THEN DictRef(lru[i].id)
                                                   ELSE DictDefine(lru[i].id, c))
        /\ forgotten' = forgotten \ {lru[i].id}
        /\ UNCHANGED <<nextID, expired>>
  BY DEF ClassifyKnown
<1>2. Tables /\ chan \in Seq(Message) /\ templates' = templates BY DEF IInv, Typed
<1>3. HeldAll(chan, cdict, lru) BY ReadyAgrees DEF Encoding
<1> DEFINE S == 1..nextID  k == Len(chan)  id == lru[i].id
           e == [lru[i] EXCEPT !.inClient = TRUE]  r == <<e>> \o RemoveAt(lru, i)
<1>4. S \subseteq Nat /\ lru \in Seq(Held(S)) /\ Distinct(lru) /\ k \in Nat BY <1>2, LenProperties DEF Tables
<1>5. i \in 1..Len(lru) /\ i \in DOMAIN lru /\ lru[i].data = c BY <1>4, LenProperties DEF Found
<1>6. lru[i] \in Held(S) /\ id \in S /\ lru[i].inClient \in BOOLEAN BY <1>4, <1>5, HeldAt
<1>7. e \in Held(S) /\ e.id = id /\ e.data = lru[i].data /\ e.inClient BY <1>6 DEF Held
<1>8. lru' = r BY <1>1
<1> HIDE DEF e
<1>9. r \in Seq(Held(S)) /\ Moved(r, e, lru, i) BY <1>4, <1>5, <1>7, MovedToFront
<1> HIDE DEF S, r
<1>10. /\ Distinct(r) /\ Used(r)[Len(r)] = Used(lru)[Len(lru)]
       /\ IdsOf(r) = IdsOf(lru) /\ InUseOf(r) = InUseOf(lru) \cup {id}
       /\ \A j \in DOMAIN r : r[j] = e \/ \E x \in DOMAIN lru : r[j] = lru[x]
  <2>1. e.id = lru[i].id BY <1>7
  <2> HIDE DEF id
  <2>2. Reused(r, e, lru, i) BY <2>1, <1>4, <1>5, <1>7, <1>9, EntryUsed
  <2> QED BY <2>2 DEF Reused, id
<1>11. nextID' = nextID /\ expired' = expired /\ forgotten' = forgotten \ {id} BY <1>1
<1>12. Tables'
  <2>1. lru' \in Seq(Held(1..nextID)) /\ Distinct(lru') /\ Used(lru')[Len(lru')] <= Capacity
        /\ IdsOf(lru') = IdsOf(lru)
    BY <1>2, <1>8, <1>9, <1>10 DEF Tables, S
  <2> QED BY <2>1, <1>2, <1>11 DEF Tables
<1>13. Free' = Free BY <1>8, <1>10, <1>11 DEF Free
<1>14. Known \subseteq Known' /\ id \in Known' BY <1>8, <1>10, <1>11 DEF Known
<1>15. id \notin Free BY <1>5 DEF Free, IdsOf
<1>16. id \in Nat BY <1>4, <1>6
<1>17. CASE lru[i].inClient
  <2> DEFINE m == DictRef(id)  q == Append(chan, m)
  <2>1. q = chan' BY <1>1, <1>17
  <2>2. m \in Message
    <3>1. m \in [type : {"DictRef", "DictExpire"}, id : Nat] BY <1>16 DEF DictRef
    <3> QED BY <3>1 DEF Message
  <2>3. m.type = "DictRef" /\ m.id = id BY DEF DictRef
  <2>4. Len(q) = k + 1 /\ (\A j \in 1..k : q[j] = chan[j]) /\ q[k + 1] = m
    BY <1>2, <2>2, AppendProperties
  <2>5. <<m>> \in Seq(Message) /\ Len(<<m>>) = 1 /\ <<m>>[1] = m /\ Joined(q, chan, <<m>>)
    BY <1>2, <2>2, OneJoined
  <2> HIDE DEF q, m
  <2>6. Holds(chan, cdict, k, id, c) BY <1>3, <1>5, <1>17 DEF HeldAll
  <2>7. Holds(q, cdict, k, id, c) BY <2>4, <2>6, <1>4, SamePrefix
  <2>8. Decodes(q, cdict, ctemplates, k + 1, c)
    <3>1. k + 1 - 1 = k BY <1>4
    <3> QED BY <2>3, <2>4, <2>7, <3>1 DEF Decodes
  <2>9. HeldAll(q, cdict, lru)
    <3>1. \A x \in DOMAIN lru, y \in 1..Len(<<m>>) : ~Touches(<<m>>[y], lru[x].id)
      BY <2>3, <2>5 DEF Touches
    <3> QED BY <3>1, <2>5, <1>2, <1>3, AllStillHeld
  <2>10. HeldAll(q, cdict, r)
    <3>1. ASSUME NEW j \in DOMAIN r, r[j].inClient PROVE Holds(q, cdict, Len(q), r[j].id, r[j].data)
      <4>1. CASE r[j] = e BY <4>1, <2>9, <1>5, <1>7, <1>17 DEF HeldAll
      <4>2. CASE \E x \in DOMAIN lru : r[j] = lru[x] BY <4>2, <3>1, <2>9 DEF HeldAll
      <4> QED BY <4>1, <4>2, <1>10
    <3> QED BY <3>1 DEF HeldAll
  <2>11. Content(m) BY <2>3 DEF Content
  <2> QED BY <2>1, <2>2, <2>3, <2>8, <2>10, <2>11, <1>2, <1>8, <1>12, <1>13, <1>14 DEF OneMessage, q
<1>18. CASE ~lru[i].inClient
  <2> DEFINE m == DictDefine(id, c)  q == Append(chan, m)
  <2>1. q = chan' BY <1>1, <1>18
  <2>2. m \in Message /\ Content(m) /\ m.type = "DictDefine" /\ m.id = id /\ m.data = c
    BY <1>16, DefineIs
  <2>3. q[k + 1] = m BY <1>2, <2>2, AppendProperties
  <2>4. \A x \in DOMAIN lru : lru[x].inClient => lru[x].id # id
    BY <1>4, <1>5, <1>18 DEF Distinct
  <2>5. HeldAll(q, cdict, r)
    <3>1. e.id = id /\ e.data = c BY <1>5, <1>7
    <3> HIDE DEF id
    <3> QED BY <3>1, <2>4, <1>2, <1>3, <1>10, <1>16, DefinedHeld
  <2> HIDE DEF q, m
  <2>6. Decodes(q, cdict, ctemplates, k + 1, c) BY <2>2, <2>3 DEF Decodes
  <2> QED BY <2>1, <2>2, <2>5, <2>6, <1>2, <1>8, <1>12, <1>13, <1>14, <1>15 DEF OneMessage, q
<1> QED BY <1>17, <1>18

LEMMA NewIsOne ==
  ASSUME IInv, NEW c \in Commands, Encoding(c), ClassifyNew(c), UNCHANGED templates
  PROVE  OneMessage(c)
<1> DEFINE id == nextID  kept == Evicted(lru, Len(c))
           e == [id |-> id + 1, data |-> c, inClient |-> TRUE]
           r == <<e>> \o kept  t == SubSeq(lru, Len(kept) + 1, Len(lru))  gone == ToExpire(t)
           m == DictDefine(id + 1, c)  q == Append(chan, m)  k == Len(chan)
<1>1. /\ Found(c) = {} /\ Len(c) <= Capacity
      /\ lru' = r /\ expired' = expired \o gone /\ chan' = q
      /\ nextID' = id + 1 /\ forgotten' = forgotten /\ templates' = templates
  BY DEF ClassifyNew
<1>2. Tables /\ chan \in Seq(Message) BY DEF IInv, Typed
<1>3. HeldAll(chan, cdict, lru) BY ReadyAgrees DEF Encoding
<1>4. id \in Nat /\ lru \in Seq(Held(1..id)) /\ Distinct(lru) /\ k \in Nat
  BY <1>2, LenProperties DEF Tables
<1>5. \A x \in DOMAIN lru : lru[x].data # c BY <1>1 DEF Found
<1>6. e \in Held(1..id + 1) /\ e.id = id + 1 /\ e.data = c /\ e.inClient
  <2>1. id + 1 \in 1..id + 1 BY <1>4
  <2> QED BY <2>1 DEF Held
<1> HIDE DEF e
<1>7. PICK n \in 0..Len(lru) :
        /\ Used(lru)[n] + Len(c) <= Capacity
        /\ r \in Seq(Held(1..id + 1)) /\ InFront(r, e, lru, n)
        /\ t \in Seq(Held(1..id)) /\ Remains(t, lru, n)
  <2> HIDE DEF id
  <2> QED BY <1>1, <1>4, <1>6, RoomMade
<1> HIDE DEF r, t
<1>8. gone \in Seq(1..id) /\ Entered(r, e, lru, gone)
  <2>1. \A x \in DOMAIN lru : lru[x].data # e.data BY <1>5, <1>6
  <2>2. Used(lru)[n] + Len(e.data) <= Capacity BY <1>6, <1>7
  <2> HIDE DEF gone, id
  <2>3. gone = ToExpire(t) BY DEF gone
  <2> QED BY <2>1, <2>2, <2>3, <1>4, <1>6, <1>7, EntryAdded
<1> HIDE DEF gone
<1>9. /\ Distinct(r) /\ Used(r)[Len(r)] <= Capacity
      /\ IdsOf(r) \subseteq IdsOf(lru) \cup {id + 1}
      /\ Range(gone) \subseteq IdsOf(lru) \ IdsOf(r)
      /\ InUseOf(lru) \subseteq InUseOf(r) \cup Range(gone)
      /\ id + 1 \in InUseOf(r)
      /\ \A j \in DOMAIN r : r[j] = e \/ \E x \in DOMAIN lru : r[j] = lru[x]
  BY <1>6, <1>8 DEF Entered
<1>10. expired \in Seq(1..id) /\ Range(expired) \cap IdsOf(lru) = {} BY <1>2 DEF Tables
<1>11. Range(expired') = Range(expired) \cup Range(gone)
  BY <1>1, <1>8, <1>10, RangeConcatenation
<1>12. Range(expired) \subseteq 1..id
  BY <1>10, RangeOfSeq
<1>13. IdsOf(lru) \subseteq 1..id
  <2>1. DOMAIN lru = 1..Len(lru) BY <1>4, LenProperties
  <2> QED BY <2>1, <1>4, HeldAt DEF IdsOf
<1>14. id + 1 \notin 1..id /\ 1..id \subseteq 1..id + 1 BY <1>4
<1>15. Tables'
  <2>1. expired' \in Seq(1..id + 1)
    <3>1. expired \o gone \in Seq(1..id) BY <1>8, <1>10, ConcatProperties
    <3> QED BY <3>1, <1>1, <1>14, SeqMonotonic
  <2>2. Range(expired') \cap IdsOf(r) = {} BY <1>9, <1>10, <1>11, <1>12, <1>14
  <2>3. lru' \in Seq(Held(1..nextID')) /\ Distinct(lru') /\ Used(lru')[Len(lru')] <= Capacity
        /\ expired' \in Seq(1..nextID') /\ Range(expired') \cap IdsOf(lru') = {} /\ nextID' \in Nat
    BY <2>1, <2>2, <1>1, <1>4, <1>7, <1>9
  <2> QED BY <2>3 DEF Tables
<1>16. Free \subseteq Free'
  <2>1. (1..id) \ IdsOf(lru) \subseteq (1..id + 1) \ IdsOf(r) BY <1>9, <1>14
  <2> QED BY <2>1, <1>1 DEF Free
<1>17. Known \subseteq Known' /\ id + 1 \in Known'
  <2>1. Known' = InUseOf(r) \cup (Range(expired) \cup Range(gone)) \cup forgotten
    BY <1>1, <1>11 DEF Known
  <2> QED BY <2>1, <1>9 DEF Known
<1>18. id + 1 \notin Free BY <1>14 DEF Free
<1>19. id + 1 \in Nat BY <1>4
<1>20. m \in Message /\ Content(m) /\ m.type = "DictDefine" /\ m.id = id + 1 /\ m.data = c
  BY <1>19, DefineIs
<1>21. q[k + 1] = m BY <1>2, <1>20, AppendProperties
<1>22. HeldAll(q, cdict, r)
  <2>1. \A x \in DOMAIN lru : lru[x].id # id + 1 BY <1>13, <1>14 DEF IdsOf
  <2> QED BY <2>1, <1>2, <1>3, <1>6, <1>9, <1>19, DefinedHeld
<1> HIDE DEF q, m
<1>23. Decodes(q, cdict, ctemplates, k + 1, c) BY <1>20, <1>21 DEF Decodes
<1> QED BY <1>1, <1>15, <1>16, <1>17, <1>18, <1>20, <1>22, <1>23 DEF OneMessage, q

\* What does not fit is sent as it is.
LEMMA PassedIsOne ==
  ASSUME IInv, NEW c \in Commands, Encoding(c), Passthrough(c), UNCHANGED templates
  PROVE  OneMessage(c)
<1> DEFINE m == X11Data(c)  q == Append(chan, m)  k == Len(chan)
<1>1. Tables /\ chan \in Seq(Message) BY DEF IInv, Typed
<1>2. HeldAll(chan, cdict, lru) BY ReadyAgrees DEF Encoding
<1>3. chan' = q /\ UNCHANGED <<lru, nextID, expired, forgotten>> /\ templates' = templates
  BY DEF Passthrough
<1>4. m \in Message
  <2>1. m \in [type : {"X11Data"}, data : Commands] BY DEF X11Data
  <2> QED BY <2>1 DEF Message
<1>5. m.type = "X11Data" /\ m.data = c /\ Content(m) BY DEF X11Data, Content
<1>6. q[k + 1] = m BY <1>1, <1>4, AppendProperties
<1>7. <<m>> \in Seq(Message) /\ Len(<<m>>) = 1 /\ <<m>>[1] = m /\ Joined(q, chan, <<m>>)
  BY <1>1, <1>4, OneJoined
<1> HIDE DEF m, q
<1>8. HeldAll(q, cdict, lru)
  <2>1. \A x \in DOMAIN lru, y \in 1..Len(<<m>>) : ~Touches(<<m>>[y], lru[x].id)
    BY <1>5, <1>7 DEF Touches
  <2> QED BY <2>1, <1>1, <1>2, <1>7, AllStillHeld
<1>9. Decodes(q, cdict, ctemplates, k + 1, c) BY <1>5, <1>6 DEF Decodes
<1>10. Tables' /\ Free' = Free /\ Known' = Known BY <1>1, <1>3 DEF Tables, Free, Known
<1> QED BY <1>3, <1>4, <1>5, <1>8, <1>9, <1>10 DEF OneMessage, q

\* A new template is defined and then applied.
LEMMA NewTemplateKeeps ==
  ASSUME IInv, NEW c \in Commands, Encoding(c), NEW p \in Commands, Observable(p, c),
         NewTemplate(p, c), UNCHANGED <<lru, nextID, expired, forgotten>>
  PROVE  IInv'
<1> DEFINE t == [base |-> p, slots |-> Diff(p, c)]
           i == Len(templates) + 1
           m1 == TemplateDefine(i, t)
           m2 == TemplateApply(i, Params(c, Diff(p, c)))
           w1 == <<m1>>
           w == <<m1, m2>>  q == Append(chan, m1)  r == chan \o w  k == Len(chan)
<1>1. Tables /\ Typed /\ Gone /\ HoldsNoMore /\ LinkOK /\ chan \in Seq(Message) /\ sent \in Seq(Commands)
      /\ templates \in Seq(Template)
  BY DEF IInv, Typed
<1>2. UNCHANGED <<cdict, ctemplates, got, failed, up, clients, owed, halfway, stale>> /\ sent' = Append(sent, c)
  BY DEF Encoding, decoder, link
<1>3. HeldAll(chan, cdict, lru) /\ HasAll(chan, ctemplates, templates) BY ReadyAgrees DEF Encoding
<1>4. templates' = Append(templates, t) /\ chan' = r BY DEF NewTemplate
<1>5. k \in Nat /\ i \in Nat /\ Len(templates) \in Nat /\ DOMAIN templates = 1..Len(templates)
  BY <1>1, LenProperties
<1>6. BaseMatches(p, c, Diff(p, c))
  <2>1. DOMAIN p = DOMAIN c BY CommandAt DEF Observable
  <2> QED BY <2>1 DEF BaseMatches, Diff
<1>7. t \in Template /\ t.base = p /\ t.slots = Diff(p, c)
  <2>1. Diff(p, c) \subseteq Nat BY <1>6, Applied
  <2> QED BY <2>1 DEF Template
<1> HIDE DEF t
<1>8. m1 \in Message /\ m1.type = "TemplateDefine" /\ m1.id = i /\ ~Content(m1)
  <2>1. m1 \in [type : {"TemplateDefine"}, id : Nat, template : Template] /\ m1.type = "TemplateDefine"
        /\ m1.id = i
    BY <1>5, <1>7 DEF TemplateDefine
  <2> HIDE DEF m1
  <2> QED BY <2>1 DEF Message, Content
<1>9. m2 \in Message /\ m2.type = "TemplateApply" /\ Content(m2)
  <2>1. Params(c, Diff(p, c)) \in AnyParams BY <1>6, Applied
  <2>2. m2 \in [type : {"TemplateApply"}, id : Nat, params : AnyParams] /\ m2.type = "TemplateApply"
    BY <2>1, <1>5 DEF TemplateApply
  <2> HIDE DEF m2
  <2> QED BY <2>2 DEF Message, Content
<1>10. q[k + 1] = TemplateDefine(i, t) BY <1>1, <1>8, AppendProperties
<1>11. m2 = TemplateApply(i, Params(c, Diff(p, c))) OBVIOUS
<1> HIDE DEF m1, m2, i
<1>12. w \in Seq(Message) /\ Len(w) = 2 /\ w[1] = m1 /\ w[2] = m2 BY <1>8, <1>9
<1>13. Joined(r, chan, w) BY <1>1, <1>12, JoinedIs
<1>14. w1 \in Seq(Message) /\ Len(w1) = 1 /\ w1[1] = m1 /\ Joined(q, chan, w1) BY <1>1, <1>8, OneJoined
<1> HIDE DEF w, w1, q, r
<1>15. r \in Seq(Message) /\ Len(r) = k + 2 /\ (\A j \in 1..k : r[j] = chan[j])
       /\ r[k + 1] = m1 /\ r[k + 2] = m2
  <2>1. 1 \in 1..2 /\ 2 \in 1..2 OBVIOUS
  <2> QED BY <2>1, <1>12, <1>13 DEF Joined
<1>16. q \in Seq(Message) /\ Len(q) = k + 1 /\ (\A j \in 1..k : q[j] = chan[j]) /\ q[k + 1] = m1
  <2>1. 1 \in 1..1 OBVIOUS
  <2> QED BY <2>1, <1>14 DEF Joined
<1>17. \A j \in 1..k + 1 : r[j] = q[j]
  <2>1. \A j \in 1..k + 1 : j \in 1..k \/ j = k + 1 BY <1>5
  <2> QED BY <2>1, <1>15, <1>16
<1>18. \A l \in 1..Len(w) : w[l] = m1 \/ w[l] = m2
  <2>1. \A l \in 1..2 : l = 1 \/ l = 2 OBVIOUS
  <2> QED BY <2>1, <1>12
<1>19. ExpireOnce(r, Free)
  <2>1. \A l \in 1..Len(w) : w[l].type # "DictExpire" /\ w[l].type # "DictDefine" BY <1>8, <1>9, <1>18
  <2> HIDE DEF Free
  <2> QED BY <2>1, <1>1, <1>12, <1>13, ExpireOnceStill DEF Gone
<1>20. AccountedFor(r, cdict, Known)
  <2>1. \A l \in 1..Len(w) : w[l].type # "DictDefine" BY <1>8, <1>9, <1>18
  <2> HIDE DEF Known
  <2> QED BY <2>1, <1>1, <1>12, <1>13, AccountedStill DEF HoldsNoMore
<1>21. HeldAll(r, cdict, lru)
  <2>1. \A e \in DOMAIN lru, x \in 1..Len(w) : ~Touches(w[x], lru[e].id)
    BY <1>8, <1>9, <1>18 DEF Touches
  <2> QED BY <2>1, <1>1, <1>3, <1>12, <1>13, AllStillHeld
<1>22. HasTemplate(q, ctemplates, k + 1, i, t)
  <2>1. k + 1 \in 1..Len(q) BY <1>5, <1>16
  <2> QED BY <2>1, <1>10, <1>16, NowHeld
<1>23. HasAll(q, ctemplates, templates)
  <2>1. i \notin DOMAIN templates BY <1>5 DEF i
  <2>2. \A x \in 1..Len(w1) : w1[x] = m1
    <3>1. \A l \in 1..1 : l = 1 OBVIOUS
    <3> QED BY <3>1, <1>14
  <2>3. \A j \in DOMAIN templates, x \in 1..Len(w1) : ~Defines(w1[x], j) BY <2>1, <2>2, <1>8 DEF Defines
  <2> QED BY <2>3, <1>1, <1>3, <1>14, AllStillHeld
<1>24. HasAll(q, ctemplates, templates')
  <2>1. DOMAIN templates' = DOMAIN templates \cup {i} BY <1>1, <1>4, <1>5, <1>7, AppendProperties DEF i
  <2>2. templates'[i] = t BY <1>1, <1>4, <1>7, AppendProperties DEF i
  <2>3. \A j \in DOMAIN templates : templates'[j] = templates[j] BY <1>1, <1>4, <1>5, <1>7, AppendProperties
  <2> QED BY <2>1, <2>2, <2>3, <1>16, <1>22, <1>23 DEF HasAll
<1>25. Joined(r, q, <<m2>>)
  <2>1. Len(<<m2>>) = 1 /\ <<m2>>[1] = m2 OBVIOUS
  <2>2. \A j \in 1..1 : j = 1 OBVIOUS
  <2>3. k + 1 + 1 = k + 2 BY <1>5
  <2> QED BY <2>1, <2>2, <2>3, <1>15, <1>16, <1>17 DEF Joined
<1>26. HasAll(r, ctemplates, templates')
  <2>1. <<m2>> \in Seq(Message) /\ Len(<<m2>>) = 1 /\ <<m2>>[1] = m2 BY <1>9
  <2>2. \A j \in DOMAIN templates', x \in 1..Len(<<m2>>) : ~Defines(<<m2>>[x], j)
    BY <2>1, <1>9 DEF Defines
  <2> DEFINE all == templates'
  <2>3. HasAll(q, ctemplates, all) BY <1>24
  <2>4. \A j \in DOMAIN all, x \in 1..Len(<<m2>>) : ~Defines(<<m2>>[x], j) BY <2>2
  <2> HIDE DEF all
  <2>5. HasAll(r, ctemplates, all) BY <2>1, <2>3, <2>4, <1>16, <1>25, AllStillHeld
  <2> QED BY <2>5 DEF all
<1>27. Run(q, cdict, ctemplates, sent, Len(got))
  <2>1. \A j \in 1..Len(w1) : ~Content(w1[j])
    <3>1. \A l \in 1..1 : l = 1 OBVIOUS
    <3> QED BY <3>1, <1>8, <1>14
  <2>2. Run(chan, cdict, ctemplates, sent, Len(got)) BY <1>1 DEF LinkOK
  <2> QED BY <2>1, <2>2, <1>1, <1>14, RunGoesOn
<1>28. Run(r, cdict, ctemplates, Append(sent, c), Len(got))
  <2>1. Len(r) = Len(q) + 1 /\ Len(r) = k + 1 + 1 /\ Len(q) = k + 1 /\ k + 1 \in Nat BY <1>5, <1>15, <1>16
  <2>2. r[k + 1 + 1] = m2 BY <1>5, <1>15
  <2>3. HasTemplate(r, ctemplates, k + 1, i, t) BY <2>1, <1>17, <1>22, SamePrefix
  <2>4. Decodes(r, cdict, ctemplates, k + 1 + 1, c)
    <3> DEFINE h == k + 1
    <3>1. h \in Nat /\ r[h + 1] = TemplateApply(i, Params(c, Diff(p, c)))
          /\ HasTemplate(r, ctemplates, h, i, t)
      BY <2>1, <2>2, <2>3, <1>11
    <3>2. i \in Nat BY <1>5
    <3> HIDE DEF h
    <3>3. Decodes(r, cdict, ctemplates, h + 1, c) BY <3>1, <3>2, <1>6, <1>7, ByTemplate
    <3> QED BY <3>3 DEF h
  <2>5. Content(r[Len(r)]) /\ Decodes(r, cdict, ctemplates, Len(r), c) BY <2>1, <2>2, <2>4, <1>9
  <2> QED BY <2>1, <2>5, <1>1, <1>15, <1>16, <1>17, <1>27, RunWithContent
<1>29. Typed' /\ NobodyThere'
  <2>1. chan' \in Seq(Message) BY <1>4, <1>15
  <2>2. templates' \in Seq(Template) BY <1>1, <1>4, <1>7, AppendProperties
  <2> QED BY <2>1, <2>2, EncodedTyped
<1>30. Tables' /\ Free' = Free /\ Known' = Known BY <1>1 DEF Tables, Free, Known
<1>31. Gone' BY <1>4, <1>19, <1>30 DEF Gone
<1>32. HoldsNoMore' BY <1>2, <1>4, <1>20, <1>30 DEF HoldsNoMore
<1>33. DictAgrees' BY <1>2, <1>4, <1>21 DEF DictAgrees
<1>34. TemplatesAgree' BY <1>2, <1>4, <1>26 DEF TemplatesAgree
<1>35. LinkOK' BY <1>1, <1>2, <1>4, <1>28 DEF LinkOK
<1> QED BY <1>29, <1>30, <1>31, <1>32, <1>33, <1>34, <1>35 DEF IInv

LEMMA EncodeKeeps ==
  ASSUME IInv, NEW c \in Commands, Encode(c)
  PROVE  IInv'
<1> DEFINE p == prev[c[1]]
<1>1. /\ Encoding(c)
      /\ \/ /\ Observable(p, c)
            /\ TemplateHit(p, c) \/ NewTemplate(p, c)
            /\ UNCHANGED <<lru, nextID, expired, forgotten>>
         \/ /\ ~Observable(p, c)
            /\ Classify(c)
            /\ UNCHANGED templates
  BY DEF Encode, Encoding
<1>2. p \in Commands \cup {NoCommand} BY DEF IInv, Typed, Opcodes
<1> HIDE DEF p
<1>3. CASE /\ Observable(p, c) /\ TemplateHit(p, c)
           /\ UNCHANGED <<lru, nextID, expired, forgotten>>
  <2>1. p \in Commands BY <1>2, <1>3 DEF Observable
  <2> QED BY <2>1, <1>1, <1>3, HitIsOne, OneMessageKeeps
<1>4. CASE /\ Observable(p, c) /\ NewTemplate(p, c)
           /\ UNCHANGED <<lru, nextID, expired, forgotten>>
  <2>1. p \in Commands BY <1>2, <1>4 DEF Observable
  <2> QED BY <2>1, <1>1, <1>4, NewTemplateKeeps
<1>5. CASE Classify(c) /\ UNCHANGED templates
  BY <1>1, <1>5, KnownIsOne, NewIsOne, PassedIsOne, OneMessageKeeps DEF Classify
<1> QED BY <1>1, <1>3, <1>4, <1>5
-----------------------------------------------------------------------------
(* The other actions *)

\* A link without messages is in order when nothing has been encoded for it either.
LEMMA NothingUnderWay ==
  ASSUME NEW d, NEW known, NEW free
  PROVE  /\ ExpireOnce(<<>>, free)
         /\ DOMAIN d = {} => AccountedFor(<<>>, d, known)
         /\ \A ts : Run(<<>>, d, ts, <<>>, 0)
<1>1. Len(<<>>) = 0 /\ 1..0 = {} OBVIOUS
<1>2. ExpireOnce(<<>>, free) BY <1>1 DEF ExpireOnce
<1>3. DOMAIN d = {} => AccountedFor(<<>>, d, known) BY <1>1 DEF AccountedFor
<1>4. ASSUME NEW ts PROVE Run(<<>>, d, ts, <<>>, 0)
  <2> DEFINE G == [j \in 0..0 |-> 0]
  <2>1. G \in [0..0 -> 0..0] /\ G[0] = 0 OBVIOUS
  <2> HIDE DEF G
  <2>2. Counts(<<>>, d, ts, <<>>, G) BY <1>1 DEF Counts
  <2> QED BY <2>1, <2>2, <1>1 DEF Run
<1> QED BY <1>2, <1>3, <1>4

\* A decoder that holds nothing agrees with an encoder that is ready for it: one that
\* has not been used since it was made ready.
LEMMA NobodyHeld ==
  ASSUME IInv, ~up
  PROVE  /\ "dict" \notin stale => HeldAll(<<>>, <<>>, lru)
         /\ "templates" \notin stale => HasAll(<<>>, <<>>, templates)
BY DEF IInv, NobodyThere, DictAgrees, TemplatesAgree

LEMMA LinkRenewed ==
  ASSUME IInv, UNCHANGED encoder,
         chan' = <<>>, cdict' = <<>>, ctemplates' = <<>>, sent' = <<>>, got' = <<>>,
         failed' = FALSE, up' \in BOOLEAN, owed' \in Nat, halfway' \in Nat,
         stale' = {"dict", "templates"} \/ (~up /\ stale' = stale)
  PROVE  IInv'
<1>1. Tables' /\ Free' = Free BY DEF IInv, Tables, encoder, Free
<1>2. Typed /\ UNCHANGED <<prev, templates, lru, nextID, expired>> BY DEF IInv, encoder
<1>3. <<>> \in Seq(Message) /\ <<>> \in Seq(Commands) /\ Len(<<>>) = 0 /\ DOMAIN <<>> = {} OBVIOUS
<1>4. Typed' BY <1>2, <1>3 DEF Typed
<1>5. NobodyThere' BY DEF NobodyThere
<1>6. Gone' BY NothingUnderWay DEF Gone
<1>7. HoldsNoMore' BY <1>3, NothingUnderWay DEF HoldsNoMore
<1>8. LinkOK' BY <1>3, NothingUnderWay DEF LinkOK
<1>9. DictAgrees' /\ TemplatesAgree'
  <2>1. CASE stale' = {"dict", "templates"} BY <2>1 DEF DictAgrees, TemplatesAgree
  <2>2. CASE ~up /\ stale' = stale BY <2>2, <1>2, NobodyHeld DEF DictAgrees, TemplatesAgree
  <2> QED BY <2>1, <2>2
<1> QED BY <1>1, <1>4, <1>5, <1>6, <1>7, <1>8, <1>9 DEF IInv

LEMMA ConnectKeeps == IInv /\ Connect => IInv'
<1> SUFFICES ASSUME IInv, Connect PROVE IInv' OBVIOUS
<1>1. Typed BY DEF IInv
<1>2. /\ UNCHANGED encoder /\ halfway' = halfway
      /\ chan' = <<>> /\ cdict' = <<>> /\ ctemplates' = <<>> /\ sent' = <<>> /\ got' = <<>>
      /\ failed' = FALSE /\ up' = TRUE
      /\ owed' = (IF up THEN owed + 1 ELSE owed)
      /\ stale' = (IF up THEN {"dict", "templates"} ELSE stale)
  BY DEF Connect
<1>3. owed' \in Nat /\ halfway' \in Nat BY <1>1, <1>2 DEF Typed
<1>4. stale' = {"dict", "templates"} \/ (~up /\ stale' = stale) BY <1>2
<1> QED BY <1>2, <1>3, <1>4, LinkRenewed

LEMMA DisconnectKeeps == IInv /\ Disconnect => IInv'
<1> SUFFICES ASSUME IInv, Disconnect PROVE IInv' OBVIOUS
<1>1. Typed BY DEF IInv
<1>2. /\ UNCHANGED encoder /\ halfway' = halfway
      /\ chan' = <<>> /\ cdict' = <<>> /\ ctemplates' = <<>> /\ sent' = <<>> /\ got' = <<>>
      /\ failed' = FALSE /\ up' = FALSE /\ owed' = owed + 1 /\ stale' = {"dict", "templates"}
  BY DEF Disconnect
<1>3. owed' \in Nat /\ halfway' \in Nat BY <1>1, <1>2 DEF Typed
<1> QED BY <1>2, <1>3, LinkRenewed

LEMMA ForgetTemplatesKeeps == IInv /\ ForgetTemplates => IInv'
<1> SUFFICES ASSUME IInv, ForgetTemplates PROVE IInv' OBVIOUS
<1>1. /\ templates' = <<>> /\ halfway > 0 /\ halfway' = halfway - 1
      /\ prev' = [op \in Opcodes |-> NoCommand] /\ stale' = stale \ {"templates"}
      /\ UNCHANGED <<lru, nextID, expired, up, clients, owed, chan, sent, forgotten>>
      /\ UNCHANGED <<cdict, ctemplates, got, failed>>
  BY DEF ForgetTemplates, decoder
<1>2. Tables' /\ Free' = Free /\ Known' = Known BY <1>1 DEF IInv, Tables, Free, Known
<1>3. Typed'
  <2>1. <<>> \in Seq(Template) OBVIOUS
  <2> QED BY <2>1, <1>1 DEF IInv, Typed
<1>4. Gone' /\ NobodyThere' /\ HoldsNoMore' /\ LinkOK'
  BY <1>1, <1>2 DEF IInv, Gone, NobodyThere, HoldsNoMore, LinkOK
<1>5. DictAgrees' BY <1>1 DEF IInv, DictAgrees
<1>6. TemplatesAgree'
  <2>1. DOMAIN <<>> = {} OBVIOUS
  <2> QED BY <2>1, <1>1 DEF TemplatesAgree, HasAll
<1> QED BY <1>2, <1>3, <1>4, <1>5, <1>6 DEF IInv

LEMMA ForgetDictKeeps == IInv /\ ForgetDict => IInv'
<1> SUFFICES ASSUME IInv, ForgetDict PROVE IInv' OBVIOUS
<1> DEFINE r == [i \in DOMAIN lru |-> [lru[i] EXCEPT !.inClient = FALSE]]
           S == 1..nextID
<1>1. /\ lru' = r /\ owed > 0 /\ owed' = owed - 1 /\ halfway' = halfway + 1
      /\ forgotten' = forgotten \cup InUseOf(lru)
      /\ stale' = stale \ {"dict"}
      /\ UNCHANGED <<prev, templates, nextID, expired, up, clients, chan, sent>>
      /\ UNCHANGED <<cdict, ctemplates, got, failed>>
  BY DEF ForgetDict, decoder, InUseOf
<1>2. Tables /\ S \subseteq Nat /\ lru \in Seq(Held(S)) /\ Distinct(lru) BY DEF IInv, Tables
<1>3. /\ r \in Seq(Held(S)) /\ Distinct(r) /\ Used(r)[Len(r)] = Used(lru)[Len(lru)]
      /\ IdsOf(r) = IdsOf(lru) /\ InUseOf(r) = {}
      /\ \A e \in DOMAIN r : ~r[e].inClient
  <2> HIDE DEF S
  <2> QED BY <1>2, EntriesMarked
<1> HIDE DEF r
<1>4. Tables'
  <2>1. lru' \in Seq(Held(1..nextID')) /\ Distinct(lru') /\ Used(lru')[Len(lru')] <= Capacity
        /\ IdsOf(lru') = IdsOf(lru)
    BY <1>1, <1>2, <1>3 DEF Tables
  <2> QED BY <2>1, <1>1, <1>2 DEF Tables
<1>5. Free' = Free BY <1>1, <1>3 DEF Free
<1>6. Known' = Known BY <1>1, <1>3 DEF Known
<1>7. Typed' BY <1>1 DEF IInv, Typed
<1>8. Gone' /\ NobodyThere' /\ HoldsNoMore' /\ LinkOK' /\ TemplatesAgree'
  BY <1>1, <1>5, <1>6 DEF IInv, Gone, NobodyThere, HoldsNoMore, LinkOK, TemplatesAgree
<1>9. DictAgrees' BY <1>1, <1>3 DEF DictAgrees, HeldAll
<1> QED BY <1>4, <1>7, <1>8, <1>9 DEF IInv

LEMMA DrainKeeps == IInv /\ DrainExpiredDicts => IInv'
<1> SUFFICES ASSUME IInv, DrainExpiredDicts PROVE IInv' OBVIOUS
<1> DEFINE w == [i \in DOMAIN expired |-> DictExpire(expired[i])]  r == chan \o w
<1>1. /\ chan' = (IF up THEN r ELSE chan) /\ expired' = <<>>
      /\ UNCHANGED <<prev, templates, lru, nextID, sent, forgotten>>
      /\ UNCHANGED <<cdict, ctemplates, got, failed, up, clients, owed, halfway, stale>>
  BY DEF DrainExpiredDicts, decoder, link
<1>2. Tables /\ Typed /\ Gone /\ HoldsNoMore /\ LinkOK /\ chan \in Seq(Message) BY DEF IInv, Typed
<1>3. nextID \in Nat /\ expired \in Seq(1..nextID) /\ Range(expired) \cap IdsOf(lru) = {}
  BY <1>2 DEF Tables
<1>4. Range(<<>>) = {} BY DEF Range
<1>5. Tables' /\ Free' = Free
  <2>1. <<>> \in Seq(1..nextID) OBVIOUS
  <2> QED BY <2>1, <1>1, <1>2, <1>4 DEF Tables, Free
<1>6. CASE ~up
  <2>1. chan' = chan BY <1>1, <1>6
  <2>2. chan = <<>> /\ cdict = <<>> BY <1>6 DEF IInv, NobodyThere
  <2>3. HoldsNoMore'
    <3>1. DOMAIN <<>> = {} OBVIOUS
    <3> QED BY <3>1, <2>1, <2>2, <1>1, NothingUnderWay DEF HoldsNoMore
  <2>4. Typed' /\ Gone' /\ NobodyThere' /\ LinkOK' /\ DictAgrees' /\ TemplatesAgree'
    BY <2>1, <1>1, <1>5 DEF IInv, Typed, Gone, NobodyThere, LinkOK, DictAgrees, TemplatesAgree
  <2> QED BY <2>3, <2>4, <1>5 DEF IInv
<1>7. CASE up
  <2>1. chan' = r BY <1>1, <1>7
  <2>2. Len(expired) \in Nat /\ DOMAIN expired = 1..Len(expired) BY <1>3, LenProperties
  <2>3. \A l \in 1..Len(expired) : expired[l] \in 1..nextID /\ expired[l] \in Range(expired)
    BY <2>2, <1>3, ElementOfSeq DEF Range
  <2>4. \A l \in 1..Len(expired) :
          /\ w[l] = DictExpire(expired[l]) /\ w[l].type = "DictExpire" /\ w[l].id = expired[l]
          /\ w[l] \in Message
    <3> SUFFICES ASSUME NEW l \in 1..Len(expired)
                 PROVE  /\ w[l] = DictExpire(expired[l]) /\ w[l].type = "DictExpire"
                        /\ w[l].id = expired[l] /\ w[l] \in Message
      OBVIOUS
    <3>1. w[l] = DictExpire(expired[l]) BY <2>2
    <3>2. expired[l] \in Nat BY <2>3, <1>3
    <3> HIDE DEF w
    <3>3. w[l] \in [type : {"DictRef", "DictExpire"}, id : Nat] BY <3>1, <3>2 DEF DictExpire
    <3>4. w[l] \in Message BY <3>3 DEF Message
    <3> QED BY <3>1, <3>4 DEF DictExpire
  <2>5. w \in Seq(Message) /\ Len(w) = Len(expired)
    <3>1. w = [i \in 1..Len(expired) |-> w[i]] BY <2>2
    <3> HIDE DEF w
    <3>2. w \in [1..Len(expired) -> Message] BY <3>1, <2>4
    <3> QED BY <3>2, <2>2
  <2> HIDE DEF w
  <2>6. Joined(r, chan, w) BY <2>5, <1>2, JoinedIs
  <2> HIDE DEF r
  <2>7. \A v \in Range(expired) : \E l \in 1..Len(w) : w[l] = DictExpire(v)
    BY <2>2, <2>4, <2>5 DEF Range
  <2>8. ExpireOnce(r, Free)
    <3>1. \A l \in 1..Len(w) : w[l].type = "DictExpire" /\ w[l].id \in Free
      BY <2>3, <2>4, <2>5, <1>3 DEF Free
    <3> HIDE DEF Free
    <3> QED BY <3>1, <2>5, <2>6, <1>2, ExpireOnceStill DEF Gone
  <2>9. AccountedFor(r, cdict, Known')
    <3> DEFINE then == Known'
    <3>1. \A i \in Known : i \in then \/ \E x \in 1..Len(w) : w[x] = DictExpire(i)
      BY <2>7, <1>1 DEF Known
    <3>2. \A l \in 1..Len(w) : w[l].type = "DictDefine" => w[l].id \in then BY <2>4, <2>5
    <3> HIDE DEF then, Known
    <3>3. AccountedFor(r, cdict, then) BY <3>1, <3>2, <2>5, <2>6, <1>2, AccountedStill DEF HoldsNoMore
    <3> QED BY <3>3 DEF then
  <2>10. "dict" \notin stale => HeldAll(r, cdict, lru)
    <3>1. \A e \in DOMAIN lru, x \in 1..Len(w) : ~Touches(w[x], lru[e].id)
      BY <2>3, <2>4, <2>5, <1>3 DEF Touches, IdsOf
    <3> QED BY <3>1, <2>5, <2>6, <1>2, AllStillHeld DEF IInv, DictAgrees
  <2>11. "templates" \notin stale => HasAll(r, ctemplates, templates)
    <3>1. \A i \in DOMAIN templates, x \in 1..Len(w) : ~Defines(w[x], i) BY <2>4, <2>5 DEF Defines
    <3> QED BY <3>1, <2>5, <2>6, <1>2, AllStillHeld DEF IInv, TemplatesAgree
  <2>12. Run(r, cdict, ctemplates, sent, Len(got))
    <3>1. \A j \in 1..Len(w) : ~Content(w[j]) BY <2>4, <2>5 DEF Content
    <3>2. sent \in Seq(Commands) /\ Run(chan, cdict, ctemplates, sent, Len(got))
      BY <1>2 DEF Typed, LinkOK
    <3> QED BY <3>1, <3>2, <2>5, <2>6, <1>2, RunGoesOn
  <2>13. Typed'
    <3>1. r \in Seq(Message) BY <2>6 DEF Joined
    <3> QED BY <3>1, <2>1, <1>1, <1>2 DEF Typed
  <2>14. NobodyThere' BY <1>1, <1>7 DEF NobodyThere
  <2>15. Gone' BY <2>1, <2>8, <1>5 DEF Gone
  <2>16. HoldsNoMore' BY <2>1, <2>9, <1>1 DEF HoldsNoMore
  <2>17. DictAgrees' /\ TemplatesAgree' BY <2>1, <2>10, <2>11, <1>1 DEF DictAgrees, TemplatesAgree
  <2>18. LinkOK' BY <2>1, <2>12, <1>1, <1>2 DEF LinkOK
  <2> QED BY <2>13, <2>14, <2>15, <2>16, <2>17, <2>18, <1>5 DEF IInv
<1> QED BY <1>6, <1>7 DEF IInv, Typed
-----------------------------------------------------------------------------
(* Decode *)

LEMMA ExpireOnceNext ==
  ASSUME NEW q \in Seq(Message), q # <<>>, NEW free, ExpireOnce(q, free)
  PROVE  ExpireOnce(Tail(q), free)
<1> DEFINE n == Len(q)  r == Tail(q)
<1>1. n \in Nat \ {0} BY LenProperties, EmptySeq
<1>2. Len(r) = n - 1 /\ \A j \in 1..n - 1 : r[j] = q[j + 1] BY HeadTailProperties
<1>3. /\ \A k \in 1..n : q[k].type = "DictExpire" => q[k].id \in free
      /\ \A j, k \in 1..n :
           j < k /\ q[j].type = "DictExpire" /\ q[k].type = "DictDefine" => q[k].id # q[j].id
  BY DEF ExpireOnce
<1> HIDE DEF n, r
<1>4. \A j \in 1..n - 1 : j + 1 \in 1..n BY <1>1
<1>5. \A j, k \in 1..n - 1 : j < k => j + 1 < k + 1 BY <1>1
<1>6. ExpireOnce(r, free)
  <2>1. \A k \in 1..n - 1 : r[k].type = "DictExpire" => r[k].id \in free BY <1>2, <1>3, <1>4
  <2>2. ASSUME NEW j \in 1..n - 1, NEW k \in 1..n - 1, j < k,
               r[j].type = "DictExpire", r[k].type = "DictDefine"
        PROVE  r[k].id # r[j].id
    <3>1. j + 1 \in 1..n /\ k + 1 \in 1..n /\ j + 1 < k + 1 BY <2>2, <1>4, <1>5
    <3>2. r[j] = q[j + 1] /\ r[k] = q[k + 1] BY <1>2
    <3> QED BY <3>1, <3>2, <2>2, <1>3
  <2> QED BY <2>1, <2>2, <1>2 DEF ExpireOnce
<1> QED BY <1>6 DEF r

\* A decoder that expires an id is told to once, and defines it never again.
LEMMA AccountedNext ==
  ASSUME NEW q \in Seq(Message), q # <<>>, NEW free, ExpireOnce(q, free),
         NEW d, NEW known, AccountedFor(q, d, known), NEW then,
         \A i \in known : i \in then \/ (Head(q).type = "DictExpire" /\ Head(q).id = i)
  PROVE  AccountedFor(Tail(q), DictAfter(d, Head(q)), then)
<1> DEFINE n == Len(q)  r == Tail(q)  m == Head(q)  d2 == DictAfter(d, m)
<1>1. n \in Nat \ {0} BY LenProperties, EmptySeq
<1>2. m = q[1] OBVIOUS
<1>3. Len(r) = n - 1 /\ \A j \in 1..n - 1 : r[j] = q[j + 1] BY HeadTailProperties
<1>4. /\ \A i \in DOMAIN d : i \in known \/ \E x \in 1..n : q[x] = DictExpire(i)
      /\ \A k \in 1..n : q[k].type = "DictDefine" =>
           q[k].id \in known \/ \E x \in k + 1..n : q[x] = DictExpire(q[k].id)
  BY DEF AccountedFor
<1>5. \A j, k \in 1..n :
        j < k /\ q[j].type = "DictExpire" /\ q[k].type = "DictDefine" => q[k].id # q[j].id
  BY DEF ExpireOnce
<1>6. \A i \in known : i \in then \/ (m.type = "DictExpire" /\ m.id = i) OBVIOUS
<1>7. \A i : DictExpire(i).type = "DictExpire" /\ DictExpire(i).id = i BY DEF DictExpire
<1> HIDE DEF n, r, m, d2
<1>8. ASSUME NEW i, NEW k \in 1..n, NEW x \in k + 1..n, q[x] = DictExpire(i)
      PROVE  \E y \in k..n - 1 : r[y] = DictExpire(i)
  <2>1. x - 1 \in k..n - 1 /\ x - 1 \in 1..n - 1 /\ x - 1 + 1 = x BY <1>1
  <2>2. r[x - 1] = q[x] BY <2>1, <1>3
  <2> QED BY <2>1, <2>2, <1>8
<1>9. 1 \in 1..n /\ \A x \in 1..n : x = 1 \/ x \in 1 + 1..n BY <1>1
<1>10. ASSUME NEW i \in DOMAIN d, ~(m.type = "DictExpire" /\ m.id = i)
       PROVE  i \in then \/ \E y \in 1..n - 1 : r[y] = DictExpire(i)
  <2>1. CASE i \in known BY <2>1, <1>6, <1>10
  <2>2. CASE \E x \in 1..n : q[x] = DictExpire(i)
    <3>1. PICK x \in 1..n : q[x] = DictExpire(i) BY <2>2
    <3>2. x # 1 BY <3>1, <1>2, <1>7, <1>10
    <3> QED BY <3>1, <3>2, <1>8, <1>9
  <2> QED BY <2>1, <2>2, <1>4
<1>11. ASSUME NEW k \in 1..n, q[k].type = "DictDefine"
       PROVE  q[k].id \in then \/ \E y \in k..n - 1 : r[y] = DictExpire(q[k].id)
  <2>1. CASE q[k].id \in known
    <3>1. ASSUME m.type = "DictExpire", m.id = q[k].id PROVE FALSE
      <4>1. k # 1 BY <3>1, <1>2, <1>11
      <4>2. 1 < k BY <4>1, <1>1
      <4> QED BY <4>2, <3>1, <1>2, <1>5, <1>9, <1>11
    <3> QED BY <2>1, <3>1, <1>6
  <2>2. CASE \E x \in k + 1..n : q[x] = DictExpire(q[k].id) BY <2>2, <1>8
  <2> QED BY <2>1, <2>2, <1>4, <1>11
<1>12. ASSUME NEW i \in DOMAIN d2 PROVE i \in then \/ \E y \in 1..n - 1 : r[y] = DictExpire(i)
  <2>1. CASE m.type = "DictDefine"
    <3>1. DOMAIN d2 = DOMAIN d \cup {m.id} BY <2>1 DEF d2, DictAfter, With
    <3>2. m.type # "DictExpire" BY <2>1
    <3>3. CASE i \in DOMAIN d BY <3>2, <3>3, <1>10
    <3>4. CASE i = m.id BY <2>1, <3>4, <1>2, <1>9, <1>11
    <3> QED BY <3>1, <3>3, <3>4, <1>12
  <2>2. CASE m.type = "DictExpire"
    <3>1. DOMAIN d2 = DOMAIN d \ {m.id} BY <2>2 DEF d2, DictAfter, Without
    <3> QED BY <3>1, <1>10, <1>12
  <2>3. CASE m.type \notin {"DictDefine", "DictExpire"}
    <3>1. d2 = d BY <2>3 DEF d2, DictAfter
    <3> QED BY <3>1, <2>3, <1>10, <1>12
  <2> QED BY <2>1, <2>2, <2>3
<1>13. ASSUME NEW k \in 1..n - 1, r[k].type = "DictDefine"
       PROVE  r[k].id \in then \/ \E x \in k + 1..n - 1 : r[x] = DictExpire(r[k].id)
  <2>1. k + 1 \in 1..n BY <1>1
  <2>2. r[k] = q[k + 1] BY <1>3
  <2> QED BY <2>1, <2>2, <1>11, <1>13
<1>14. AccountedFor(r, d2, then) BY <1>3, <1>12, <1>13 DEF AccountedFor
<1> QED BY <1>14 DEF r, d2, m

\* What is decoded is what was encoded next, and nothing is unknown.
LEMMA Delivered ==
  ASSUME IInv, Decode
  PROVE  /\ ~failed'
         /\ Content(Head(chan)) => /\ Len(got) + 1 \in 1..Len(sent)
                                   /\ got' = Append(got, sent[Len(got) + 1])
         /\ ~Content(Head(chan)) => got' = got
<1> DEFINE m == Head(chan)  g == Len(got)  c == sent[g + 1]
<1>1. chan # <<>> /\ Forward(m) BY DEF Decode
<1>2. Typed /\ chan \in Seq(Message) /\ sent \in Seq(Commands) /\ ~failed /\ got \in Seq(Commands)
      /\ Run(chan, cdict, ctemplates, sent, g)
  BY DEF IInv, Typed, LinkOK
<1>3. g \in Nat BY <1>2, LenProperties
<1>4. m = chan[1] BY <1>1, <1>2
<1>5. Content(m) => g + 1 \in 1..Len(sent) /\ Decodes(chan, cdict, ctemplates, 1, c)
  BY <1>1, <1>2, <1>3, RunOfNext
<1> HIDE DEF m, g, c
<1>6. \A i, x : Holds(chan, cdict, 0, i, x) => i \in DOMAIN cdict /\ cdict[i] = x
  BY DEF Holds
<1>7. \A i, x : HasTemplate(chan, ctemplates, 0, i, x) => i \in DOMAIN ctemplates /\ ctemplates[i] = x
  BY DEF HasTemplate
<1>8. CASE ~Content(m)
  <2>1. m.type \in {"TemplateDefine", "DictExpire"} BY <1>8 DEF Content
  <2>2. UNCHANGED <<got, failed>> BY <2>1, <1>1 DEF Forward
  <2> QED BY <2>2, <1>2, <1>8 DEF m
<1>9. CASE Content(m)
  <2>1. Decodes(chan, cdict, ctemplates, 1, c) BY <1>5, <1>9
  <2>2. m.type \in {"X11Data", "DictDefine", "DictRef", "TemplateApply"}
    <3>1. m \in Message
      <4>1. Len(chan) \in Nat /\ Len(chan) # 0 BY <1>1, <1>2, LenProperties, EmptySeq
      <4>2. 1 \in 1..Len(chan) BY <4>1
      <4> QED BY <4>2, <1>2, <1>4, ElementOfSeq
    <3> QED BY <3>1, <1>9 DEF Message, Content
  <2>3. 1 - 1 = 0 OBVIOUS
  <2>4. CASE m.type \in {"X11Data", "DictDefine"}
    <3>1. m.data = c BY <2>1, <2>4, <1>4 DEF Decodes
    <3>2. Deliver(m.data) BY <2>4, <1>1 DEF Forward
    <3> QED BY <3>1, <3>2, <1>2, <1>5, <1>9 DEF Deliver, m, g, c
  <2>5. CASE m.type = "DictRef"
    <3>1. Holds(chan, cdict, 0, m.id, c) BY <2>1, <2>3, <2>5, <1>4 DEF Decodes
    <3>2. m.id \in DOMAIN cdict /\ cdict[m.id] = c BY <3>1, <1>6
    <3>3. Deliver(c) BY <2>5, <3>2, <1>1 DEF Forward
    <3> QED BY <3>3, <1>2, <1>5, <1>9 DEF Deliver, m, g, c
  <2>6. CASE m.type = "TemplateApply"
    <3>1. PICK t \in Template : /\ HasTemplate(chan, ctemplates, 0, m.id, t)
                                /\ DOMAIN m.params = t.slots
                                /\ Apply(t.base, m.params) = c
      BY <2>1, <2>3, <2>6, <1>4 DEF Decodes
    <3>2. m.id \in DOMAIN ctemplates /\ ctemplates[m.id] = t BY <3>1, <1>7
    <3>3. Deliver(c) BY <2>6, <3>1, <3>2, <1>1 DEF Forward
    <3> QED BY <3>3, <1>2, <1>5, <1>9 DEF Deliver, m, g, c
  <2> QED BY <2>2, <2>4, <2>5, <2>6
<1> QED BY <1>8, <1>9

LEMMA DecodeKeeps == IInv /\ Decode => IInv'
<1> SUFFICES ASSUME IInv, Decode PROVE IInv' OBVIOUS
<1> DEFINE m == Head(chan)  r == Tail(chan)  n == Len(chan)
           d2 == DictAfter(cdict, m)  t2 == TemplatesAfter(ctemplates, m)
<1>1. /\ chan # <<>> /\ chan' = r /\ cdict' = d2 /\ ctemplates' = t2
      /\ forgotten' = (IF m.type = "DictExpire" THEN forgotten \ {m.id} ELSE forgotten)
      /\ UNCHANGED <<prev, templates, lru, nextID, expired>>
      /\ UNCHANGED <<up, clients, owed, halfway, stale, sent>>
  BY DEF Decode, encoder, link, DictAfter, TemplatesAfter
<1>2. Tables /\ Typed /\ Gone /\ HoldsNoMore /\ LinkOK /\ NobodyThere /\ DictAgrees /\ TemplatesAgree
      /\ chan \in Seq(Message) /\ sent \in Seq(Commands) /\ got \in Seq(Commands)
  BY DEF IInv, Typed
<1>3. n \in Nat \ {0} /\ n \in 1..n BY <1>1, <1>2, LenProperties, EmptySeq
<1>4. r \in Seq(Message) /\ Len(r) = n - 1 BY <1>1, <1>2, HeadTailProperties
<1>5. Tables' /\ Free' = Free BY <1>1, <1>2 DEF Tables, Free
<1>6. /\ ~failed'
      /\ Content(m) => Len(got) + 1 \in 1..Len(sent) /\ got' = Append(got, sent[Len(got) + 1])
      /\ ~Content(m) => got' = got
  BY Delivered
<1>7. \A i, c : /\ Holds(chan, cdict, n, i, c) => Holds(r, d2, n - 1, i, c)
                /\ HasTemplate(chan, ctemplates, n, i, c) => HasTemplate(r, t2, n - 1, i, c)
  BY <1>1, <1>2, <1>3, HeldByNext
<1>8. Run(r, d2, t2, sent, IF Content(m) THEN Len(got) + 1 ELSE Len(got))
  <2>1. Len(got) \in Nat BY <1>2, LenProperties
  <2>2. Run(chan, cdict, ctemplates, sent, Len(got)) BY <1>2 DEF LinkOK
  <2> QED BY <2>1, <2>2, <1>1, <1>2, RunOfNext
<1>9. ExpireOnce(r, Free)
  <2>1. ExpireOnce(chan, Free) BY <1>2 DEF Gone
  <2> HIDE DEF Free
  <2> QED BY <2>1, <1>1, <1>2, ExpireOnceNext
<1>10. AccountedFor(r, d2, Known')
  <2> DEFINE then == Known'
  <2>1. \A i \in Known : i \in then \/ (m.type = "DictExpire" /\ m.id = i) BY <1>1 DEF Known
  <2>2. AccountedFor(chan, cdict, Known) /\ ExpireOnce(chan, Free) BY <1>2 DEF HoldsNoMore, Gone
  <2> HIDE DEF then, Known, Free
  <2>3. AccountedFor(r, d2, then) BY <2>1, <2>2, <1>1, <1>2, AccountedNext
  <2> QED BY <2>3 DEF then
<1> HIDE DEF m, r, n, d2, t2
<1>11. got' \in Seq(Commands) /\ Len(got') = IF Content(m) THEN Len(got) + 1 ELSE Len(got)
  <2>1. CASE Content(m)
    <3>1. sent[Len(got) + 1] \in Commands BY <2>1, <1>2, <1>6, ElementOfSeq
    <3> QED BY <2>1, <3>1, <1>2, <1>6, AppendProperties
  <2>2. CASE ~Content(m) BY <2>2, <1>2, <1>6
  <2> QED BY <2>1, <2>2
<1>12. Typed' BY <1>1, <1>2, <1>4, <1>11 DEF Typed
<1>13. NobodyThere' BY <1>1, <1>2 DEF NobodyThere
<1>14. Gone' BY <1>1, <1>5, <1>9 DEF Gone
<1>15. HoldsNoMore' BY <1>1, <1>10 DEF HoldsNoMore
<1>16. DictAgrees'
  <2>1. "dict" \notin stale => HeldAll(r, d2, lru) BY <1>2, <1>4, <1>7 DEF DictAgrees, HeldAll, n
  <2> QED BY <2>1, <1>1 DEF DictAgrees
<1>17. TemplatesAgree'
  <2>1. "templates" \notin stale => HasAll(r, t2, templates) BY <1>2, <1>4, <1>7 DEF TemplatesAgree, HasAll, n
  <2> QED BY <2>1, <1>1 DEF TemplatesAgree
<1>18. LinkOK' BY <1>1, <1>6, <1>8, <1>11 DEF LinkOK
<1> QED BY <1>5, <1>12, <1>13, <1>14, <1>15, <1>16, <1>17, <1>18 DEF IInv
-----------------------------------------------------------------------------
(* The invariant, and what follows from it *)

LEMMA InitHolds == Init => IInv
<1> SUFFICES ASSUME Init PROVE IInv OBVIOUS
<1>1. /\ prev = [op \in Opcodes |-> NoCommand]
      /\ templates = <<>> /\ lru = <<>> /\ nextID = 0 /\ expired = <<>>
      /\ chan = <<>> /\ cdict = <<>> /\ ctemplates = <<>>
      /\ up = FALSE /\ owed = 0 /\ halfway = 0 /\ stale = {}
      /\ sent = <<>> /\ got = <<>> /\ failed = FALSE
  BY DEF Init
<1>2. Len(<<>>) = 0 /\ DOMAIN <<>> = {} OBVIOUS
<1>3. Tables
  <2>1. <<>> \in Seq(Held(1..0)) /\ <<>> \in Seq(1..0) OBVIOUS
  <2>2. Used(<<>>)[0] = 0
    <3>1. <<>> \in Seq(Entries) OBVIOUS
    <3> QED BY <3>1, UsedSums DEF SumsUp
  <2>3. Distinct(<<>>) /\ IdsOf(<<>>) = {} BY <1>2 DEF Distinct, IdsOf
  <2> QED BY <2>1, <2>2, <2>3, <1>1, <1>2, BoundsAssumption DEF Tables
<1>4. Typed
  <2>1. <<>> \in Seq(Template) /\ <<>> \in Seq(Message) /\ <<>> \in Seq(Commands) OBVIOUS
  <2> QED BY <2>1, <1>1 DEF Typed
<1>5. NobodyThere BY <1>1 DEF NobodyThere
<1>6. Gone BY <1>1, NothingUnderWay DEF Gone
<1>7. HoldsNoMore BY <1>1, <1>2, NothingUnderWay DEF HoldsNoMore
<1>8. LinkOK BY <1>1, <1>2, NothingUnderWay DEF LinkOK
<1>9. DictAgrees /\ TemplatesAgree BY <1>1, <1>2 DEF DictAgrees, HeldAll, TemplatesAgree, HasAll
<1> QED BY <1>3, <1>4, <1>5, <1>6, <1>7, <1>8, <1>9 DEF IInv

LEMMA StutterKeeps == IInv /\ UNCHANGED vars => IInv'
<1> SUFFICES ASSUME IInv, UNCHANGED vars PROVE IInv' OBVIOUS
<1>1. /\ UNCHANGED <<prev, templates, lru, nextID, expired, chan, cdict, ctemplates>>
      /\ UNCHANGED <<up, owed, halfway, stale, sent, got, failed, forgotten>>
  BY DEF vars, encoder, decoder, link
<1>2. Tables' /\ Free' = Free /\ Known' = Known BY <1>1 DEF IInv, Tables, Free, Known
<1>3. Typed' /\ Gone' /\ NobodyThere' BY <1>1, <1>2 DEF IInv, Typed, Gone, NobodyThere
<1>4. DictAgrees' /\ TemplatesAgree' /\ HoldsNoMore' /\ LinkOK'
  BY <1>1, <1>2 DEF IInv, DictAgrees, TemplatesAgree, HoldsNoMore, LinkOK
<1> QED BY <1>2, <1>3, <1>4 DEF IInv

LEMMA StepHolds == IInv /\ [Next]_vars => IInv'
<1> SUFFICES ASSUME IInv, [Next]_vars PROVE IInv' OBVIOUS
<1>1. CASE \E c \in Commands : Encode(c) BY <1>1, EncodeKeeps
<1>2. CASE DrainExpiredDicts BY <1>2, DrainKeeps
<1>3. CASE ForgetDict BY <1>3, ForgetDictKeeps
<1>4. CASE ForgetTemplates BY <1>4, ForgetTemplatesKeeps
<1>5. CASE Connect BY <1>5, ConnectKeeps
<1>6. CASE Disconnect BY <1>6, DisconnectKeeps
<1>7. CASE Decode BY <1>7, DecodeKeeps
<1>8. CASE UNCHANGED vars BY <1>8, StutterKeeps
<1> QED BY <1>1, <1>2, <1>3, <1>4, <1>5, <1>6, <1>7, <1>8 DEF Next

LEMMA Invariance == Spec => []IInv
<1>1. Init => IInv BY InitHolds
<1>2. IInv /\ [Next]_vars => IInv' BY StepHolds
<1> QED BY <1>1, <1>2, PTL DEF Spec

\* TypeOK: the dictionary of compress/dict.go stays within its capacity, holds a
\* command once under one id, and never an id it has evicted, whatever is encoded and
\* however late OnClientDisconnect is called.
THEOREM TypeCorrect == Spec => []TypeOK
<1>1. IInv => TypeOK
  <2> SUFFICES ASSUME IInv PROVE TypeOK OBVIOUS
  <2>1. Tables /\ Typed BY DEF IInv
  <2>2. Entry = Held(1..nextID) BY DEF Entry, Held
  <2>3. \A i \in DOMAIN lru, k \in DOMAIN expired : lru[i].id # expired[k]
    BY <2>1 DEF Tables, IdsOf, Range
  <2> QED BY <2>1, <2>2, <2>3 DEF TypeOK, Tables, Typed, Distinct
<1> QED BY <1>1, Invariance, PTL

\* NothingUnknown: the Decoder of compress/compress.go never meets a reference to an
\* entry or a template it does not hold, nor one with other parameters.
THEOREM AlwaysKnown == Spec => []NothingUnknown
<1>1. IInv => NothingUnknown BY DEF IInv, LinkOK, NothingUnknown
<1> QED BY <1>1, Invariance, PTL

\* ClientHoldsNoMore: every id in a client's dictionary is in use in the encoder's, was
\* evicted and is to be told, or was marked absent by a late ClientDisconnected.
THEOREM NoMoreHeld == Spec => []ClientHoldsNoMore
<1>1. IInv => ClientHoldsNoMore
  <2> SUFFICES ASSUME IInv, NEW i \in DOMAIN cdict
               PROVE  \/ \E e \in DOMAIN lru : lru[e].id = i /\ lru[e].inClient
                      \/ \E k \in DOMAIN expired : expired[k] = i
                      \/ \E k \in DOMAIN chan : chan[k] = DictExpire(i)
                      \/ i \in forgotten
    BY DEF ClientHoldsNoMore
  <2>1. i \in Known \/ \E x \in 1..Len(chan) : chan[x] = DictExpire(i)
    BY DEF IInv, HoldsNoMore, AccountedFor
  <2>2. DOMAIN chan = 1..Len(chan) BY LenProperties DEF IInv, Typed
  <2> QED BY <2>1, <2>2 DEF Known, InUseOf, Range
<1> QED BY <1>1, Invariance, PTL
-----------------------------------------------------------------------------
(* The refinement *)

Rest(s, g) == SubSeq(s, g + 1, Len(s))

LEMMA RestIs ==
  ASSUME NEW s \in Seq(Commands), NEW g \in 0..Len(s)
  PROVE  /\ Rest(s, g) \in Seq(Commands) /\ Len(Rest(s, g)) = Len(s) - g
         /\ \A j \in 1..Len(s) - g : Rest(s, g)[j] = s[g + j]
BY RestOf DEF Rest, Remains

LEMMA RestSent ==
  ASSUME NEW s \in Seq(Commands), NEW g \in 0..Len(s), NEW c \in Commands
  PROVE  Rest(Append(s, c), g) = Append(Rest(s, g), c)
<1> DEFINE t == Append(s, c)  a == Rest(t, g)  b == Append(Rest(s, g), c)  n == Len(s)
<1>1. n \in Nat /\ g \in 0..n BY LenProperties
<1>2. t \in Seq(Commands) /\ Len(t) = n + 1 /\ (\A j \in 1..n : t[j] = s[j]) /\ t[n + 1] = c
  BY AppendProperties
<1> DEFINE u == Rest(s, g)
<1>3. u \in Seq(Commands) /\ Len(u) = n - g /\ \A j \in 1..n - g : u[j] = s[g + j]
  BY RestIs
<1> HIDE DEF t, u, n
<1>4. g \in 0..Len(t) BY <1>1, <1>2
<1>5. a \in Seq(Commands) /\ Len(a) = n + 1 - g /\ \A j \in 1..n + 1 - g : a[j] = t[g + j]
  <2>1. /\ Rest(t, g) \in Seq(Commands) /\ Len(Rest(t, g)) = Len(t) - g
        /\ \A j \in 1..Len(t) - g : Rest(t, g)[j] = t[g + j]
    BY <1>2, <1>4, RestIs
  <2>2. a \in Seq(Commands) /\ Len(a) = Len(t) - g /\ \A j \in 1..Len(t) - g : a[j] = t[g + j]
    BY <2>1
  <2> HIDE DEF a
  <2>3. Len(t) - g = n + 1 - g BY <1>1, <1>2
  <2> QED BY <2>2, <2>3
<1> DEFINE v == Append(u, c)
<1>6. v \in Seq(Commands) /\ Len(v) = n - g + 1 /\ (\A j \in 1..n - g : v[j] = u[j])
      /\ v[n - g + 1] = c
  BY <1>3, AppendProperties
<1> HIDE DEF a, v
<1>7. ASSUME NEW j \in 1..n + 1 - g PROVE a[j] = v[j]
  <2>1. CASE j = n - g + 1
    <3>1. g + j = n + 1 BY <2>1, <1>1
    <3> QED BY <2>1, <3>1, <1>2, <1>5, <1>6
  <2>2. CASE j \in 1..n - g
    <3>1. g + j \in 1..n BY <2>2, <1>1
    <3> QED BY <2>2, <3>1, <1>2, <1>3, <1>5, <1>6
  <2> QED BY <2>1, <2>2, <1>1
<1>8. Len(a) = Len(v) BY <1>1, <1>5, <1>6
<1>9. a = v BY <1>5, <1>6, <1>7, <1>8, SeqEqual
<1> QED BY <1>9 DEF a, v, t, u

LEMMA RestGot ==
  ASSUME NEW s \in Seq(Commands), NEW g \in Nat, g + 1 \in 1..Len(s)
  PROVE  Rest(s, g) # <<>> /\ Head(Rest(s, g)) = s[g + 1] /\ Rest(s, g + 1) = Tail(Rest(s, g))
<1> DEFINE a == Rest(s, g)  b == Rest(s, g + 1)  n == Len(s)
<1>1. n \in Nat /\ g \in 0..n /\ g + 1 \in 0..n BY LenProperties
<1>2. a \in Seq(Commands) /\ Len(a) = n - g /\ \A j \in 1..n - g : a[j] = s[g + j]
  BY <1>1, RestIs
<1>3. b \in Seq(Commands) /\ Len(b) = n - (g + 1) /\ \A j \in 1..n - (g + 1) : b[j] = s[g + 1 + j]
  <2> DEFINE h == g + 1
  <2>1. h \in 0..n BY <1>1
  <2> HIDE DEF h
  <2>2. Rest(s, h) \in Seq(Commands) /\ Len(Rest(s, h)) = n - h
        /\ \A j \in 1..n - h : Rest(s, h)[j] = s[h + j]
    BY <2>1, RestIs
  <2> QED BY <2>2 DEF h
<1> HIDE DEF a, b, n
<1>4. Len(a) # 0 BY <1>1, <1>2
<1>5. a # <<>> BY <1>2, <1>4, EmptySeq
<1> DEFINE v == Tail(a)
<1>6. v \in Seq(Commands) /\ Len(v) = n - g - 1 /\ \A j \in 1..n - g - 1 : v[j] = a[j + 1]
  BY <1>2, <1>5, HeadTailProperties
<1>7. Head(a) = s[g + 1]
  <2>1. Head(a) = a[1] BY <1>2, <1>5
  <2>2. 1 \in 1..n - g BY <1>1, <1>2, <1>4
  <2> QED BY <2>1, <2>2, <1>2
<1> HIDE DEF v
<1>8. ASSUME NEW j \in 1..n - g - 1 PROVE b[j] = v[j]
  <2>1. j + 1 \in 1..n - g /\ j \in 1..n - (g + 1) /\ g + (j + 1) = g + 1 + j BY <1>1
  <2> QED BY <2>1, <1>2, <1>3, <1>6
<1>9. Len(b) = Len(v) /\ Len(b) = n - g - 1 BY <1>1, <1>3, <1>6
<1>10. b = v BY <1>3, <1>6, <1>8, <1>9, SeqEqual
<1> QED BY <1>5, <1>7, <1>10 DEF a, b, v

LEMMA GotSome == IInv => Len(got) \in 0..Len(sent)
<1>1. IInv => Run(chan, cdict, ctemplates, sent, Len(got)) /\ chan \in Seq(Message)
  BY DEF IInv, LinkOK, Typed
<1>2. \A q \in Seq(Message) : \A d, ts, s, g : Run(q, d, ts, s, g) => g \in 0..Len(s)
  BY LenProperties DEF Run
<1> QED BY <1>1, <1>2

LEMMA InitRefines == Init => Link!Init
<1> SUFFICES ASSUME Init PROVE Link!Init OBVIOUS
<1>1. sent = <<>> /\ got = <<>> BY DEF Init
<1>2. SubSeq(<<>>, 1, 0) = <<>> OBVIOUS
<1> QED BY <1>1, <1>2 DEF Link!Init

LEMMA StepRefines ==
  IInv /\ [Next]_vars => [Link!Next]_<<Rest(sent, Len(got)), got>>
<1> SUFFICES ASSUME IInv, [Next]_vars
             PROVE  \/ Link!Next
                    \/ Rest(sent, Len(got))' = Rest(sent, Len(got)) /\ got' = got
  OBVIOUS
<1> DEFINE a == Rest(sent, Len(got))
<1>1. sent \in Seq(Commands) /\ got \in Seq(Commands) /\ Len(got) \in 0..Len(sent)
  BY GotSome DEF IInv, Typed
<1>2. CASE sent' = sent /\ got' = got BY <1>2
<1>3. ASSUME sent' = <<>>, got' = <<>> PROVE Link!Next
  <2>1. Len(<<>>) = 0 /\ SubSeq(<<>>, 1, 0) = <<>> OBVIOUS
  <2>2. Link!NewClient BY <2>1, <1>3 DEF Link!NewClient
  <2> QED BY <2>2 DEF Link!Next
<1>4. ASSUME NEW c \in Commands, Encode(c) PROVE Link!Next
  <2>1. sent' = Append(sent, c) /\ got' = got BY <1>4 DEF Encode, decoder
  <2>2. Rest(sent', Len(got')) = Append(a, c) BY <2>1, <1>1, RestSent
  <2>3. Link!Send(c) BY <2>1, <2>2 DEF Link!Send, Rest
  <2> QED BY <2>3 DEF Link!Next
<1>5. ASSUME Decode PROVE Link!Next \/ (sent' = sent /\ got' = got)
  <2>1. sent' = sent BY <1>5 DEF Decode
  <2>2. CASE Content(Head(chan))
    <3>1. Len(got) + 1 \in 1..Len(sent) /\ got' = Append(got, sent[Len(got) + 1])
      BY <2>2, <1>5, Delivered
    <3>2. Len(got) \in Nat BY <1>1, LenProperties
    <3>3. a # <<>> /\ Head(a) = sent[Len(got) + 1] /\ Rest(sent, Len(got) + 1) = Tail(a)
      BY <3>1, <3>2, <1>1, RestGot
    <3>4. Len(got') = Len(got) + 1
      <4>1. sent[Len(got) + 1] \in Commands BY <3>1, <1>1, ElementOfSeq
      <4> QED BY <4>1, <3>1, <1>1, AppendProperties
    <3>5. Rest(sent', Len(got')) = Tail(a) BY <2>1, <3>3, <3>4
    <3>6. Link!Receive BY <3>1, <3>3, <3>5 DEF Link!Receive, Rest
    <3> QED BY <3>6 DEF Link!Next
  <2>3. CASE ~Content(Head(chan)) BY <2>1, <2>3, <1>5, Delivered
  <2> QED BY <2>2, <2>3
<1>6. CASE DrainExpiredDicts \/ ForgetDict \/ ForgetTemplates \/ UNCHANGED vars
  BY <1>2, <1>6 DEF DrainExpiredDicts, ForgetDict, ForgetTemplates, vars, decoder
<1>7. CASE Connect \/ Disconnect BY <1>3, <1>7 DEF Connect, Disconnect
<1> QED BY <1>2, <1>4, <1>5, <1>6, <1>7 DEF Next

\* Lossless: through dictionary, templates, evictions and clients that come and go,
\* each client is handed the commands encoded for it, unchanged and in their order: the
\* Encoder and the Decoder of compress/compress.go implement Channel.
THEOREM Refines == Spec => Lossless
<1>1. Init => Link!Init BY InitRefines
<1>2. IInv /\ [Next]_vars => [Link!Next]_<<SubSeq(sent, Len(got) + 1, Len(sent)), got>>
  BY StepRefines DEF Rest
<1> QED BY <1>1, <1>2, Invariance, PTL DEF Spec, Lossless, Link!Spec
=============================================================================
