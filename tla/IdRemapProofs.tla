--------------------------- MODULE IdRemapProofs ---------------------------
(***************************************************************************)
(* IdsOK, RequestsExact and EventsExact for every size and place of the    *)
(* ranges, every number of resources and all value masks.                  *)
(***************************************************************************)
EXTENDS IdRemap, FunctionTheorems, FiniteSetTheorems, TLAPS

-----------------------------------------------------------------------------
(* Ranges *)

LEMMA InRange ==
  ASSUME NEW b \in Nat, b % Span = 0, NEW i \in 0..Span - 1
  PROVE  (b + i) % Span = i /\ RangeOf(b + i) = b
<1>1. (b + i) % Span = i BY SpanAssumption
<1>2. b + i - i = b OBVIOUS
<1> QED BY <1>1, <1>2 DEF RangeOf

LEMMA BasesAreHigh ==
  /\ OldBase \in Nat /\ OldBase % Span = 0 /\ OldBase >= Span
  /\ \A b \in Bases : b \in Nat /\ b % Span = 0 /\ b >= Span
<1>1. ASSUME NEW b \in Nat, b > 0, b % Span = 0 PROVE b >= Span BY <1>1, SpanAssumption
<1> QED BY <1>1, BasesAssumption

\* What is below the lowest base is in nobody's range.
LEMMA LowIds ==
  /\ \A b \in Bases : RangeOf(None) # b /\ RangeOf(Root) # b
  /\ None \in Nat /\ Root \in Nat /\ Root # None
<1>1. 0 \in Nat /\ 0 % Span = 0 /\ Root \in 0..Span - 1 /\ Root # 0
  BY SpanAssumption, RootAssumption
<1>2. RangeOf(0 + Root) = 0 /\ RangeOf(0 + 0) = 0
  <2>1. 0 \in 0..Span - 1 BY SpanAssumption
  <2> QED BY <1>1, <2>1, InRange
<1>3. 0 + Root = Root /\ 0 + 0 = 0 BY <1>1
<1>4. \A b \in Bases : b # 0 BY BasesAreHigh, SpanAssumption
<1> QED BY <1>1, <1>2, <1>3, <1>4 DEF None

\* Mapping to the range of b takes the number along, and the way back undoes it.
LEMMA Maps ==
  ASSUME TypeOK, NEW b \in Bases, NEW i \in 0..Span - 1
  PROVE  /\ Forward(OldBase + i, Installed(b)) = b + i
         /\ remap # 0 => Reverse(base + i) = OldBase + i
<1>1. /\ (OldBase + i) % Span = i /\ RangeOf(OldBase + i) = OldBase
      /\ (base + i) % Span = i /\ RangeOf(base + i) = base
  BY InRange, BasesAreHigh DEF TypeOK
<1>2. OldBase + i # 0 /\ base + i # 0 /\ b # 0 /\ b \in Nat /\ OldBase \in Nat
  BY BasesAreHigh, SpanAssumption DEF TypeOK
<1>3. Forward(OldBase + i, Installed(b)) = b + i
  BY <1>1, <1>2 DEF Forward, Moved, Installed, None
<1>4. remap # 0 => Reverse(base + i) = OldBase + i
  BY <1>1, <1>2 DEF Reverse, Moved, None, TypeOK
<1> QED BY <1>3, <1>4

-----------------------------------------------------------------------------
(* IdsOK.  The identifiers in use are numbers of one range: the application's *)
(* from its start, the replay's scratch resources below the top quarter, the  *)
(* client's colormaps at the top.                                             *)

High == Mask - Mask \div 4
Numbers(n, s, m) == 1..n \cup (High - s + 1)..High \cup (Mask - m + 1)..Mask

IdsInv ==
  /\ TypeOK
  /\ NoClash
  /\ \A id \in held : \E i \in Numbers(made, MaxScratch, MaxCmaps) : id = base + i

\* The three parts are within a range and do not meet.
LEMMA Room ==
  /\ High \in Nat /\ Mask \in Nat /\ High <= Mask
  /\ MaxMade + MaxScratch <= High /\ MaxCmaps <= Mask - High
<1>1. Mask \in Nat /\ Mask \div 4 \in Nat /\ Mask \div 4 <= Mask BY SpanAssumption DEF Mask
<1> QED BY <1>1, RoomAssumption DEF High, Mask

LEMMA NumbersInRange ==
  ASSUME NEW n \in 0..MaxMade, NEW s \in 0..MaxScratch, NEW m \in 0..MaxCmaps
  PROVE  /\ Numbers(n, s, m) \subseteq 1..Span - 1
         /\ Numbers(n, s, m) \subseteq Numbers(n, MaxScratch, MaxCmaps)
         /\ IsFiniteSet(Numbers(n, s, m)) /\ Cardinality(Numbers(n, s, m)) = n + s + m
<1>0. /\ n \in Nat /\ s \in Nat /\ m \in Nat /\ High \in Nat /\ Mask \in Nat /\ High <= Mask
      /\ MaxMade \in Nat /\ MaxScratch \in Nat /\ MaxCmaps \in Nat
      /\ n + s <= High /\ m <= Mask - High
  BY Room, RoomAssumption
<1> DEFINE A == 1..n
           B == (High - s + 1)..High
           C == (Mask - m + 1)..Mask
<1>1. A \cap B = {} /\ (A \cup B) \cap C = {} BY <1>0
<1>2. /\ IsFiniteSet(A) /\ Cardinality(A) = n
      /\ IsFiniteSet(B) /\ Cardinality(B) = s
      /\ IsFiniteSet(C) /\ Cardinality(C) = m
  <2>1. /\ High - s + 1 \in Int /\ Mask - m + 1 \in Int
        /\ (High - s + 1 > High <=> s = 0) /\ (Mask - m + 1 > Mask <=> m = 0) /\ (1 > n <=> n = 0)
        /\ High - (High - s + 1) + 1 = s /\ Mask - (Mask - m + 1) + 1 = m /\ n - 1 + 1 = n
    BY <1>0
  <2>2. IsFiniteSet(A) /\ Cardinality(A) = IF 1 > n THEN 0 ELSE n - 1 + 1 BY <1>0, FS_Interval
  <2>3. /\ IsFiniteSet(B)
        /\ Cardinality(B) = IF High - s + 1 > High THEN 0 ELSE High - (High - s + 1) + 1
    BY <1>0, <2>1, FS_Interval
  <2>4. /\ IsFiniteSet(C)
        /\ Cardinality(C) = IF Mask - m + 1 > Mask THEN 0 ELSE Mask - (Mask - m + 1) + 1
    BY <1>0, <2>1, FS_Interval
  <2> QED BY <2>1, <2>2, <2>3, <2>4
<1>3. A \subseteq 1..Span - 1 /\ B \subseteq 1..Span - 1 /\ C \subseteq 1..Span - 1
  BY <1>0, SpanAssumption DEF Mask
<1>4. /\ B \subseteq (High - MaxScratch + 1)..High
      /\ C \subseteq (Mask - MaxCmaps + 1)..Mask
  BY <1>0
<1> HIDE DEF A, B, C
<1>5. IsFiniteSet(A \cup B) /\ Cardinality(A \cup B) = n + s
  <2>1. Cardinality(A \cup B) = Cardinality(A) + Cardinality(B) - Cardinality({})
    BY <1>1, <1>2, FS_Union
  <2>2. IsFiniteSet(A \cup B) BY <1>2, FS_Union
  <2>3. Cardinality({}) = 0 BY FS_EmptySet
  <2> QED BY <1>0, <1>2, <2>1, <2>2, <2>3
<1>6. IsFiniteSet((A \cup B) \cup C) /\ Cardinality((A \cup B) \cup C) = n + s + m
  <2>1. Cardinality((A \cup B) \cup C) = Cardinality(A \cup B) + Cardinality(C) - Cardinality({})
    BY <1>1, <1>2, <1>5, FS_Union
  <2>2. IsFiniteSet((A \cup B) \cup C) BY <1>2, <1>5, FS_Union
  <2>3. Cardinality({}) = 0 BY FS_EmptySet
  <2> QED BY <1>0, <1>2, <1>5, <2>1, <2>2, <2>3
<1>7. Numbers(n, s, m) = (A \cup B) \cup C BY DEF Numbers, A, B, C
<1>8. Numbers(n, s, m) \subseteq 1..Span - 1 BY <1>3, <1>7
<1>9. Numbers(n, s, m) \subseteq Numbers(n, MaxScratch, MaxCmaps)
  <2>1. Numbers(n, MaxScratch, MaxCmaps) =
          A \cup (High - MaxScratch + 1)..High \cup (Mask - MaxCmaps + 1)..Mask
    BY DEF Numbers, A
  <2> QED BY <1>4, <1>7, <2>1
<1> QED BY <1>6, <1>7, <1>8, <1>9

\* There are as many identifiers as numbers.
LEMMA Shifted ==
  ASSUME NEW b \in Nat, NEW N \in SUBSET Nat, IsFiniteSet(N)
  PROVE  Cardinality({b + i : i \in N}) = Cardinality(N)
<1> DEFINE T == {b + i : i \in N}
           f == [i \in N |-> b + i]
<1>1. f \in Surjection(N, T) BY DEF Surjection
<1>2. f \in Injection(N, T) BY DEF Injection, IsInjective
<1> HIDE DEF f
<1> QED BY <1>1, <1>2, FS_Surjection

LEMMA CreateIds ==
  ASSUME IdsInv, Create
  PROVE  IdsInv'
<1> USE DEF IdsInv, TypeOK, NoClash
<1> DEFINE n == made + 1
           N == Numbers(made, MaxScratch, MaxCmaps)
           id == Forward(Own(n), remap)
<1>1. made \in Nat /\ n \in 1..MaxMade /\ made' = n /\ MaxMade \in Nat
  BY RoomAssumption DEF Create
<1>2. /\ n < High - MaxScratch + 1 /\ n < Mask - MaxCmaps + 1 /\ n \in 0..Span - 1
  BY <1>1, Room, RoomAssumption, SpanAssumption DEF Mask
<1>3. base \in Nat /\ base % Span = 0 BY BasesAreHigh
<1>4. id = base + n BY <1>2, Maps DEF Own, Installed
<1>5. RangeOf(id) = base BY <1>2, <1>3, <1>4, InRange
<1>6. n \notin N
  <2>1. /\ n \in Nat /\ High - MaxScratch + 1 \in Int /\ Mask - MaxCmaps + 1 \in Int
        /\ High \in Nat /\ Mask \in Nat
    BY <1>1, Room, RoomAssumption
  <2>2. n \notin 1..made BY <1>1
  <2>3. n \notin (High - MaxScratch + 1)..High /\ n \notin (Mask - MaxCmaps + 1)..Mask
    BY <1>2, <2>1
  <2> QED BY <2>2, <2>3 DEF Numbers
<1>7. \A i \in N : i \in Nat
  BY <1>1, NumbersInRange, RoomAssumption
<1>8. id \notin held
  <2> SUFFICES ASSUME id \in held PROVE FALSE OBVIOUS
  <2>1. PICK i \in N : id = base + i OBVIOUS
  <2>2. i = n BY <1>1, <1>3, <1>4, <1>7, <2>1
  <2> QED BY <1>6, <2>2
<1>9. held' = held \cup {id} /\ clash' = clash /\ base' = base /\ remap' = remap
  BY <1>5, <1>8 DEF Create
<1>10. N \subseteq Numbers(made, MaxScratch, MaxCmaps)' /\ n \in Numbers(made, MaxScratch, MaxCmaps)'
  <2>1. 1..made \subseteq 1..n /\ n \in 1..n BY <1>1
  <2>2. Numbers(made, MaxScratch, MaxCmaps)' = Numbers(n, MaxScratch, MaxCmaps)
    BY <1>1 DEF Numbers, High, Mask
  <2> QED BY <2>1, <2>2 DEF Numbers
<1>11. \A x \in held' : x \in Nat /\ \E i \in Numbers(made, MaxScratch, MaxCmaps)' : x = base + i
  <2> HIDE DEF id, n, N
  <2>1. ASSUME NEW x \in held
        PROVE  x \in Nat /\ \E i \in Numbers(made, MaxScratch, MaxCmaps)' : x = base + i
    <3>1. PICK i \in N : x = base + i BY DEF N
    <3> QED BY <1>10, <3>1
  <2>2. id \in Nat BY <1>1, <1>3, <1>4
  <2> QED BY <1>4, <1>9, <1>10, <2>1, <2>2
<1>12. made' \in 0..MaxMade BY <1>1
<1> HIDE DEF id, n, N
<1> QED BY <1>9, <1>11, <1>12

LEMMA ReconnectIds ==
  ASSUME IdsInv, NEW b \in Bases, NEW s \in 0..MaxScratch, NEW m \in 0..MaxCmaps,
         Reconnect(b, s, m)
  PROVE  IdsInv'
<1> USE DEF IdsInv, TypeOK, NoClash
<1> DEFINE to == Installed(b)
           inv == {Forward(id, to) : id \in {Own(i) : i \in 1..made} \cup Scratch(s)}
           all == inv \cup Colormaps(b, m)
           N == Numbers(made, s, m)
<1>1. /\ made \in 0..MaxMade /\ made \in Nat /\ s \in Nat /\ m \in Nat
      /\ High \in Nat /\ Mask \in Nat /\ b \in Nat /\ b % Span = 0 /\ OldBase \in Nat
  BY Room, RoomAssumption, BasesAreHigh
<1>2. /\ N \subseteq 1..Span - 1 /\ IsFiniteSet(N) /\ Cardinality(N) = made + s + m
      /\ N \subseteq Numbers(made, MaxScratch, MaxCmaps)
  BY <1>1, NumbersInRange
<1>3. \A i \in 1..Span - 1 : Forward(OldBase + i, to) = b + i /\ RangeOf(b + i) = b
  <2>1. \A i \in 1..Span - 1 : i \in 0..Span - 1 BY SpanAssumption
  <2> HIDE DEF to
  <2> QED BY <1>1, <2>1, Maps, InRange DEF to
<1>4. inv = {b + i : i \in 1..made \cup (High - s + 1)..High}
  <2>1. {Own(i) : i \in 1..made} = {OldBase + i : i \in 1..made} BY DEF Own
  <2>2. Scratch(s) = {OldBase + i : i \in (High - s + 1)..High}
    <3>1. \A k \in 0..s - 1 : /\ High - k \in (High - s + 1)..High
                              /\ OldBase + (High - k) = OldBase + High - k
      BY <1>1
    <3>2. \A i \in (High - s + 1)..High : /\ High - i \in 0..s - 1
                                          /\ OldBase + High - (High - i) = OldBase + i
      BY <1>1
    <3>3. Scratch(s) = {OldBase + High - k : k \in 0..s - 1} BY DEF Scratch, High
    <3> QED BY <3>1, <3>2, <3>3
  <2>3. \A i \in 1..made \cup (High - s + 1)..High : i \in 1..Span - 1 BY <1>2 DEF Numbers
  <2> HIDE DEF to
  <2>4. {Own(i) : i \in 1..made} \cup Scratch(s) = {OldBase + i : i \in 1..made \cup (High - s + 1)..High}
    BY <2>1, <2>2
  <2> DEFINE Y == 1..made \cup (High - s + 1)..High
             X == {Own(i) : i \in 1..made} \cup Scratch(s)
  <2> HIDE DEF X, Y
  <2>5. {Forward(id, to) : id \in X} = {Forward(OldBase + i, to) : i \in Y}
    <3>1. X = {OldBase + i : i \in Y} BY <2>4 DEF X, Y
    <3> QED BY <3>1
  <2>6. {Forward(OldBase + i, to) : i \in Y} = {b + i : i \in Y} BY <1>3, <2>3 DEF Y
  <2> QED BY <2>5, <2>6 DEF X, Y
<1>5. Colormaps(b, m) = {b + i : i \in (Mask - m + 1)..Mask}
  <2>1. \A k \in 0..m - 1 : Mask - k \in (Mask - m + 1)..Mask BY <1>1
  <2>2. \A i \in (Mask - m + 1)..Mask : Mask - i \in 0..m - 1 /\ Mask - (Mask - i) = i BY <1>1
  <2> QED BY <2>1, <2>2 DEF Colormaps
<1>6. all = {b + i : i \in N} BY <1>4, <1>5 DEF Numbers
<1> HIDE DEF inv, N, to, all
<1>7. Cardinality(all) = made + s + m
  <2>1. N \in SUBSET Nat BY <1>2
  <2> QED BY <1>1, <1>2, <1>6, <2>1, Shifted
<1>8. \A id \in all : RangeOf(id) = b BY <1>2, <1>3, <1>6
<1>9. /\ base' = b /\ remap' = to /\ held' = all /\ made' = made /\ clash' = clash
  BY <1>7, <1>8 DEF Reconnect, all, inv, to
<1>10. Numbers(made, MaxScratch, MaxCmaps)' = Numbers(made, MaxScratch, MaxCmaps)
  BY <1>9 DEF Numbers, High, Mask
<1>11. \A id \in all : id \in Nat /\ \E i \in Numbers(made, MaxScratch, MaxCmaps) : id = b + i
  <2> SUFFICES ASSUME NEW id \in all
               PROVE  id \in Nat /\ \E i \in Numbers(made, MaxScratch, MaxCmaps) : id = b + i
    OBVIOUS
  <2>1. PICK i \in N : id = b + i BY <1>6
  <2>2. i \in Nat /\ i \in Numbers(made, MaxScratch, MaxCmaps) BY <1>2
  <2> QED BY <1>1, <2>1, <2>2
<1> QED BY <1>9, <1>10, <1>11 DEF to, Installed

LEMMA IdsStep == IdsInv /\ [Next]_vars => IdsInv'
<1> SUFFICES ASSUME IdsInv, [Next]_vars PROVE IdsInv' OBVIOUS
<1>1. CASE UNCHANGED ids
  BY <1>1 DEF IdsInv, TypeOK, NoClash, ids, Numbers, High, Mask
<1>2. CASE Create BY <1>2, CreateIds
<1>3. ASSUME NEW b \in Bases, NEW s \in 0..MaxScratch, NEW m \in 0..MaxCmaps, Reconnect(b, s, m)
      PROVE  IdsInv'
  BY <1>3, ReconnectIds
<1>4. (\E r : Send(r)) \/ (\E type, body : Receive(type, body)) \/ Passed => UNCHANGED ids
  BY DEF Send, Receive, Passed
<1>5. CASE UNCHANGED vars BY <1>1, <1>5 DEF vars
<1> QED BY <1>1, <1>2, <1>3, <1>4, <1>5 DEF Next, Step

LEMMA IdsInit == Init => IdsInv
<1>1. OldBase \in Bases /\ 0 \in 0..MaxMade BY BasesAssumption, RoomAssumption
<1> QED BY <1>1 DEF Init, IdsInv, TypeOK, NoClash

\* However often an application is moved, no display is asked for an identifier
\* twice or for one outside the range it gave, and the client maps identifiers
\* exactly when that range is another (synthesis.go:174-178, client.go:573-581).
THEOREM NoIdTwice == Spec => []IdsOK
<1>1. Init => IdsInv BY IdsInit
<1>2. IdsInv => IdsOK BY DEF IdsInv, IdsOK
<1> QED BY <1>1, <1>2, IdsStep, PTL DEF Spec

-----------------------------------------------------------------------------
(* EventsExact *)

\* An identifier in use on the display, as the application is told of it.
LEMMA Told ==
  ASSUME IdsInv, NEW x \in held \cup {None, Root}
  PROVE  IF \E id \in Made : x = Forward(id, remap)
         THEN Reverse(x) \in Made /\ x = Forward(Reverse(x), remap)
         ELSE IF x \notin {None, Root} THEN Reverse(x) \notin Made ELSE Reverse(x) = x
<1> USE DEF IdsInv, TypeOK
<1>0. /\ base \in Nat /\ base >= Span /\ OldBase \in Nat /\ OldBase >= Span /\ Span \in Nat
      /\ base # 0 /\ OldBase # 0 /\ OldBase \in Bases /\ Root < Span /\ Root \in Nat
  BY BasesAreHigh, BasesAssumption, SpanAssumption, RootAssumption
<1>1. /\ remap = Installed(base)
      /\ Numbers(made, MaxScratch, MaxCmaps) \subseteq 1..Span - 1
      /\ 1..made \subseteq Numbers(made, MaxScratch, MaxCmaps)
  <2>1. MaxScratch \in 0..MaxScratch /\ MaxCmaps \in 0..MaxCmaps BY RoomAssumption
  <2>2. 1..made \subseteq Numbers(made, MaxScratch, MaxCmaps) BY DEF Numbers
  <2> QED BY <2>1, <2>2, NumbersInRange DEF Installed
<1>2. \A i \in 1..Span - 1 : /\ i \in 0..Span - 1
                             /\ Forward(OldBase + i, remap) = base + i
                             /\ Reverse(base + i) = OldBase + i
  <2> SUFFICES ASSUME NEW i \in 1..Span - 1
               PROVE  /\ i \in 0..Span - 1 /\ Forward(OldBase + i, remap) = base + i
                      /\ Reverse(base + i) = OldBase + i
    OBVIOUS
  <2>1. i \in 0..Span - 1 BY <1>0
  <2>2. Forward(OldBase + i, remap) = base + i BY <1>1, <2>1, Maps
  <2>3. remap # 0 => Reverse(base + i) = OldBase + i BY <2>1, Maps
  <2>4. remap = 0 => Reverse(base + i) = base + i /\ base = OldBase BY <1>0 DEF Reverse
  <2> QED BY <2>1, <2>2, <2>3, <2>4
<1>3. Made = {OldBase + i : i \in 1..made} BY DEF Made, Own
<1>4. CASE x \in held
  <2>1. PICK i \in Numbers(made, MaxScratch, MaxCmaps) : x = base + i BY <1>4
  <2>2. i \in 1..Span - 1 BY <1>1
  <2>3. Reverse(x) = OldBase + i /\ Forward(OldBase + i, remap) = x BY <1>2, <2>1, <2>2
  <2>4. x \notin {None, Root} BY <1>0, <2>1, <2>2 DEF None
  <2>5. OldBase + i \in Made <=> i \in 1..made BY <1>0, <1>3, <2>2
  <2>6. \A j \in 1..made : x = Forward(OldBase + j, remap) => j = i
    BY <1>0, <1>1, <1>2, <2>1, <2>2
  <2>7. (\E id \in Made : x = Forward(id, remap)) => i \in 1..made BY <1>3, <2>6
  <2> QED BY <2>3, <2>4, <2>5, <2>7
<1>5. CASE x \in {None, Root}
  <2>1. Reverse(x) = x
    BY <1>5, LowIds DEF Reverse, Moved
  <2>2. \A j \in 1..made : x # Forward(OldBase + j, remap)
    BY <1>0, <1>1, <1>2, <1>5 DEF None
  <2>3. ~\E id \in Made : x = Forward(id, remap) BY <1>3, <2>2
  <2> QED BY <1>5, <2>1, <2>3
<1> QED BY <1>4, <1>5

LEMMA EventsStep == IdsInv /\ EventsExact /\ [Next]_vars => EventsExact'
<1> SUFFICES ASSUME IdsInv, EventsExact, [Next]_vars PROVE EventsExact' OBVIOUS
<1>1. CASE event' = <<>> BY <1>1 DEF EventsExact
<1>2. ASSUME NEW type \in EventTypes, NEW named \in [EventWords(type) -> held \cup {None, Root}],
             Receive(type, [w \in 1..7 |-> IF w \in EventWords(type) THEN named[w] ELSE base])
      PROVE  EventsExact'
  <2> DEFINE body == [w \in 1..7 |-> IF w \in EventWords(type) THEN named[w] ELSE base]
             e == [type |-> type, body |-> body]
  <2>1. /\ event' = <<e>> /\ UNCHANGED ids
        /\ shown' = ApplyEventReverseRemap(type, body)
    BY <1>2 DEF Receive
  <2>2. event'[1] = e /\ DOMAIN body = 1..7 BY <2>1
  <2>3. \A w \in 1..7 : shown'[w] = IF w \in EventWords(type) THEN Reverse(body[w]) ELSE body[w]
    BY <2>1 DEF ApplyEventReverseRemap
  <2>4. \A w \in 1..7 : w \in EventWords(type) => body[w] \in held \cup {None, Root} OBVIOUS
  <2>5. Made' = Made /\ remap' = remap BY <2>1 DEF ids, Made, Own
  <2> HIDE DEF body
  <2>6. \A w \in 1..7 :
          IF w \in EventWords(type) /\ \E id \in Made : body[w] = Forward(id, remap)
          THEN shown'[w] \in Made /\ body[w] = Forward(shown'[w], remap)
          ELSE IF w \in EventWords(type) /\ body[w] \notin {None, Root}
               THEN shown'[w] \notin Made
               ELSE shown'[w] = body[w]
    <3> SUFFICES ASSUME NEW w \in 1..7
                 PROVE  IF w \in EventWords(type) /\ \E id \in Made : body[w] = Forward(id, remap)
                        THEN shown'[w] \in Made /\ body[w] = Forward(shown'[w], remap)
                        ELSE IF w \in EventWords(type) /\ body[w] \notin {None, Root}
                             THEN shown'[w] \notin Made
                             ELSE shown'[w] = body[w]
      OBVIOUS
    <3>1. CASE w \notin EventWords(type) BY <2>3, <3>1
    <3>2. CASE w \in EventWords(type)
      <4> DEFINE x == body[w]
      <4>1. x \in held \cup {None, Root} /\ shown'[w] = Reverse(x) BY <2>3, <2>4, <3>2
      <4> HIDE DEF x
      <4>2. IF \E id \in Made : x = Forward(id, remap)
            THEN Reverse(x) \in Made /\ x = Forward(Reverse(x), remap)
            ELSE IF x \notin {None, Root} THEN Reverse(x) \notin Made ELSE Reverse(x) = x
        BY <4>1, Told
      <4> QED BY <3>2, <4>1, <4>2 DEF x
    <3> QED BY <3>1, <3>2
  <2>7. \A x : Forward(x, remap)' = Forward(x, remap') BY DEF Forward, Moved, RangeOf
  <2>8. e.type = type /\ e.body = body OBVIOUS
  <2> HIDE DEF e
  <2> QED BY <2>2, <2>5, <2>6, <2>7, <2>8 DEF EventsExact
<1>3. CASE UNCHANGED vars
  <2>1. UNCHANGED <<event, shown>> /\ Made' = Made /\ remap' = remap
    BY <1>3 DEF vars, ids, traffic, Made, Own
  <2> QED BY <2>1 DEF EventsExact
<1>4. CASE Quiet /\ UNCHANGED traffic BY <1>1, <1>4 DEF Quiet, traffic
<1>5. Create \/ (\E b, s, m : Reconnect(b, s, m)) => UNCHANGED traffic BY DEF Create, Reconnect
<1>6. (\E r : Send(r)) \/ Passed => event' = <<>> BY DEF Send, Passed
<1> QED BY <1>1, <1>2, <1>3, <1>4, <1>5, <1>6 DEF Next, Step

-----------------------------------------------------------------------------
(* RequestsExact.  The words of a request are those in front of the value list, *)
(* one after another, and a value for every bit of the mask in ascending order. *)

\* The bits of a mask in ascending order: each has its place.
LEMMA Places ==
  ASSUME NEW mask \in SUBSET (0..31)
  PROVE  /\ IsFiniteSet(mask) /\ Cardinality(mask) \in Nat
         /\ \A b \in mask : Place(mask, b) \in 0..Cardinality(mask) - 1
         /\ \A b, c \in mask : Place(mask, b) = Place(mask, c) => b = c
         /\ \A n \in 1..Cardinality(mask) :
              Listed(mask)[n] \in mask /\ Place(mask, Listed(mask)[n]) = n - 1
<1> DEFINE k == Cardinality(mask)
           P == 0..k - 1
           f == [b \in mask |-> Place(mask, b)]
           Below(b) == {c \in mask : c < b}
<1>1. IsFiniteSet(mask) /\ k \in Nat
  <2>1. mask \in SUBSET Nat /\ 31 \in Nat /\ \A b \in mask : b <= 31 OBVIOUS
  <2> QED BY <2>1, FS_BoundedSetOfNaturals, FS_CardinalityType
<1>2. ASSUME NEW b \in mask
      PROVE  IsFiniteSet(Below(b)) /\ Place(mask, b) \in P
  <2>1. Below(b) \in SUBSET mask /\ Below(b) # mask
    <3>1. b \in 0..31 /\ b \notin Below(b) OBVIOUS
    <3> QED BY <3>1
  <2>2. /\ IsFiniteSet(Below(b)) /\ Cardinality(Below(b)) <= k
        /\ Cardinality(Below(b)) # k
    BY <1>1, <2>1, FS_Subset
  <2>3. Cardinality(Below(b)) \in Nat BY <2>2, FS_CardinalityType
  <2> HIDE DEF k
  <2>4. Cardinality(Below(b)) \in P BY <1>1, <2>2, <2>3
  <2> QED BY <2>2, <2>4 DEF Place
<1>3. ASSUME NEW b \in mask, NEW c \in mask, b < c PROVE Place(mask, b) # Place(mask, c)
  <2>1. Below(b) \in SUBSET Below(c) /\ Below(b) # Below(c)
    <3>1. b \notin Below(b) /\ b \in Below(c) BY <1>3
    <3>2. \A d \in mask : d < b => d < c BY <1>3
    <3> QED BY <3>1, <3>2
  <2>2. IsFiniteSet(Below(c)) BY <1>2
  <2>3. Cardinality(Below(c)) # Cardinality(Below(b)) BY <2>1, <2>2, FS_Subset
  <2> QED BY <2>3 DEF Place
<1>4. \A b, c \in mask : Place(mask, b) = Place(mask, c) => b = c
  <2>1. \A b, c \in mask : b # c => b < c \/ c < b OBVIOUS
  <2> QED BY <1>3, <2>1
<1>5. f \in Surjection(mask, P)
  <2>1. f \in Injection(mask, P) BY <1>2, <1>4 DEF Injection, IsInjective
  <2>2. IsFiniteSet(P) /\ Cardinality(P) = k
    <3>1. 0 \in Int /\ k - 1 \in Int BY <1>1
    <3> DEFINE j == k - 1
    <3> HIDE DEF j
    <3>2. IsFiniteSet(0..j) /\ Cardinality(0..j) = IF 0 > j THEN 0 ELSE j - 0 + 1
      BY <3>1, FS_Interval DEF j
    <3> HIDE DEF k
    <3> QED BY <1>1, <3>2 DEF j
  <2> HIDE DEF f, P
  <2> QED BY <2>1, <2>2, FS_Injection
<1>6. ASSUME NEW n \in 1..k PROVE Listed(mask)[n] \in mask /\ Place(mask, Listed(mask)[n]) = n - 1
  <2>1. n - 1 \in P BY <1>1
  <2>2. \E b \in mask : Place(mask, b) = n - 1 BY <1>5, <2>1 DEF Surjection
  <2>3. Listed(mask)[n] = CHOOSE b \in mask : Place(mask, b) = n - 1 BY <1>6 DEF Listed, Place
  <2> QED BY <2>2, <2>3
<1> QED BY <1>1, <1>2, <1>4, <1>6

\* The words of each kind of request that are no values.
LEMMA Shapes ==
  ASSUME NEW kind \in Kinds
  PROVE  /\ LengthOf(kind) \in 1..8 /\ Words(kind) \subseteq 1..LengthOf(kind)
         /\ MaskWord(kind) \in {0, LengthOf(kind)} /\ MaskWord(kind) \notin Words(kind)
         /\ Named(kind) \subseteq Words(kind) /\ Bits(kind) \subseteq IdBits(kind)
         /\ kind # "Coordinates" => Named(kind) = Words(kind)
         /\ kind = "Coordinates" => Words(kind) \ Named(kind) = {2} /\ MaskWord(kind) = 0
<1> DEFINE W == Words(kind) \cup {MaskWord(kind)}
           Longest(n) == n \in W /\ \A w \in W : w <= n
<1>1. \E n \in 1..8 : Longest(n) /\ MaskWord(kind) \in {0, n}
  <2>1. CASE kind \in {"Window", "FillRectangles"}
    <3>1. Longest(1) \/ Longest(2) BY <2>1 DEF Words, MaskWord
    <3>2. MaskWord(kind) = 0 BY <2>1 DEF MaskWord
    <3> QED BY <3>1, <3>2
  <2>2. CASE kind \in {"ChangeWindowAttributes", "ChangeGC"}
    <3>1. Longest(2) /\ MaskWord(kind) = 2 BY <2>2 DEF Words, MaskWord
    <3> QED BY <3>1
  <2>3. CASE kind \in {"CreatePixmap", "Draw", "Coordinates"}
    <3>1. Longest(2) /\ MaskWord(kind) = 0 BY <2>3 DEF Words, MaskWord
    <3> QED BY <3>1
  <2>4. CASE kind \in {"CreateWindow", "CreateGC"}
    <3>1. (Longest(7) /\ MaskWord(kind) = 7) \/ (Longest(3) /\ MaskWord(kind) = 3)
      BY <2>4 DEF Words, MaskWord
    <3> QED BY <3>1
  <2>5. CASE kind \in {"CreateCursor", "Trapezoids"}
    <3>1. Longest(3) /\ MaskWord(kind) = 0 BY <2>5 DEF Words, MaskWord
    <3> QED BY <3>1
  <2>6. CASE kind \in {"ShmPutImage", "ShmCreatePixmap"}
    <3>1. (Longest(8) \/ Longest(5)) /\ MaskWord(kind) = 0 BY <2>6 DEF Words, MaskWord
    <3> QED BY <3>1
  <2>7. CASE kind \in {"Composite", "CompositeGlyphs"}
    <3>1. (Longest(4) \/ Longest(5)) /\ MaskWord(kind) = 0 BY <2>7 DEF Words, MaskWord
    <3> QED BY <3>1
  <2> QED BY <2>1, <2>2, <2>3, <2>4, <2>5, <2>6, <2>7 DEF Kinds
<1>2. Words(kind) \subseteq 1..8 /\ MaskWord(kind) \in 0..8 BY DEF Words, MaskWord, Kinds
<1>3. LengthOf(kind) \in W /\ \A w \in W : w <= LengthOf(kind)
  <2>1. \E n \in W : \A w \in W : w <= n BY <1>1
  <2>2. LengthOf(kind) = CHOOSE n \in W : \A w \in W : w <= n BY DEF LengthOf
  <2> HIDE DEF W
  <2> QED BY <2>1, <2>2
<1>4. LengthOf(kind) \in 1..8 /\ MaskWord(kind) \in {0, LengthOf(kind)}
  <2>1. PICK n \in 1..8 : Longest(n) /\ MaskWord(kind) \in {0, n} BY <1>1
  <2>2. W \subseteq 0..8 BY <1>2
  <2>3. n <= LengthOf(kind) /\ LengthOf(kind) <= n BY <1>3, <2>1
  <2>4. LengthOf(kind) \in 0..8 BY <1>3, <2>2
  <2>5. n = LengthOf(kind) BY <2>3, <2>4
  <2> QED BY <2>1, <2>5
<1>5. Words(kind) \subseteq 1..LengthOf(kind) BY <1>2, <1>3, <1>4
<1>6. MaskWord(kind) \notin Words(kind) BY DEF Words, MaskWord, Kinds
<1>7. Bits(kind) \subseteq IdBits(kind) BY DEF Bits, IdBits
<1>8. /\ Named(kind) \subseteq Words(kind)
      /\ kind # "Coordinates" => Named(kind) = Words(kind)
      /\ kind = "Coordinates" => Words(kind) \ Named(kind) = {2} /\ MaskWord(kind) = 0
  <2>1. CASE kind # "Coordinates" BY <2>1 DEF Named
  <2>2. CASE kind = "Coordinates"
    <3>1. Words(kind) = {1, 2} /\ Named(kind) = {1} /\ MaskWord(kind) = 0
      BY <2>2 DEF Named, Words, MaskWord
    <3>2. {1, 2} \ {1} = {2} OBVIOUS
    <3> QED BY <2>2, <3>1, <3>2
  <2> QED BY <2>1, <2>2
<1> QED BY <1>4, <1>5, <1>6, <1>7, <1>8

\* u is made of p, q and r, one after another.
Joins(u, p, q, r) ==
  /\ Len(u) = Len(p) + Len(q) + Len(r)
  /\ \A i \in 1..Len(p) : u[i] = p[i]
  /\ \A i \in 1..Len(q) : u[Len(p) + i] = q[i]
  /\ \A i \in 1..Len(r) : u[Len(p) + Len(q) + i] = r[i]

LEMMA Concatenated ==
  ASSUME NEW S, NEW p \in Seq(S), NEW q \in Seq(S), NEW r \in Seq(S)
  PROVE  (p \o q) \o r \in Seq(S) /\ Joins((p \o q) \o r, p, q, r)
<1> DEFINE t == p \o q
<1>1. t \in Seq(S) /\ Len(t) = Len(p) + Len(q) /\ Len(p) \in Nat /\ Len(q) \in Nat /\ Len(r) \in Nat
  OBVIOUS
<1>2. /\ \A i \in 1..Len(p) : t[i] = p[i] /\ i \in 1..Len(t)
      /\ \A i \in 1..Len(q) : t[Len(p) + i] = q[i] /\ Len(p) + i \in 1..Len(t)
  OBVIOUS
<1>3. ASSUME NEW u \in Seq(S)
      PROVE  /\ u \o r \in Seq(S) /\ Len(u \o r) = Len(u) + Len(r)
             /\ \A i \in 1..Len(u) : (u \o r)[i] = u[i]
             /\ \A i \in 1..Len(r) : (u \o r)[Len(u) + i] = r[i]
  OBVIOUS
<1> HIDE DEF t
<1>4. /\ t \o r \in Seq(S) /\ Len(t \o r) = Len(t) + Len(r)
      /\ \A i \in 1..Len(t) : (t \o r)[i] = t[i]
      /\ \A i \in 1..Len(r) : (t \o r)[Len(t) + i] = r[i]
  BY <1>1, <1>3
<1> DEFINE u == t \o r
<1> HIDE DEF u
<1>5. /\ u \in Seq(S) /\ Len(u) = Len(p) + Len(q) + Len(r)
      /\ \A i \in 1..Len(p) : u[i] = p[i]
      /\ \A i \in 1..Len(q) : u[Len(p) + i] = q[i]
      /\ \A i \in 1..Len(r) : u[Len(p) + Len(q) + i] = r[i]
  BY <1>1, <1>2, <1>4 DEF u
<1> QED BY <1>5 DEF t, u, Joins

Extra(r) == IF r.big THEN 1 ELSE 0

\* Where everything is in the body of a request.
LEMMA Laid ==
  ASSUME NEW r, r.kind \in Kinds, r.big \in BOOLEAN, r.mask \in SUBSET (0..31)
  PROVE  /\ Body(r) = [w \in 1..Extra(r) + LengthOf(r.kind) + Cardinality(r.mask) |-> Body(r)[w]]
         /\ r.big => Body(r)[1] = r.other
         /\ \A w \in 1..LengthOf(r.kind) :
              Body(r)[Extra(r) + w] = IF w \in Named(r.kind) THEN r.ids[w]
                                      ELSE IF w = MaskWord(r.kind) THEN r.mask ELSE r.other
         /\ \A n \in 1..Cardinality(r.mask) :
              Body(r)[Extra(r) + LengthOf(r.kind) + n] = r.attrs[Listed(r.mask)[n]]
<1> DEFINE L == LengthOf(r.kind)
           k == Cardinality(r.mask)
           W(w) == IF w \in Named(r.kind) THEN r.ids[w]
                   ELSE IF w = MaskWord(r.kind) THEN r.mask ELSE r.other
           V(n) == r.attrs[Listed(r.mask)[n]]
           head == [w \in 1..L |-> W(w)]
           values == [n \in 1..k |-> V(n)]
           lead == IF r.big THEN <<r.other>> ELSE <<>>
           S == {r.other} \cup {W(w) : w \in 1..L} \cup {V(n) : n \in 1..k}
<1>1. L \in Nat /\ k \in Nat BY Shapes, Places
<1>2. Body(r) = (lead \o head) \o values BY DEF Body
<1> HIDE DEF L, k, W, V
<1>3. head \in Seq(S) /\ Len(head) = L /\ values \in Seq(S) /\ Len(values) = k BY <1>1
<1>4. lead \in Seq(S) /\ Len(lead) = Extra(r) /\ (r.big => lead[1] = r.other)
  <2>1. CASE r.big
    <3>1. r.other \in S OBVIOUS
    <3> HIDE DEF S
    <3>2. <<r.other>> \in Seq(S) /\ Len(<<r.other>>) = 1 /\ <<r.other>>[1] = r.other BY <3>1
    <3> QED BY <2>1, <3>2 DEF Extra
  <2>2. CASE ~r.big
    <3>1. <<>> \in Seq(S) /\ Len(<<>>) = 0 OBVIOUS
    <3> QED BY <2>2, <3>1 DEF Extra
  <2> QED BY <2>1, <2>2
<1>5. \A w \in 1..L : head[w] = W(w) OBVIOUS
<1>6. \A n \in 1..k : values[n] = V(n) OBVIOUS
<1> HIDE DEF head, values, lead, S
<1>7. /\ Body(r) \in Seq(S) /\ Len(Body(r)) = Extra(r) + L + k
      /\ \A i \in 1..Extra(r) : Body(r)[i] = lead[i]
      /\ \A i \in 1..L : Body(r)[Extra(r) + i] = head[i]
      /\ \A i \in 1..k : Body(r)[Extra(r) + L + i] = values[i]
  <2> DEFINE b == (lead \o head) \o values
  <2>1. b \in Seq(S) /\ Joins(b, lead, head, values) BY <1>3, <1>4, Concatenated
  <2>2. Body(r) = b BY <1>2
  <2> HIDE DEF b
  <2>3. Body(r) \in Seq(S) /\ Joins(Body(r), lead, head, values) BY <2>1, <2>2
  <2> QED BY <1>3, <1>4, <2>3 DEF Joins
<1>8. Body(r) = [w \in 1..Extra(r) + L + k |-> Body(r)[w]] BY <1>7
<1>9. r.big => Body(r)[1] = r.other BY <1>4, <1>7 DEF Extra
<1> QED BY <1>5, <1>6, <1>7, <1>8, <1>9 DEF L, k, W, V

\* Which words applyIDRemap looks at, by what they are in the request.
LEMMA LookedAt ==
  ASSUME NEW r, r.kind \in Kinds, r.big \in BOOLEAN, r.mask \in SUBSET (0..31),
         MaskWord(r.kind) = 0 => r.mask = {}
  PROVE  LET e == Extra(r)
             L == LengthOf(r.kind)
             W == IdWords(r.kind, Body(r), r.big)
         IN  /\ \A w \in 1..e : w \notin W
             /\ \A w \in 1..L : e + w \in W <=> w \in Words(r.kind)
             /\ \A n \in 1..Cardinality(r.mask) : e + L + n \in W <=> Listed(r.mask)[n] \in Bits(r.kind)
<1> DEFINE e == Extra(r)
           L == LengthOf(r.kind)
           k == Cardinality(r.mask)
           W == IdWords(r.kind, Body(r), r.big)
           b == Body(r)
           m == MaskWord(r.kind) + e
           list == IF MaskWord(r.kind) = 0 THEN {}
                   ELSE {m + 1 + Place(b[m], c) : c \in Bits(r.kind) \cap b[m]}
           shifted == {w + e : w \in Words(r.kind)}
<1>1. /\ e \in 0..1 /\ L \in 1..8 /\ k \in Nat /\ Words(r.kind) \subseteq 1..L
      /\ MaskWord(r.kind) \in {0, L}
  BY Shapes, Places DEF Extra
<1>2. DOMAIN b = 1..e + L + k
  <2>1. b = [w \in 1..e + L + k |-> b[w]] BY Laid
  <2> QED BY <2>1
<1>3. W = (shifted \cup list) \cap DOMAIN b BY DEF IdWords, Extra
<1>4. MaskWord(r.kind) # 0 => m = e + L /\ b[m] = r.mask
  <2> SUFFICES ASSUME MaskWord(r.kind) # 0 PROVE m = e + L /\ b[m] = r.mask OBVIOUS
  <2>1. MaskWord(r.kind) = L /\ m = e + L BY <1>1
  <2>2. L \notin Named(r.kind) BY <2>1, Shapes
  <2>3. L \in 1..L BY <1>1
  <2>4. b[e + L] = r.mask BY <2>1, <2>2, <2>3, Laid
  <2> QED BY <2>1, <2>4
<1>5. list = {e + L + 1 + Place(r.mask, c) : c \in Bits(r.kind) \cap r.mask}
  <2>1. CASE MaskWord(r.kind) = 0 BY <2>1
  <2>2. CASE MaskWord(r.kind) # 0 BY <1>4, <2>2
  <2> QED BY <2>1, <2>2
<1> HIDE DEF list
<1>6. \A c \in r.mask : Place(r.mask, c) \in 0..k - 1 BY Places
<1>7. ASSUME NEW x \in list PROVE x \in Nat /\ x > e + L
  BY <1>1, <1>5, <1>6
<1>8. ASSUME NEW x \in shifted PROVE x \in Nat /\ x > e /\ x <= e + L
  BY <1>1
<1>9. ASSUME NEW w \in 1..e PROVE w \notin W
  <2>1. w \in Nat /\ w <= e /\ w <= e + L BY <1>1
  <2> HIDE DEF shifted
  <2> QED BY <1>1, <1>3, <1>7, <1>8, <2>1
<1>10. ASSUME NEW w \in 1..L PROVE e + w \in W <=> w \in Words(r.kind)
  <2>1. e + w \in 1..e + L + k /\ e + w <= e + L BY <1>1
  <2>2. e + w \notin list BY <1>1, <1>7, <2>1
  <2>3. e + w \in shifted <=> w \in Words(r.kind) BY <1>1
  <2> HIDE DEF shifted
  <2> QED BY <1>2, <1>3, <2>1, <2>2, <2>3
<1>11. ASSUME NEW n \in 1..k PROVE e + L + n \in W <=> Listed(r.mask)[n] \in Bits(r.kind)
  <2> DEFINE x == Listed(r.mask)[n]
  <2>1. e + L + n \in 1..e + L + k /\ e + L + n > e + L BY <1>1
  <2>2. e + L + n \notin shifted BY <1>1, <1>8, <2>1
  <2>3. x \in r.mask /\ Place(r.mask, x) = n - 1 BY Places
  <2>4. \A c \in r.mask : Place(r.mask, c) = Place(r.mask, x) => c = x BY <2>3, Places
  <2> HIDE DEF x, e, L, k
  <2>5. e + L + n \in list <=> \E c \in Bits(r.kind) \cap r.mask : e + L + n = e + L + 1 + Place(r.mask, c)
    BY <1>5
  <2>6. \A c \in r.mask : e + L + n = e + L + 1 + Place(r.mask, c) <=> c = x
    <3> SUFFICES ASSUME NEW c \in r.mask
                 PROVE  e + L + n = e + L + 1 + Place(r.mask, c) <=> c = x
      OBVIOUS
    <3>1. Place(r.mask, c) \in Int BY <1>1, <1>6
    <3>2. e + L + n = e + L + 1 + Place(r.mask, c) <=> Place(r.mask, c) = n - 1 BY <1>1, <3>1
    <3> QED BY <2>3, <2>4, <3>2
  <2>7. e + L + n \in list <=> x \in Bits(r.kind) BY <2>3, <2>5, <2>6
  <2> HIDE DEF shifted
  <2> QED BY <1>2, <1>3, <2>1, <2>2, <2>7 DEF x
<1> QED BY <1>9, <1>10, <1>11

\* A request, as the client passes it on, is what the application meant.
LEMMA ExactRequest ==
  ASSUME TypeOK, NEW kind \in Kinds, NEW mask \in MasksOf(kind), NEW r \in Requests(kind, mask),
         remap = 0 \/ ~Misread(r)
  PROVE  ApplyIDRemap(r.kind, Body(r), r.big) = Body(Renumbered(r, remap))
<1> DEFINE q == Renumbered(r, remap)
           e == Extra(r)
           L == LengthOf(r.kind)
           k == Cardinality(r.mask)
           W == IdWords(r.kind, Body(r), r.big)
<1>1. /\ r.kind = kind /\ r.big \in BOOLEAN /\ r.mask = mask /\ r.ids \in [Named(kind) -> Ids]
      /\ r.attrs \in [mask -> Ids] /\ r.other \in {None, Own(made)}
  BY DEF Requests
<1>2. r.mask \in SUBSET (0..31) /\ (MaskWord(kind) = 0 => mask = {})
  BY <1>1, MasksAssumption DEF MasksOf
<1>3. /\ q.kind = kind /\ q.big = r.big /\ q.mask = mask /\ q.other = r.other
      /\ \A w \in Named(kind) : q.ids[w] = Forward(r.ids[w], remap)
      /\ \A b \in mask : q.attrs[b] = IF b \in IdBits(kind) THEN Forward(r.attrs[b], remap)
                                      ELSE r.attrs[b]
  BY <1>1 DEF Renumbered, Requests
<1>4. /\ e \in 0..1 /\ L \in 1..8 /\ k \in Nat /\ Words(kind) \subseteq 1..L
      /\ Named(kind) \subseteq Words(kind) /\ Bits(kind) \subseteq IdBits(kind)
  BY <1>1, <1>2, Shapes, Places DEF Extra
<1>5. Extra(q) = e /\ LengthOf(q.kind) = L /\ Cardinality(q.mask) = k BY <1>1, <1>3 DEF Extra
<1>6. /\ Body(q) = [w \in 1..e + L + k |-> Body(q)[w]]
      /\ r.big => Body(q)[1] = r.other
      /\ \A w \in 1..L : Body(q)[e + w] = IF w \in Named(kind) THEN q.ids[w]
                                          ELSE IF w = MaskWord(kind) THEN mask ELSE r.other
      /\ \A n \in 1..k : Body(q)[e + L + n] = q.attrs[Listed(mask)[n]]
  <2>1. q.kind \in Kinds /\ q.big \in BOOLEAN /\ q.mask \in SUBSET (0..31) BY <1>1, <1>2, <1>3
  <2> HIDE DEF q, e, L, k
  <2> QED BY <1>3, <1>5, <2>1, Laid
<1>7. /\ Body(r) = [w \in 1..e + L + k |-> Body(r)[w]]
      /\ r.big => Body(r)[1] = r.other
      /\ \A w \in 1..L : Body(r)[e + w] = IF w \in Named(kind) THEN r.ids[w]
                                          ELSE IF w = MaskWord(kind) THEN mask ELSE r.other
      /\ \A n \in 1..k : Body(r)[e + L + n] = r.attrs[Listed(mask)[n]]
  BY <1>1, <1>2, Laid
<1>8. /\ \A w \in 1..e : w \notin W
      /\ \A w \in 1..L : e + w \in W <=> w \in Words(kind)
      /\ \A n \in 1..k : e + L + n \in W <=> Listed(mask)[n] \in Bits(kind)
  BY <1>1, <1>2, LookedAt
<1>9. \A n \in 1..k : Listed(mask)[n] \in mask BY <1>1, <1>2, Places
<1> DEFINE Sent(w) == IF remap # 0 /\ w \in W THEN Forward(Body(r)[w], remap) ELSE Body(r)[w]
<1>10. \A x : remap = 0 => Forward(x, remap) = x BY DEF Forward
<1>11. ApplyIDRemap(kind, Body(r), r.big) = [w \in 1..e + L + k |-> Sent(w)]
  <2>1. DOMAIN Body(r) = 1..e + L + k BY <1>7
  <2>2. CASE remap = 0
    <3>1. ApplyIDRemap(kind, Body(r), r.big) = Body(r) BY <2>2 DEF ApplyIDRemap
    <3>2. [w \in 1..e + L + k |-> Sent(w)] = [w \in 1..e + L + k |-> Body(r)[w]] BY <2>2
    <3> QED BY <1>7, <3>1, <3>2
  <2>3. CASE remap # 0 BY <1>1, <2>1, <2>3 DEF ApplyIDRemap
  <2> QED BY <2>2, <2>3
<1> HIDE DEF q, e, L, k, W
<1>12. ASSUME NEW w \in 1..e PROVE Sent(w) = Body(q)[w]
  <2>1. w = 1 /\ r.big BY <1>4 DEF e, Extra
  <2> QED BY <1>6, <1>7, <1>8, <2>1
<1>13. ASSUME NEW w \in 1..L PROVE Sent(e + w) = Body(q)[e + w]
  <2>1. CASE w \in Named(kind)
    <3>1. Body(r)[e + w] = r.ids[w] /\ Body(q)[e + w] = q.ids[w] BY <1>6, <1>7, <2>1
    <3>2. e + w \in W BY <1>4, <1>8, <2>1
    <3>3. q.ids[w] = Forward(r.ids[w], remap) BY <1>3, <2>1
    <3> QED BY <1>10, <3>1, <3>2, <3>3
  <2>2. CASE w \notin Words(kind) BY <1>4, <1>6, <1>7, <1>8, <2>2
  <2>3. CASE w \in Words(kind) /\ w \notin Named(kind)
    <3>1. kind = "Coordinates" /\ w # MaskWord(kind)
      BY <2>3, Shapes
    <3>2. Body(r)[e + w] = r.other /\ Body(q)[e + w] = r.other BY <1>6, <1>7, <2>3, <3>1
    <3>3. Forward(r.other, remap) = r.other
      BY <1>1, <1>10, <3>1 DEF Misread, Forward, Moved
    <3> QED BY <3>2, <3>3
  <2> QED BY <2>1, <2>2, <2>3
<1>14. ASSUME NEW n \in 1..k PROVE Sent(e + L + n) = Body(q)[e + L + n]
  <2> DEFINE b == Listed(mask)[n]
  <2>1. b \in mask BY <1>9
  <2>2. Body(r)[e + L + n] = r.attrs[b] /\ Body(q)[e + L + n] = q.attrs[b] BY <1>6, <1>7
  <2>3. e + L + n \in W <=> b \in Bits(kind) BY <1>8
  <2> HIDE DEF b
  <2>4. CASE b \in Bits(kind) BY <1>3, <1>4, <1>10, <2>1, <2>2, <2>3, <2>4
  <2>5. CASE b \notin IdBits(kind) BY <1>3, <1>4, <2>1, <2>2, <2>3, <2>5
  <2>6. CASE b \in IdBits(kind) \ Bits(kind)
    <3>1. remap # 0 => r.attrs[b] = None \/ RangeOf(r.attrs[b]) # OldBase
      BY <1>1, <2>1, <2>6 DEF Misread
    <3>2. Forward(r.attrs[b], remap) = r.attrs[b] BY <3>1 DEF Forward, Moved
    <3> QED BY <1>3, <2>1, <2>2, <2>3, <2>6, <3>2
  <2> QED BY <2>4, <2>5, <2>6
<1> HIDE DEF Sent
<1>15. \A w \in 1..e + L + k : Sent(w) = Body(q)[w]
  <2> SUFFICES ASSUME NEW w \in 1..e + L + k PROVE Sent(w) = Body(q)[w] OBVIOUS
  <2>1. CASE w \in 1..e BY <1>12, <2>1
  <2>2. CASE w > e /\ w <= e + L
    <3>1. w - e \in 1..L /\ e + (w - e) = w BY <1>4, <2>2
    <3> QED BY <1>13, <3>1
  <2>3. CASE w > e + L
    <3>1. w - (e + L) \in 1..k /\ e + L + (w - (e + L)) = w BY <1>4, <2>3
    <3> QED BY <1>14, <3>1
  <2> QED BY <1>4, <2>1, <2>2, <2>3
<1>16. [w \in 1..e + L + k |-> Sent(w)] = Body(q) BY <1>6, <1>15
<1> QED BY <1>1, <1>11, <1>16 DEF q

LEMMA RequestsStep == IdsInv /\ RequestsExact /\ [Next]_vars => RequestsExact'
<1> SUFFICES ASSUME IdsInv, RequestsExact, [Next]_vars PROVE RequestsExact' OBVIOUS
<1>1. CASE asked' = <<>> BY <1>1 DEF RequestsExact
<1>2. ASSUME NEW kind \in Kinds, NEW mask \in MasksOf(kind), NEW r \in Requests(kind, mask), Send(r)
      PROVE  RequestsExact'
  <2>1. /\ asked' = <<r>> /\ arrived' = ApplyIDRemap(r.kind, Body(r), r.big) /\ remap' = remap
    BY <1>2 DEF Send, ids
  <2>2. asked'[1] = r BY <2>1
  <2>3. remap = 0 \/ ~Misread(r) => arrived' = Body(Renumbered(r, remap))
    BY <1>2, <2>1, ExactRequest DEF IdsInv
  <2> QED BY <2>1, <2>2, <2>3 DEF RequestsExact
<1>3. CASE UNCHANGED vars
  <2>1. UNCHANGED <<asked, arrived, remap>> BY <1>3 DEF vars, ids, traffic
  <2> QED BY <2>1 DEF RequestsExact
<1>4. CASE Quiet /\ UNCHANGED traffic BY <1>1, <1>4 DEF Quiet, traffic
<1>5. Create \/ (\E b, s, m : Reconnect(b, s, m)) => UNCHANGED traffic BY DEF Create, Reconnect
<1>6. (\E type, body : Receive(type, body)) \/ Passed => asked' = <<>> BY DEF Receive, Passed
<1> QED BY <1>1, <1>2, <1>3, <1>4, <1>5, <1>6 DEF Next, Step

\* A display is sent what the application meant, in its own numbering, wherever the
\* value mask and the length of the request put the identifiers (client.go, applyIDRemap).
THEOREM RequestsMeant == Spec => []RequestsExact
<1>1. Init => RequestsExact BY DEF Init, RequestsExact
<1>2. Spec => []IdsInv
  <2>1. Init => IdsInv BY IdsInit
  <2> QED BY <2>1, IdsStep, PTL DEF Spec
<1> QED BY <1>1, <1>2, RequestsStep, PTL DEF Spec

\* An event names a resource of the application as the application does, the root as
\* it is, and nothing that was invented as something of the application's (client.go,
\* applyEventReverseRemap).
THEOREM EventsMeant == Spec => []EventsExact
<1>1. Init => EventsExact BY DEF Init, EventsExact
<1>2. Spec => []IdsInv
  <2>1. Init => IdsInv BY IdsInit
  <2> QED BY <2>1, IdsStep, PTL DEF Spec
<1> QED BY <1>1, <1>2, EventsStep, PTL DEF Spec
=============================================================================
