------------------------- MODULE ApolloConfigProofs -------------------------
(***************************************************************************)
(* Proofs about ApolloConfig.  LongPoll stores the number it was notified  *)
(* of, which says nothing about what the callback put into the table.  The *)
(* inductive invariant therefore follows a round: every namespace in it is *)
(* there once, with a number above the one stored and not above Apollo's;  *)
(* as long as Apollo has published nothing since, what was fetched is the  *)
(* newest release; and the callback has stored the keys it is past.        *)
(***************************************************************************)
EXTENDS ApolloConfig, SequenceTheorems, FiniteSetTheorems, TLAPS

AllReleases == UNION {Releases(ns) : ns \in NS}

\* Where the poller works a round off.
InRound  == {"get", "ack", "host", "topic", "port", "kafka"}
Updating == {"host", "topic", "port", "kafka"}

\* TypeOK with the domains of what it leaves open.
TypesInv ==
  /\ TypeOK
  /\ server \in [NS -> [id : 1..MaxId, conf : AllReleases]]
  /\ conf \in [Keys -> Hosts \cup Topics \cup Ports \cup {Empty}]
  /\ seen \in [host : Hosts \cup {Empty}, topic : Topics \cup {Empty}]

\* No stored number is above Apollo's; a round's are between the two, and no
\* namespace is in a round twice.
RoundInv ==
  /\ \A ns \in NS : notified[ns] <= server[ns].id
  /\ \A i \in 1..Len(pending) :
       /\ notified[pending[i].ns] < pending[i].id
       /\ pending[i].id <= server[pending[i].ns].id
  /\ \A i, j \in 1..Len(pending) : pending[i].ns = pending[j].ns => i = j
  /\ poller \in InRound => Len(pending) > 0

\* The namespace that is being worked off, and whether Apollo has published
\* nothing of it since it told its number.
Current == pending[1].ns
Fresh   == server[Current].id = pending[1].id

\* The keys that the callback has stored.
Stored ==
  CASE poller = "topic" -> {"host"}
    [] poller = "kafka" -> {"host", "topic"}
    [] OTHER            -> {}

CallbackInv ==
  /\ poller \in Updating =>
       /\ Current = IF poller = "port" THEN "application" ELSE "datawork-common"
       /\ got \in Releases(Current)
       /\ Fresh => got = server[Current].conf
       /\ \A k \in Stored : got[k] \in {Empty, conf[k]}
  /\ poller = "ack" /\ Current \notin missed /\ Fresh => Applied(Current)

IInv == TypesInv /\ RoundInv /\ CallbackInv /\ AckedIsApplied

-----------------------------------------------------------------------------
(* What a release can say *)

LEMMA ReleaseValues ==
  ASSUME NEW ns \in NS, NEW r \in Releases(ns)
  PROVE  /\ r \in AllReleases
         /\ \A k \in KeysOf(ns) : r[k] \in Values(k) \cup {Empty}
  BY DEF Releases, AllReleases

LEMMA TwoKeys == KeysOf("datawork-common") = {"host", "topic"} /\ KeysOf("application") = {"port"}
  BY DEF KeysOf

LEMMA OwnKeys == ASSUME NEW ns \in NS PROVE KeysOf(ns) \subseteq Keys
  BY DEF KeysOf, Keys, NS

LEMMA ThreeValues == Values("host") = Hosts /\ Values("topic") = Topics /\ Values("port") = Ports
  BY DEF Values

\* The numbers that are compared.
LEMMA NumberTypes ==
  ASSUME TypesInv
  PROVE  /\ \A ns \in NS : notified[ns] \in Int /\ server[ns].id \in Int
         /\ \A i \in 1..Len(pending) : pending[i].ns \in NS /\ pending[i].id \in Int
<1>1. \A ns \in NS : notified[ns] \in {-1} \cup 1..MaxId
  BY Zenon DEF TypesInv, TypeOK
<1>2. \A ns \in NS : server[ns].id \in 1..MaxId
  BY DEF TypesInv, TypeOK
<1>3. \A i \in 1..Len(pending) : pending[i] \in [ns : NS, id : 1..MaxId]
  <2>1. pending \in Seq([ns : NS, id : 1..MaxId])
    BY DEF TypesInv, TypeOK
  <2> QED
    BY <2>1, ElementOfSeq
<1> QED
  BY <1>1, <1>2, <1>3

-----------------------------------------------------------------------------
(* Steps that leave the round alone *)

\* What the round's invariants are about does not change.
LEMMA RoundKept ==
  ASSUME RoundInv, CallbackInv, AckedIsApplied,
         UNCHANGED <<server, notified, pending, got, poller, conf, missed>>
  PROVE  RoundInv' /\ CallbackInv' /\ AckedIsApplied'
<1>1. RoundInv'
  BY DEF RoundInv
<1>2. Current' = Current /\ Fresh' = Fresh /\ Stored' = Stored
  BY DEF Current, Fresh, Stored
<1>3. CallbackInv'
  BY <1>2 DEF CallbackInv, Applied
<1>4. AckedIsApplied'
  BY DEF AckedIsApplied, Applied
<1> QED
  BY <1>1, <1>3, <1>4

\* The poller goes from the end of a round to another one, or for good.
LEMMA BetweenRounds ==
  ASSUME RoundInv, AckedIsApplied, poller' \in {"poll", "sent", "end"},
         UNCHANGED <<server, notified, pending, got, conf, missed>>
  PROVE  RoundInv' /\ CallbackInv' /\ AckedIsApplied'
<1>1. RoundInv'
  BY DEF RoundInv, InRound
<1>2. CallbackInv'
  BY DEF CallbackInv, Updating
<1>3. AckedIsApplied'
  BY DEF AckedIsApplied, Applied
<1> QED
  BY <1>1, <1>2, <1>3

LEMMA InitInv == Init => IInv
<1> SUFFICES ASSUME Init PROVE IInv
  OBVIOUS
<1>1. TypesInv
  <2>1. server \in [NS -> [id : 1..MaxId, conf : AllReleases]]
    BY MaxIdAssumption DEF Init, AllReleases
  <2>2. \A ns \in NS : server[ns].id \in 1..MaxId /\ server[ns].conf \in Releases(ns)
    BY <2>1 DEF Init
  <2>3. pending \in Seq([ns : NS, id : 1..MaxId])
    BY DEF Init
  <2> QED
    BY <2>1, <2>2, <2>3 DEF Init, TypesInv, TypeOK, Keys
<1>2. RoundInv
  <2>1. \A ns \in NS : notified[ns] <= server[ns].id
    BY DEF Init
  <2>2. Len(pending) = 0 /\ poller \notin InRound
    BY DEF Init, InRound
  <2> QED
    BY <2>1, <2>2 DEF RoundInv
<1>3. CallbackInv
  BY DEF Init, CallbackInv, Updating
<1>4. AckedIsApplied
  BY DEF Init, AckedIsApplied
<1> QED
  BY <1>1, <1>2, <1>3, <1>4 DEF IInv

\* Another release gets a number above the round's.
LEMMA PublishInv == ASSUME IInv, NEW n \in NS, Publish(n) PROVE IInv'
<1>1. PICK r \in Releases(n) : server' = [server EXCEPT ![n] = [id |-> @.id + 1, conf |-> r]]
  BY DEF Publish
<1>2. /\ server'[n] = [id |-> server[n].id + 1, conf |-> r]
      /\ server[n].id + 1 \in 1..MaxId
      /\ \A ns \in NS : ns # n => server'[ns] = server[ns]
      /\ server' \in [NS -> [id : 1..MaxId, conf : AllReleases]]
  BY <1>1, ReleaseValues, MaxIdAssumption DEF IInv, TypesInv, Publish
<1>3. TypesInv'
  BY <1>2 DEF IInv, TypesInv, TypeOK, Publish, bootVars
<1>4. \A ns \in NS : server[ns].id \in Int /\ server[ns].id <= server'[ns].id
  BY <1>2 DEF IInv, TypesInv
<1>5. /\ pending' = pending /\ notified' = notified /\ poller' = poller
      /\ \A ns \in NS : notified[ns] \in Int
      /\ \A i \in 1..Len(pending) : pending[i].ns \in NS /\ pending[i].id \in Int
  BY NumberTypes DEF Publish, IInv
<1>6. RoundInv'
  <2>1. \A ns \in NS : notified[ns] <= server'[ns].id
    BY <1>2, <1>4, <1>5 DEF IInv, RoundInv
  <2>2. ASSUME NEW i \in 1..Len(pending)
        PROVE  pending[i].id <= server'[pending[i].ns].id
    <3>1. pending[i].id <= server[pending[i].ns].id /\ server'[pending[i].ns].id \in Int
      BY <1>2, <1>5 DEF IInv, RoundInv
    <3> QED
      BY <1>4, <1>5, <3>1
  <2> QED
    BY <1>5, <2>1, <2>2 DEF IInv, RoundInv
<1>7. CallbackInv'
  <2>1. CASE poller \notin InRound
    BY <1>5, <2>1 DEF CallbackInv, Updating, InRound
  <2>2. CASE poller \in InRound
    <3>1. /\ Current' = Current /\ Current \in NS /\ Stored' = Stored
          /\ pending[1].id <= server[Current].id /\ pending[1].id \in Int
      BY <1>5, <2>2 DEF IInv, RoundInv, Current, Stored
    <3>2. Fresh' => Current # n /\ Fresh
      BY <1>2, <1>4, <1>5, <3>1 DEF Fresh, Current
    <3>3. Fresh' => server'[Current] = server[Current]
      BY <1>2, <3>1, <3>2
    <3> QED
      BY <3>1, <3>2, <3>3 DEF IInv, CallbackInv, Publish, Applied
  <2> QED
    BY <2>1, <2>2
<1>8. AckedIsApplied'
  <2>1. notified'[n] # server'[n].id
    BY <1>2, <1>4, <1>5 DEF IInv, RoundInv
  <2> QED
    BY <1>2, <1>5, <2>1 DEF IInv, AckedIsApplied, Applied, Publish
<1> QED
  BY <1>3, <1>6, <1>7, <1>8 DEF IInv

-----------------------------------------------------------------------------
(* A round *)

LEMMA FunctionIsSeq ==
  ASSUME NEW S, NEW n \in Nat, NEW f \in [1..n -> S]
  PROVE  f \in Seq(S) /\ Len(f) = n
<1>1. f \in Seq(S)
  BY SeqDef
<1>2. DOMAIN f = 1..Len(f) /\ Len(f) \in Nat /\ DOMAIN f = 1..n
  BY <1>1, LenProperties
<1> QED
  BY <1>1, <1>2

LEMMA PairCardinality == ASSUME NEW x, NEW y, x # y PROVE Cardinality({x, y}) = 2
<1>1. IsFiniteSet({x}) /\ Cardinality({x}) = 1
  BY FS_Singleton
<1>2. Cardinality({x} \cup {y}) = Cardinality({x}) + 1
  BY <1>1, FS_AddElement
<1>3. {x} \cup {y} = {x, y}
  OBVIOUS
<1> QED
  BY <1>1, <1>2, <1>3

\* A list as long as there are namespaces in it names none twice.
LEMMA NamedOnce ==
  ASSUME NEW S \in SUBSET NS, NEW order \in [1..Cardinality(S) -> S],
         \A ns \in S : \E i \in DOMAIN order : order[i] = ns
  PROVE  /\ Cardinality(S) \in Nat
         /\ \A i, j \in 1..Cardinality(S) : order[i] = order[j] => i = j
<1> DEFINE a == "datawork-common"
           b == "application"
<1>1. CASE S = {}
  <2>1. Cardinality(S) = 0
    BY <1>1, FS_EmptySet
  <2> QED
    BY <2>1
<1>2. CASE S = {a} \/ S = {b}
  <2>1. Cardinality(S) = 1
    BY <1>2, FS_Singleton
  <2> QED
    BY <2>1
<1>3. CASE S = {a, b}
  <2>1. Cardinality(S) = 2
    BY <1>3, PairCardinality
  <2> QED
    BY <1>3, <2>1
<1> QED
  BY <1>1, <1>2, <1>3 DEF NS

LEMMA PollAnsweredInv == ASSUME IInv, PollAnswered PROVE IInv'
<1>1. PICK order \in [1..Cardinality(Newer) -> Newer] :
        /\ \A ns \in Newer : \E i \in DOMAIN order : order[i] = ns
        /\ pending' = [i \in DOMAIN order |-> [ns |-> order[i], id |-> server[order[i]].id]]
  BY DEF PollAnswered
<1> DEFINE N == Cardinality(Newer)
<1>2. Newer \subseteq NS /\ \A ns \in Newer : notified[ns] < server[ns].id
  BY NumberTypes DEF Newer, IInv
<1>3. N \in Nat /\ \A i, j \in 1..N : order[i] = order[j] => i = j
  BY <1>1, <1>2, NamedOnce
<1>4. N > 0
  <2>1. \E ns \in Newer : TRUE
    BY DEF PollAnswered
  <2> QED
    BY <1>1, <1>3, <2>1
<1>5. \A i \in 1..N : /\ order[i] \in Newer
                      /\ [ns |-> order[i], id |-> server[order[i]].id] \in [ns : NS, id : 1..MaxId]
  BY <1>1, <1>2 DEF IInv, TypesInv
<1>6. /\ pending' \in Seq([ns : NS, id : 1..MaxId]) /\ Len(pending') = N
      /\ \A i \in 1..N : pending'[i] = [ns |-> order[i], id |-> server[order[i]].id]
  <2>1. pending' = [i \in 1..N |-> [ns |-> order[i], id |-> server[order[i]].id]]
    BY <1>1
  <2>2. pending' \in [1..N -> [ns : NS, id : 1..MaxId]]
    BY <1>5, <2>1
  <2>3. pending' \in Seq([ns : NS, id : 1..MaxId]) /\ Len(pending') = N
    <3>1. ASSUME NEW n \in Nat, NEW S, pending' \in [1..n -> S]
          PROVE  pending' \in Seq(S) /\ Len(pending') = n
      BY <3>1, FunctionIsSeq
    <3>2. N \in Nat
      BY <1>3
    <3> HIDE DEF N
    <3> QED
      BY <2>2, <3>1, <3>2, Zenon
  <2> QED
    BY <2>1, <2>3
<1>7. TypesInv'
  BY <1>6 DEF IInv, TypesInv, TypeOK, PollAnswered, bootVars
<1>8. RoundInv'
  <2>1. UNCHANGED <<server, notified>>
    BY DEF PollAnswered
  <2>2. \A i \in 1..N : /\ pending'[i].ns = order[i] /\ pending'[i].id = server[order[i]].id
                        /\ order[i] \in NS /\ server[order[i]].id \in Int
    BY <1>2, <1>5, <1>6, NumberTypes DEF IInv
  <2>3. \A i \in 1..N : /\ notified[pending'[i].ns] < pending'[i].id
                        /\ pending'[i].id <= server[pending'[i].ns].id
    BY <1>2, <1>5, <2>2
  <2>4. \A i, j \in 1..N : pending'[i].ns = pending'[j].ns => i = j
    BY <1>3, <2>2
  <2> QED
    BY <1>4, <1>6, <2>1, <2>3, <2>4 DEF IInv, RoundInv
<1>9. CallbackInv' /\ AckedIsApplied'
  BY DEF IInv, CallbackInv, Updating, AckedIsApplied, Applied, PollAnswered
<1> QED
  BY <1>7, <1>8, <1>9 DEF IInv

\* The first of a round.
LEMMA CurrentFacts ==
  ASSUME IInv, poller \in InRound
  PROVE  /\ Current \in NS /\ Head(pending) = pending[1] /\ Current = Head(pending).ns
         /\ pending[1].id \in 1..MaxId /\ pending # <<>> /\ 1 \in 1..Len(pending)
         /\ notified[Current] < pending[1].id /\ pending[1].id <= server[Current].id
         /\ notified[Current] # server[Current].id
<1>1. pending \in Seq([ns : NS, id : 1..MaxId])
  BY DEF IInv, TypesInv, TypeOK
<1>2. Len(pending) > 0 /\ Len(pending) \in Nat
  BY <1>1 DEF IInv, RoundInv
<1>3. 1 \in 1..Len(pending) /\ pending # <<>> /\ Head(pending) = pending[1]
  BY <1>1, <1>2
<1>4. pending[1] \in [ns : NS, id : 1..MaxId]
  BY <1>1, <1>3, ElementOfSeq
<1>5. notified[Current] < pending[1].id /\ pending[1].id <= server[Current].id
  BY <1>3 DEF IInv, RoundInv, Current
<1> QED
  BY <1>3, <1>4, <1>5, NumberTypes DEF Current, IInv

LEMMA UNCachedHTTPGetInv == ASSUME IInv, UNCachedHTTPGet PROVE IInv'
<1>1. /\ poller \in InRound
      /\ UNCHANGED <<server, notified, pending, conf, topic, bootVars, stopping>>
  BY DEF UNCachedHTTPGet, InRound
<1>2. /\ Current \in NS /\ Current = Head(pending).ns /\ Current' = Current /\ Fresh' = Fresh
      /\ notified[Current] # server[Current].id
  BY <1>1, CurrentFacts DEF Current, Fresh
<1>3. TypesInv'
  BY <1>1, <1>2 DEF UNCachedHTTPGet, IInv, TypesInv, TypeOK, bootVars
<1>4. RoundInv'
  BY <1>1 DEF IInv, RoundInv, InRound
<1>5. AckedIsApplied'
  BY <1>1, <1>2 DEF UNCachedHTTPGet, IInv, AckedIsApplied, Applied
<1>6. CallbackInv'
  <2>1. CASE /\ got' = server[Current].conf
             /\ poller' = IF Current = "application" THEN "port" ELSE "host"
             /\ missed' = missed \ {Current}
    <3>1. server[Current].conf \in Releases(Current)
      BY <1>2 DEF IInv, TypesInv, TypeOK
    <3>2. Stored' = {}
      BY <2>1 DEF Stored
    <3> QED
      BY <1>1, <1>2, <2>1, <3>1, <3>2 DEF CallbackInv, NS
  <2>2. CASE poller' = "ack" /\ missed' = missed \cup {Current}
    BY <1>2, <2>2 DEF CallbackInv, Updating
  <2> QED
    BY <1>2, <2>1, <2>2 DEF UNCachedHTTPGet
<1> QED
  BY <1>3, <1>4, <1>5, <1>6 DEF IInv

\* The number is stored; by then the round's release is in the table.
LEMMA AckInv == ASSUME IInv, Ack PROVE IInv'
<1> DEFINE n == pending[1].id
<1>1. /\ poller \in InRound
      /\ UNCHANGED <<server, conf, topic, producer, seen, stopping, missed>>
  BY DEF Ack, InRound
<1>2. /\ Current \in NS /\ Current = Head(pending).ns /\ Head(pending).id = n
      /\ n \in 1..MaxId /\ n <= server[Current].id /\ pending # <<>> /\ 1 \in 1..Len(pending)
  BY <1>1, CurrentFacts
<1>3. /\ notified' = [notified EXCEPT ![Current] = n]
      /\ notified'[Current] = n
      /\ \A ns \in NS : ns # Current => notified'[ns] = notified[ns]
      /\ notified' \in [NS -> {-1} \cup 1..MaxId]
  BY <1>2 DEF Ack, IInv, TypesInv, TypeOK
<1>4. pending \in Seq([ns : NS, id : 1..MaxId])
  BY DEF IInv, TypesInv, TypeOK
<1>5. /\ pending' = Tail(pending) /\ pending' \in Seq([ns : NS, id : 1..MaxId])
      /\ Len(pending') = Len(pending) - 1 /\ Len(pending) \in Nat
      /\ \A i \in 1..Len(pending') : pending'[i] = pending[i + 1]
  BY <1>2, <1>4, HeadTailProperties, LenProperties DEF Ack
<1>6. TypesInv'
  <2>1. main' \in {"start", "host", "topic", "init", "run", "join", "stopped"}
    BY DEF Ack, RoundOver, IInv, TypesInv, TypeOK
  <2>2. poller' \in {"poll", "get"}
    BY DEF Ack
  <2> QED
    BY <1>1, <1>3, <1>5, <2>1, <2>2 DEF IInv, TypesInv, TypeOK
<1>7. RoundInv'
  <2>1. \A ns \in NS : notified'[ns] <= server[ns].id
    BY <1>2, <1>3 DEF IInv, RoundInv
  <2>2. \A i \in 1..Len(pending') :
          /\ i + 1 \in 1..Len(pending) /\ pending'[i] = pending[i + 1]
          /\ pending[i + 1].ns # Current /\ pending[i + 1].ns \in NS
    <3>1. \A i \in 1..Len(pending') : i + 1 \in 1..Len(pending) /\ i + 1 # 1
      BY <1>5
    <3>2. \A i \in 1..Len(pending) : pending[i].ns \in NS
      BY NumberTypes DEF IInv
    <3> QED
      BY <1>2, <1>5, <3>1, <3>2 DEF IInv, RoundInv, Current
  <2>3. \A i \in 1..Len(pending') : /\ notified'[pending'[i].ns] < pending'[i].id
                                    /\ pending'[i].id <= server[pending'[i].ns].id
    BY <1>3, <2>2 DEF IInv, RoundInv
  <2>4. \A i, j \in 1..Len(pending') : pending'[i].ns = pending'[j].ns => i = j
    <3>1. ASSUME NEW i \in 1..Len(pending'), NEW j \in 1..Len(pending'),
                 pending'[i].ns = pending'[j].ns
          PROVE  i = j
      <4>1. i + 1 = j + 1
        BY <2>2, <3>1 DEF IInv, RoundInv
      <4> QED
        BY <4>1
    <3> QED
      BY <3>1
  <2>5. poller' \in InRound => Len(pending') > 0
    BY <1>2, <1>5 DEF Ack, InRound
  <2> QED
    BY <1>1, <2>1, <2>3, <2>4, <2>5 DEF RoundInv
<1>8. CallbackInv'
  BY DEF Ack, CallbackInv, Updating
<1>9. AckedIsApplied'
  <2>1. Current \notin missed /\ server[Current].id = n => Applied(Current)
    BY DEF IInv, CallbackInv, Fresh, Ack
  <2>2. \A ns \in NS : Applied(ns)' = Applied(ns)
    BY <1>1 DEF Applied
  <2> QED
    BY <1>1, <1>2, <1>3, <2>1, <2>2 DEF IInv, AckedIsApplied
<1> QED
  BY <1>6, <1>7, <1>8, <1>9 DEF IInv

-----------------------------------------------------------------------------
(* The callback *)

\* SetValue stores a value, keeps the old one instead of an empty one, and
\* leaves the other keys alone.
LEMMA SetValueFacts ==
  ASSUME TypesInv, NEW k \in Keys, NEW v \in Values(k) \cup {Empty}, conf' = SetValue(k, v)
  PROVE  /\ v \in {Empty, conf'[k]}
         /\ \A l \in Keys : l # k => conf'[l] = conf[l]
         /\ \A l \in Keys : conf'[l] \in Values(l) \cup {Empty}
         /\ conf' \in [Keys -> Hosts \cup Topics \cup Ports \cup {Empty}]
<1>1. Values(k) \subseteq Hosts \cup Topics \cup Ports
  BY ThreeValues DEF Keys
<1>2. /\ conf'[k] = IF v = Empty THEN conf[k] ELSE v
      /\ \A l \in Keys : l # k => conf'[l] = conf[l]
      /\ conf' \in [Keys -> Hosts \cup Topics \cup Ports \cup {Empty}]
  BY <1>1 DEF SetValue, TypesInv
<1> QED
  BY <1>2 DEF TypesInv, TypeOK

\* A step of the callback on a key of the current namespace keeps all but what
\* is said about where the callback is.
LEMMA StoreStep ==
  ASSUME IInv, poller \in Updating, poller' \in InRound,
         NEW k \in KeysOf(Current), conf' = SetValue(k, got[k]),
         UNCHANGED <<server, notified, pending, got, topic, bootVars, stopping, missed>>
  PROVE  /\ TypesInv' /\ RoundInv' /\ AckedIsApplied'
         /\ Current' = Current /\ Fresh' = Fresh /\ Current \in NS
         /\ got[k] \in {Empty, conf'[k]}
         /\ \A l \in Keys : l # k => conf'[l] = conf[l]
<1>1. /\ Current \in NS /\ notified[Current] # server[Current].id
      /\ Current' = Current /\ Fresh' = Fresh
  BY CurrentFacts DEF Updating, InRound, Current, Fresh
<1>2. k \in Keys /\ got[k] \in Values(k) \cup {Empty}
  BY <1>1, OwnKeys, ReleaseValues DEF IInv, CallbackInv
<1>3. /\ got[k] \in {Empty, conf'[k]}
      /\ \A l \in Keys : l # k => conf'[l] = conf[l]
      /\ \A l \in Keys : conf'[l] \in Values(l) \cup {Empty}
      /\ conf' \in [Keys -> Hosts \cup Topics \cup Ports \cup {Empty}]
  BY <1>2, SetValueFacts DEF IInv
<1>4. TypesInv'
  BY <1>3 DEF IInv, TypesInv, TypeOK, InRound, bootVars
<1>5. RoundInv'
  BY DEF IInv, RoundInv, Updating, InRound
<1>6. AckedIsApplied'
  <2>1. ASSUME NEW ns \in NS, ns # Current, Applied(ns) PROVE Applied(ns)'
    <3>1. k \notin KeysOf(ns) /\ KeysOf(ns) \subseteq Keys
      BY <1>1, <2>1, OwnKeys, TwoKeys DEF NS
    <3> QED
      BY <1>3, <2>1, <3>1 DEF Applied
  <2> QED
    BY <1>1, <2>1 DEF IInv, AckedIsApplied
<1> QED
  BY <1>1, <1>3, <1>4, <1>5, <1>6

LEMMA UpdateConfInv == ASSUME IInv, UpdateConf PROVE IInv'
<1>1. Current = "application" /\ (Fresh => got = server[Current].conf)
  BY DEF IInv, CallbackInv, Updating, UpdateConf
<1>2. /\ "port" \in KeysOf(Current) /\ KeysOf(Current) = {"port"}
  BY <1>1, TwoKeys
<1>3. /\ TypesInv' /\ RoundInv' /\ AckedIsApplied' /\ Current' = Current /\ Fresh' = Fresh
      /\ got["port"] \in {Empty, conf'["port"]}
  BY <1>2, StoreStep DEF UpdateConf, Updating, InRound
<1>4. CallbackInv'
  BY <1>1, <1>2, <1>3 DEF UpdateConf, CallbackInv, Updating, Applied
<1> QED
  BY <1>3, <1>4 DEF IInv

LEMMA UpdateHostInv == ASSUME IInv, UpdateHost PROVE IInv'
<1>1. /\ Current = "datawork-common" /\ got \in Releases(Current)
      /\ Fresh => got = server[Current].conf
  BY DEF IInv, CallbackInv, Updating, UpdateHost
<1>2. "host" \in KeysOf(Current)
  BY <1>1, TwoKeys
<1>3. /\ TypesInv' /\ RoundInv' /\ AckedIsApplied' /\ Current' = Current /\ Fresh' = Fresh
      /\ got["host"] \in {Empty, conf'["host"]}
  BY <1>2, StoreStep DEF UpdateHost, Updating, InRound
<1>4. Stored' = {"host"}
  BY DEF Stored, UpdateHost
<1>5. CallbackInv'
  BY <1>1, <1>3, <1>4 DEF UpdateHost, CallbackInv, Updating
<1> QED
  BY <1>3, <1>5 DEF IInv

LEMMA UpdateTopicInv == ASSUME IInv, UpdateTopic PROVE IInv'
<1>1. Stored = {"host"}
  BY DEF Stored, UpdateTopic
<1>2. /\ Current = "datawork-common" /\ got \in Releases(Current)
      /\ Fresh => got = server[Current].conf
      /\ got["host"] \in {Empty, conf["host"]}
  BY <1>1 DEF IInv, CallbackInv, Updating, UpdateTopic
<1>3. "topic" \in KeysOf(Current)
  BY <1>2, TwoKeys
<1>4. /\ TypesInv' /\ RoundInv' /\ AckedIsApplied' /\ Current' = Current /\ Fresh' = Fresh
      /\ got["topic"] \in {Empty, conf'["topic"]}
      /\ \A l \in Keys : l # "topic" => conf'[l] = conf[l]
  BY <1>3, StoreStep DEF UpdateTopic, Updating, InRound
<1>5. Stored' = {"host", "topic"} /\ conf'["host"] = conf["host"]
  BY <1>4 DEF Stored, UpdateTopic, Keys
<1>6. CallbackInv'
  BY <1>2, <1>4, <1>5 DEF UpdateTopic, CallbackInv, Updating
<1> QED
  BY <1>4, <1>6 DEF IInv

LEMMA UpdateKafkaInv == ASSUME IInv, UpdateKafka PROVE IInv'
<1>1. Stored = {"host", "topic"}
  BY DEF Stored, UpdateKafka
<1>2. /\ Current = "datawork-common" /\ got \in Releases(Current)
      /\ Fresh => got = server[Current].conf
      /\ got["host"] \in {Empty, conf["host"]} /\ got["topic"] \in {Empty, conf["topic"]}
  BY <1>1 DEF IInv, CallbackInv, Updating, UpdateKafka
<1>3. KeysOf(Current) = {"host", "topic"}
  BY <1>2, TwoKeys
<1>4. TypesInv'
  <2>1. got["topic"] \in Topics \cup {Empty}
    BY <1>2, <1>3, ReleaseValues, ThreeValues DEF NS
  <2> QED
    BY <2>1 DEF UpdateKafka, IInv, TypesInv, TypeOK, bootVars
<1>5. RoundInv'
  BY DEF UpdateKafka, IInv, RoundInv, InRound
<1>6. Current' = Current /\ Fresh' = Fresh
  BY DEF UpdateKafka, Current, Fresh
<1>7. CallbackInv'
  BY <1>2, <1>3, <1>6 DEF UpdateKafka, CallbackInv, Updating, Applied
<1>8. AckedIsApplied'
  BY DEF UpdateKafka, IInv, AckedIsApplied, Applied
<1> QED
  BY <1>4, <1>5, <1>7, <1>8 DEF IInv

-----------------------------------------------------------------------------
(* The main thread, and the theorems *)

LEMMA ReadValue == ASSUME TypesInv, NEW k \in Keys, NEW v \in GetValue(k)
                   PROVE  v \in Values(k) \cup {Empty}
  BY DEF GetValue, TypesInv, TypeOK

\* InitKafka, Stop and join leave the round alone.
LEMMA MainInv == ASSUME IInv, InitKafka \/ Stop \/ Joined PROVE IInv'
<1>1. UNCHANGED <<server, notified, pending, got, poller, conf, missed>>
  BY DEF InitKafka, ReadHost, ReadTopic, KafkaInit, Stop, Joined
<1>2. TypesInv'
  <2>1. CASE ReadHost
    <3>1. PICK v \in GetValue("host") : seen' = [seen EXCEPT !.host = v]
      BY <2>1 DEF ReadHost
    <3>2. v \in Hosts \cup {Empty}
      BY <3>1, ReadValue, ThreeValues DEF IInv, Keys
    <3> QED
      BY <1>1, <2>1, <3>1, <3>2 DEF ReadHost, IInv, TypesInv, TypeOK
  <2>2. CASE ReadTopic
    <3>1. PICK v \in GetValue("topic") : seen' = [seen EXCEPT !.topic = v]
      BY <2>2 DEF ReadTopic
    <3>2. v \in Topics \cup {Empty}
      BY <3>1, ReadValue, ThreeValues DEF IInv, Keys
    <3> QED
      BY <1>1, <2>2, <3>1, <3>2 DEF ReadTopic, IInv, TypesInv, TypeOK
  <2>3. CASE KafkaInit
    BY <1>1, <2>3 DEF KafkaInit, IInv, TypesInv, TypeOK
  <2>4. CASE Stop \/ Joined
    BY <1>1, <2>4 DEF Stop, Joined, IInv, TypesInv, TypeOK
  <2> QED
    BY <2>1, <2>2, <2>3, <2>4 DEF InitKafka
<1> QED
  BY <1>1, <1>2, RoundKept DEF IInv

LEMMA PollStepsInv == ASSUME IInv, SendPoll \/ PollFailed \/ ListenerEnds PROVE IInv'
<1>1. /\ poller' \in {"poll", "sent", "end"}
      /\ UNCHANGED <<server, notified, pending, got, conf, missed>>
  BY DEF SendPoll, PollFailed, ListenerEnds
<1>2. /\ main' \in {"start", "host", "topic", "init", "run", "join", "stopped"}
      /\ UNCHANGED <<topic, producer, seen, stopping>>
  BY DEF SendPoll, PollFailed, ListenerEnds, RoundOver, IInv, TypesInv, TypeOK, bootVars
<1>3. TypesInv'
  BY <1>1, <1>2 DEF IInv, TypesInv, TypeOK
<1> QED
  BY <1>1, <1>3, BetweenRounds DEF IInv

LEMMA NextInv == IInv /\ [Next]_vars => IInv'
<1> SUFFICES ASSUME IInv, [Next]_vars PROVE IInv'
  OBVIOUS
<1>1. CASE \E ns \in NS : Publish(ns)
  BY <1>1, PublishInv
<1>2. CASE SendPoll \/ PollFailed \/ ListenerEnds
  BY <1>2, PollStepsInv
<1>3. CASE PollAnswered
  BY <1>3, PollAnsweredInv
<1>4. CASE UNCachedHTTPGet
  BY <1>4, UNCachedHTTPGetInv
<1>5. CASE Ack
  BY <1>5, AckInv
<1>6. CASE Callback
  BY <1>6, UpdateConfInv, UpdateHostInv, UpdateTopicInv, UpdateKafkaInv DEF Callback
<1>7. CASE InitKafka \/ Stop \/ Joined
  BY <1>7, MainInv
<1>8. CASE UNCHANGED vars
  <2>1. TypesInv'
    BY <1>8 DEF vars, IInv, TypesInv, TypeOK
  <2> QED
    BY <1>8, <2>1, RoundKept DEF vars, IInv
<1> QED
  BY <1>1, <1>2, <1>3, <1>4, <1>5, <1>6, <1>7, <1>8 DEF Next, Poller

\* The inductive invariant holds throughout.
THEOREM Invariance == Spec => []IInv
  BY InitInv, NextInv, PTL DEF Spec

\* The types of LongPoll's maps, the parameter table and KafkaClient's fields.
THEOREM TypeCorrect == Spec => []TypeOK
<1>1. IInv => TypeOK
  BY DEF IInv, TypesInv
<1> QED
  BY <1>1, Invariance, PTL

\* Whatever is published while LongPoll works a round off, a number it has
\* stored that is Apollo's newest belongs to a release that the callback has
\* put into the table, unless its fetch failed.
THEOREM StoredIsApplied == Spec => []AckedIsApplied
<1>1. IInv => AckedIsApplied
  BY DEF IInv
<1> QED
  BY <1>1, Invariance, PTL

=============================================================================
