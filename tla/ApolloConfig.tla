---------------------------- MODULE ApolloConfig ----------------------------
(***************************************************************************)
(* Configuration from Apollo: the long-polling client                      *)
(* (common/apollo_client.cpp), the callback ConnectApollo installs and     *)
(* InitKafka (init_server.cpp), the parameter table (common/conf_param.h)  *)
(* and the topic and producer of common/kafka_client.cpp.                  *)
(*                                                                         *)
(* The first LongPoll runs on the main thread, which then goes on with     *)
(* InitKafka while the Listener thread polls.  Nothing of what the two     *)
(* threads share is locked, so each access to it is a step of its own.     *)
(***************************************************************************)
EXTENDS Integers, Sequences, FiniteSets

CONSTANTS Hosts, Topics, Ports,  \* values a release may give to the keys
          MaxId,                 \* bound on the releases of a namespace
          Faults                 \* {"get"}: fetching a configuration may fail

ASSUME MaxIdAssumption  == MaxId \in Nat \ {0}
ASSUME FaultsAssumption == Faults \subseteq {"get"}

Empty == ""                       \* a key without a value
Torn  == "torn"                   \* a string two threads assigned at once
ASSUME ValuesAssumption == {Empty, Torn, "datawork-image"} \cap (Hosts \cup Topics \cup Ports) = {}

NS == {"datawork-common", "application"}

VARIABLES
  server,    \* Apollo itself: per namespace, the newest release and its number
  notified,  \* _notification_map
  pending,   \* the answer to LongPoll that is still to be worked off
  got,       \* data_dict, what UNCachedHTTPGet fetched
  poller,    \* where the thread that polls is
  conf,      \* ConfParam::params_
  topic,     \* KafkaClient::m_topic_
  producer,  \* the host list p_producer_ was created with
  main,      \* where the main thread is
  seen,      \* what InitKafka has read so far
  stopping,  \* _stopping
  missed     \* the namespaces whose last fetch has failed, for the properties

vars == <<server, notified, pending, got, poller, conf, topic, producer, main,
          seen, stopping, missed>>

bootVars == <<producer, main, seen>>

(* One key stands for the keys of "application", whose values nothing in   *)
(* this module depends on.                                                 *)
Keys == {"host", "topic", "port"}
KeysOf(ns) == IF ns = "application" THEN {"port"} ELSE {"host", "topic"}

Values(k) == CASE k = "host"  -> Hosts
               [] k = "topic" -> Topics
               [] k = "port"  -> Ports

\* What a release can say: every key of its namespace has a value or is absent.
Releases(ns) == {r \in [KeysOf(ns) -> Hosts \cup Topics \cup Ports \cup {Empty}] :
                   \A k \in KeysOf(ns) : r[k] \in Values(k) \cup {Empty}}

Nothing == [k \in {} |-> Empty]

Init ==
  /\ server \in [NS -> [id : {1}, conf : UNION {Releases(ns) : ns \in NS}]]
  /\ \A ns \in NS : server[ns].conf \in Releases(ns)
  /\ notified = [ns \in NS |-> -1]
  /\ pending = <<>>
  /\ got = Nothing
  /\ poller = "sent"
  /\ conf = [k \in Keys |-> Empty]
  /\ topic = "datawork-image"
  /\ producer = Empty
  /\ main = "start"
  /\ seen = [host |-> Empty, topic |-> Empty]
  /\ stopping = FALSE
  /\ missed = {}

\* An operator publishes another release of a namespace.
Publish(ns) ==
  /\ server[ns].id < MaxId
  /\ \E r \in Releases(ns) :
       server' = [server EXCEPT ![ns] = [id |-> @.id + 1, conf |-> r]]
  /\ UNCHANGED <<notified, pending, got, poller, conf, topic, bootVars, stopping, missed>>

-----------------------------------------------------------------------------
(* LongPoll *)

\* The first LongPoll runs inside Start on the main thread, which goes on when
\* the round is over.
RoundOver == main' = IF main = "start" THEN "host" ELSE main

\* The namespaces of which Apollo has a newer release than the client has said
\* it knows.
Newer == {ns \in NS : server[ns].id > notified[ns]}

\* while (!_stopping): the Listener sends another poll.
SendPoll ==
  /\ poller = "poll"
  /\ ~stopping
  /\ poller' = "sent"
  /\ UNCHANGED <<server, notified, pending, got, conf, topic, bootVars, stopping, missed>>

\* Apollo answers with the newer namespaces and their numbers, in any order.
PollAnswered ==
  /\ poller = "sent"
  /\ Newer # {}
  /\ \E order \in [1..Cardinality(Newer) -> Newer] :
       /\ \A ns \in Newer : \E i \in DOMAIN order : order[i] = ns
       /\ pending' = [i \in DOMAIN order |-> [ns |-> order[i], id |-> server[order[i]].id]]
  /\ poller' = "get"
  /\ UNCHANGED <<server, notified, got, conf, topic, bootVars, stopping, missed>>

\* LongPoll returns at one of its early exits, a timeout without news included.
PollFailed ==
  /\ poller = "sent"
  /\ poller' = "poll"
  /\ RoundOver
  /\ UNCHANGED <<server, notified, pending, got, conf, topic, producer, seen, stopping, missed>>

\* UNCachedHTTPGet fetches the newest release and calls the callback, or
\* returns at one of its early exits without a word to LongPoll.
UNCachedHTTPGet ==
  /\ poller = "get"
  /\ LET ns == Head(pending).ns
     IN  \/ /\ got' = server[ns].conf
            /\ poller' = IF ns = "application" THEN "port" ELSE "host"
            /\ missed' = missed \ {ns}
         \/ /\ "get" \in Faults
            /\ got' = Nothing
            /\ poller' = "ack"
            /\ missed' = missed \cup {ns}
  /\ UNCHANGED <<server, notified, pending, conf, topic, bootVars, stopping>>

Mut_Ack ==
  /\ poller = "ack"
  /\ notified' = [notified EXCEPT ![Head(pending).ns] = server[Head(pending).ns].id]
  /\ pending' = Tail(pending)
  /\ got' = Nothing
  /\ poller' = IF Len(pending) = 1 THEN "poll" ELSE "get"
  /\ IF Len(pending) = 1 THEN RoundOver ELSE UNCHANGED main
  /\ UNCHANGED <<server, conf, topic, producer, seen, stopping, missed>>
Mut_AckNext ==
  /\ poller = "ack"
  /\ notified' = [notified EXCEPT ![Head(pending).ns] = Head(pending).id + 1]
  /\ pending' = Tail(pending)
  /\ got' = Nothing
  /\ poller' = IF Len(pending) = 1 THEN "poll" ELSE "get"
  /\ IF Len(pending) = 1 THEN RoundOver ELSE UNCHANGED main
  /\ UNCHANGED <<server, conf, topic, producer, seen, stopping, missed>>
\* The namespace's number is stored, whatever UNCachedHTTPGet came to.
Ack ==
  /\ poller = "ack"
  /\ notified' = [notified EXCEPT ![Head(pending).ns] = Head(pending).id]
  /\ pending' = Tail(pending)
  /\ got' = Nothing
  /\ poller' = IF Len(pending) = 1 THEN "poll" ELSE "get"
  /\ IF Len(pending) = 1 THEN RoundOver ELSE UNCHANGED main
  /\ UNCHANGED <<server, conf, topic, producer, seen, stopping, missed>>

-----------------------------------------------------------------------------
(* The callback of ConnectApollo *)

Mut_SetValue(k, v) == [conf EXCEPT ![k] = IF v = Empty \/ @ # Empty THEN @ ELSE v]
\* ConfParam::SetValue refuses an empty value and keeps the old one.
SetValue(k, v) == [conf EXCEPT ![k] = IF v = Empty THEN @ ELSE v]

\* The keys of "application" are stored.
UpdateConf ==
  /\ poller = "port"
  /\ conf' = SetValue("port", got["port"])
  /\ poller' = "ack"
  /\ UNCHANGED <<server, notified, pending, got, topic, bootVars, stopping, missed>>

\* "datawork-common": the broker list is stored ...
UpdateHost ==
  /\ poller = "host"
  /\ conf' = SetValue("host", got["host"])
  /\ poller' = "topic"
  /\ UNCHANGED <<server, notified, pending, got, topic, bootVars, stopping, missed>>

\* ... then the topic ...
UpdateTopic ==
  /\ poller = "topic"
  /\ conf' = SetValue("topic", got["topic"])
  /\ poller' = "kafka"
  /\ UNCHANGED <<server, notified, pending, got, topic, bootVars, stopping, missed>>

\* ... and KafkaClient's own copy of the topic is assigned, an absent one too.
\* Should InitKafka be assigning it as well, the string may come out torn.
UpdateKafka ==
  /\ poller = "kafka"
  /\ topic' \in {got["topic"]} \cup (IF main = "init" THEN {Torn} ELSE {})
  /\ poller' = "ack"
  /\ UNCHANGED <<server, notified, pending, got, conf, bootVars, stopping, missed>>

\* The callback is worked off between UNCachedHTTPGet and Ack.
Callback == UpdateConf \/ UpdateHost \/ UpdateTopic \/ UpdateKafka

-----------------------------------------------------------------------------
(* InitKafka, on the main thread, with the Listener thread running *)

\* GetValue(k, ""): a lookup while the Listener is inserting may miss the key.
GetValue(k) ==
  {conf[k]} \cup (IF poller \in {"host", "topic", "port"} THEN {Empty} ELSE {})

ReadHost ==
  /\ main = "host"
  /\ \E v \in GetValue("host") : seen' = [seen EXCEPT !.host = v]
  /\ main' = "topic"
  /\ UNCHANGED <<server, notified, pending, got, poller, conf, topic, producer, stopping, missed>>

ReadTopic ==
  /\ main = "topic"
  /\ \E v \in GetValue("topic") : seen' = [seen EXCEPT !.topic = v]
  /\ main' = "init"
  /\ UNCHANGED <<server, notified, pending, got, poller, conf, topic, producer, stopping, missed>>

\* KafkaClient::Init stores the topic and creates the one producer.
KafkaInit ==
  /\ main = "init"
  /\ topic' \in {seen.topic} \cup (IF poller = "kafka" THEN {Torn} ELSE {})
  /\ producer' = seen.host
  /\ main' = "run"
  /\ UNCHANGED <<server, notified, pending, got, poller, conf, seen, stopping, missed>>

-----------------------------------------------------------------------------
(* Stop *)

\* ApolloClient::Stop asks the Listener to end and waits for it.
Stop ==
  /\ main = "run"
  /\ stopping' = TRUE
  /\ main' = "join"
  /\ UNCHANGED <<server, notified, pending, got, poller, conf, topic, producer, seen, missed>>

Mut_ListenerEnds ==
  /\ poller = "poll"
  /\ stopping
  /\ UNCHANGED vars
\* while (!_stopping) is left between two polls.
ListenerEnds ==
  /\ poller = "poll"
  /\ stopping
  /\ poller' = "end"
  /\ UNCHANGED <<server, notified, pending, got, conf, topic, bootVars, stopping, missed>>

\* join() returns.
Joined ==
  /\ main = "join"
  /\ poller = "end"
  /\ main' = "stopped"
  /\ UNCHANGED <<server, notified, pending, got, poller, conf, topic, producer,
                 seen, stopping, missed>>

-----------------------------------------------------------------------------
Poller == \/ SendPoll \/ PollAnswered \/ PollFailed \/ UNCachedHTTPGet \/ Ack
          \/ Callback \/ ListenerEnds

InitKafka == ReadHost \/ ReadTopic \/ KafkaInit

Next ==
  \/ \E ns \in NS : Publish(ns)
  \/ Poller
  \/ InitKafka
  \/ Stop
  \/ Joined
  \/ main = "stopped" /\ UNCHANGED vars

Spec == Init /\ [][Next]_vars

\* Both threads keep running, and of the polls sent while Apollo has news not
\* all fail.  Nobody need publish or call Stop.
FairSpec == /\ Spec
            /\ WF_vars(Poller)
            /\ SF_vars(PollAnswered)
            /\ WF_vars(InitKafka)
            /\ WF_vars(Joined)

-----------------------------------------------------------------------------
(* Properties *)

\* Type correctness.
TypeOK ==
  /\ \A ns \in NS : server[ns].id \in 1..MaxId /\ server[ns].conf \in Releases(ns)
  /\ notified \in [NS -> {-1} \cup 1..MaxId]
  /\ pending \in Seq([ns : NS, id : 1..MaxId])
  /\ poller \in {"poll", "sent", "get", "ack", "host", "topic", "port", "kafka", "end"}
  /\ \A k \in Keys : conf[k] \in Values(k) \cup {Empty}
  /\ topic \in Topics \cup {Empty, Torn, "datawork-image"}
  /\ producer \in Hosts \cup {Empty}
  /\ main \in {"start", "host", "topic", "init", "run", "join", "stopped"}
  /\ stopping \in BOOLEAN
  /\ missed \subseteq NS

\* The table holds every value of the release of ns.
Applied(ns) == \A k \in KeysOf(ns) : server[ns].conf[k] \in {Empty, conf[k]}

\* What the client tells Apollo it knows is what it has applied, unless the
\* fetch failed: LongPoll stores the number it was notified of, not a later
\* one, and only after the callback, so no release published meanwhile is
\* skipped.
AckedIsApplied ==
  \A ns \in NS \ missed : notified[ns] = server[ns].id => Applied(ns)

\* The table ends up with the last release's values, except for a namespace
\* whose last fetch failed.
TableConverges ==
  \A ns \in NS : <>[](Applied(ns) \/ ns \in missed \/ stopping)

\* Stop returns, even in the middle of a round of updates.
StopReturns == main = "join" ~> main = "stopped"

\* ConnectApollo, as InitService has it, "connects to apollo and gets the
\* apollo configuration": the table ends up with the last release's values
\* also when a single fetch may fail.
UpdateNotLost == \A ns \in NS : <>[](Applied(ns) \/ stopping)
=============================================================================
