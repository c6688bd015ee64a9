---------------------------- MODULE EurekaClient ----------------------------
(***************************************************************************)
(* The registration of the service with Eureka                             *)
(* (3rdParty/eureka/eureka_client.{h,cpp}): the thread heartBeatTimer with *)
(* its requests POST (registerEureka), PUT (sendHeartBeat) and DELETE      *)
(* (stop_register), the network between, and the registry, which keeps an  *)
(* entry as long as its lease is renewed.                                  *)
(*                                                                         *)
(* Time is whole seconds.  There is no clock: what is left of a sleep, of  *)
(* a transfer's timeout and of the lease runs down together.               *)
(***************************************************************************)
EXTENDS Integers, FiniteSets

CONSTANTS Interval,   \* HEART_BEAT_INTERVAL, 3
          Timeout,    \* CURLOPT_TIMEOUT of the three requests, 3
          Duration,   \* durationInSecs of the lease, 10
          MaxTry,     \* max_try_count, 6
          StopTries,  \* 3 in stop_register
          Faults      \* "network", "late", "refuse", "forget", and the service's

ASSUME EurekaAssumption ==
  /\ Interval \in Nat \ {0} /\ Timeout \in Nat \ {0} /\ Duration \in Nat
  /\ MaxTry \in Nat /\ StopTries \in Nat \ {0}
\* An answered heartbeat may have been executed when it was sent, and the next
\* one may be executed as late as its timeout.
ASSUME LeaseAssumption == Timeout + Interval + Timeout < Duration

VARIABLES
  url,        \* m_register_url and m_app_name are Apollo's, not empty
  running,    \* m_thread_running
  pc,         \* where heartBeatTimer is
  wait,       \* what is left of its sleep or of its transfer's timeout
  try_count,  \* try_count
  res,        \* the result of the last request that ended
  try_times,  \* try_times of stop_register
  net,        \* the transfer: none, "sent", or the answer on its way
  late,       \* requests the client gave up and the registry may still execute
  entry,      \* the registry's entry: none, the client's, or by a stray request
  lease       \* what is left of the entry's lease

eureka == <<url, running, pc, wait, try_count, res, try_times, net, late, entry, lease>>
thread == <<url, running, pc, wait, try_count, res, try_times, net>>

Posting  == "POST"
Putting  == "PUT"
Deleting == "DELETE"
Transfers == {Posting, Putting, Deleting}
\* The loop of heartBeatTimer, its first registration included.
Loop == {Posting, Putting, "sleep"}

EurekaInit ==
  /\ url = FALSE
  /\ running = FALSE
  /\ pc = "off"
  /\ wait = 0
  /\ try_count = 0
  /\ res = -1
  /\ try_times = 0
  /\ net = "none"
  /\ late = {}
  /\ entry = "none"
  /\ lease = 0

-----------------------------------------------------------------------------
(* The thread *)

\* curl_easy_perform begins; without a URL it reaches nobody.
Perform(request, known) ==
  pc' = request /\ wait' = Timeout /\ net' = (IF known THEN "sent" ELSE "none")

Sleep(label, seconds) == pc' = label /\ wait' = seconds /\ net' = "none"

Mut_SleepInterval == Sleep("sleep", Interval + 1)
\* sleep_for(time_interval)
SleepInterval == Sleep("sleep", Interval)

Mut_LoopTest == SleepInterval
\* while (m_thread_running): another round, or the second before stop_register.
LoopTest == IF running THEN SleepInterval ELSE Sleep("pause", 1)

\* The client is made, with Apollo's settings or with empty ones, and keeps
\* them; run(): the thread starts and registers first.
run(known) ==
  /\ pc = "off"
  /\ url' = known
  /\ running' = TRUE
  /\ Perform(Posting, known)
  /\ try_count' = 0
  /\ try_times' = 0
  /\ UNCHANGED <<res, late, entry, lease>>

\* The sleep is over: a heartbeat, or a registration when too many failed.
SleepOver ==
  /\ pc = "sleep" /\ wait = 0
  /\ Perform(IF try_count > MaxTry THEN Posting ELSE Putting, url)
  /\ UNCHANGED <<url, running, try_count, res, try_times, late, entry, lease>>

Mut_TryCount(r) ==
  CASE pc = Posting /\ r = 0  -> 0
    [] pc = Putting /\ r = -1 -> try_count + 1
    [] OTHER                  -> try_count
\* What the loop makes of a result: 0, -1 for a curl error, -2 for any other
\* status than the expected one.  A good heartbeat resets nothing.
TryCount(r) ==
  CASE pc = Posting /\ r = 0  -> 0
    [] pc = Putting /\ r = -1 -> try_count + 1
    [] pc = Putting /\ r = -2 -> MaxTry + 1
    [] OTHER                  -> try_count

\* The request that is under way ends with r.
Return(r) ==
  /\ res' = r
  /\ try_count' = TryCount(r)
  /\ \/ /\ pc # Deleting
        /\ LoopTest
        /\ UNCHANGED try_times
     \/ /\ pc = Deleting /\ r = 0
        /\ Sleep("done", 0)
        /\ UNCHANGED try_times
     \/ /\ pc = Deleting /\ r # 0
        /\ try_times' = try_times + 1
        /\ Sleep("again", 1)
  /\ UNCHANGED <<url, running>>

Answered ==
  /\ net \in {"ok", "bad"}
  /\ Return(IF net = "ok" THEN 0 ELSE -2)
  /\ UNCHANGED <<late, entry, lease>>

\* What the registry may still get of a request that nobody waits for.
GivenUp == IF net = "sent" /\ "late" \in Faults THEN {late, late \cup {pc}} ELSE {late}

\* A curl error, the timeout and an empty URL included; the request may have
\* been executed.
Failed ==
  /\ "network" \in Faults \/ ~url
  /\ pc \in Transfers
  /\ Return(-1)
  /\ late' \in GivenUp
  /\ UNCHANGED <<entry, lease>>

Mut_StopRegister ==
  /\ pc \in {"pause", "again"} /\ wait = 0
  /\ IF try_times <= StopTries THEN Perform(Deleting, url) ELSE Sleep("done", 0)
  /\ UNCHANGED <<url, running, try_count, res, try_times, late, entry, lease>>
\* The second before stop_register, and the one between two of its tries.
StopRegister ==
  /\ pc \in {"pause", "again"} /\ wait = 0
  /\ IF try_times < StopTries THEN Perform(Deleting, url) ELSE Sleep("done", 0)
  /\ UNCHANGED <<url, running, try_count, res, try_times, late, entry, lease>>

HeartBeatTimer == SleepOver \/ Answered \/ StopRegister

-----------------------------------------------------------------------------
(* The registry and time *)

\* The registry executes a request of who and answers it with answer.
Execute(request, who, answer) ==
  CASE request = Posting -> entry' = who /\ lease' = Duration /\ answer = "ok"
    [] request # Posting /\ entry = "none" -> UNCHANGED <<entry, lease>> /\ answer = "bad"
    [] request = Putting /\ entry # "none" ->
         lease' = Duration /\ UNCHANGED entry /\ answer = "ok"
    [] request = Deleting /\ entry # "none" ->
         entry' = "none" /\ lease' = 0 /\ answer = "ok"

Serve ==
  /\ net = "sent"
  /\ net' \in {"ok", "bad"}
  /\ Execute(pc, "client", net')
  /\ UNCHANGED <<url, running, pc, wait, try_count, res, try_times, late>>

\* The registry answers with an error.
Refuse ==
  /\ "refuse" \in Faults
  /\ net = "sent"
  /\ net' = "bad"
  /\ UNCHANGED <<url, running, pc, wait, try_count, res, try_times, late, entry, lease>>

ServeLate ==
  \E request \in late :
    /\ late' = late \ {request}
    /\ \E answer \in {"ok", "bad"} : Execute(request, "stray", answer)
    /\ UNCHANGED thread

\* The lease is over; the registry looks for that now and then.
Evict ==
  /\ entry # "none" /\ lease = 0
  /\ entry' = "none"
  /\ UNCHANGED <<thread, late, lease>>

\* The registry restarts empty.
Forget ==
  /\ "forget" \in Faults
  /\ entry # "none"
  /\ entry' = "none" /\ lease' = 0
  /\ UNCHANGED <<thread, late>>

\* A second passes, unless the thread has something to do at once.
Tick ==
  /\ wait > 0 \/ (pc \in {"off", "done"} /\ lease > 0)
  /\ wait' = IF wait > 0 THEN wait - 1 ELSE 0
  /\ lease' = IF lease > 0 THEN lease - 1 ELSE 0
  /\ UNCHANGED <<url, running, pc, try_count, res, try_times, net, late, entry>>

Registry == Serve \/ Refuse \/ ServeLate \/ Evict \/ Forget

\* The process is gone, with it the thread, but not what it has sent.
Killed ==
  /\ url' = FALSE
  /\ running' = FALSE
  /\ pc' = "off" /\ wait' = 0 /\ net' = "none"
  /\ try_count' = 0 /\ res' = -1 /\ try_times' = 0
  /\ late' \in GivenUp
  /\ UNCHANGED <<entry, lease>>

-----------------------------------------------------------------------------
(* Properties of every composition with a caller of run and stop *)

EurekaTypeOK ==
  /\ url \in BOOLEAN
  /\ running \in BOOLEAN
  /\ pc \in Loop \cup {"off", "pause", Deleting, "again", "done"}
  /\ wait \in 0..Duration
  /\ try_count \in 0..MaxTry + 1
  /\ res \in {0, -1, -2}
  /\ try_times \in 0..StopTries
  /\ net \in {"none", "sent", "ok", "bad"}
  /\ late \subseteq Transfers
  /\ entry \in {"none", "client", "stray"}
  /\ lease \in 0..Duration

\* As long as the last request was answered as expected, the lease does not
\* run out before the next one is executed, however slow both are: interval
\* and timeouts in eureka_client.cpp fit into durationInSecs.
LeaseKept == res = 0 /\ pc \in Loop /\ entry # "none" => lease > 0
=============================================================================
