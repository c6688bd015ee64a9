----------------------- MODULE ServiceLifecycleProofs -----------------------
(***************************************************************************)
(* Proofs about ServiceLifecycle and the registration it is composed with, *)
(* for every interval, timeout and lease that satisfy LeaseAssumption,     *)
(* every number of tries, workers and restarts and every set of faults.    *)
(***************************************************************************)
EXTENDS ServiceLifecycle, TLAPS

-----------------------------------------------------------------------------
(* The inductive invariant *)

\* Where the thread is tells what it may have counted and what is under way:
\* it has not begun to deregister while it loops, a DELETE has a try left, a
\* heartbeat is sent only below the limit, only transfers have an answer, and
\* what is left of a transfer or a sleep is no more than the whole.
Counts ==
  /\ pc \in Loop \cup {"off", "pause"} => try_times = 0
  /\ pc = Deleting => try_times < StopTries
  /\ pc = Putting => try_count <= MaxTry
  /\ net # "none" => pc \in Transfers
  /\ pc = "off" => res = -1
  /\ pc = "again" => res # 0
  /\ pc \in Transfers => wait <= Timeout
  /\ pc = "sleep" => wait <= Interval

\* The time since the registry last renewed the lease, read off what is left
\* of the sleep or transfer: an answered request was executed within its own
\* timeout, a sleep and the next request's timeout come on top.
Renewed ==
  /\ pc \in {Posting, Putting} /\ net = "ok" => lease + Timeout >= Duration + wait
  /\ res = 0 /\ pc = "sleep" => lease + Timeout + Interval >= Duration + wait
  /\ res = 0 /\ pc \in {Posting, Putting} =>
       lease + Timeout + Interval + Timeout >= Duration + wait

\* What an answered DELETE leaves behind.
Deregistered ==
  /\ pc = Deleting /\ net = "ok" => entry # "client"
  /\ pc = "done" /\ res = 0 => entry # "client"

EurekaInv ==
  /\ EurekaTypeOK
  /\ Counts
  /\ entry # "none" => Renewed
  /\ Deregistered

\* The main thread goes past join only when the registration thread is done,
\* a LOCAL process and one that died have no such thread, and the index of the
\* component at hand is in range.
MainInv ==
  /\ main = "dead" \/ env = "LOCAL" => pc = "off"
  /\ main \in Releasing /\ env # "LOCAL" => pc = "done"
  /\ main \in {"start", "apollo"} \cup Gone => step = 1

\* The process's part of TypeOK: InitService has four components to go through.
ServiceTypeOK ==
  /\ env \in {"LOCAL", "PROD", "unknown"}
  /\ main \in {"start", "apollo", "init", "bind", "listening", "stopping",
               "eureka", "join"} \cup Releasing \cup Gone
  /\ step \in 1..5
  /\ table \in BOOLEAN
  /\ up \subseteq Components
  /\ busy \subseteq Workers
  /\ runs \in 1..MaxRuns

IInv == EurekaInv /\ ServiceTypeOK /\ MainInv

-----------------------------------------------------------------------------
(* The registration *)

\* No request has been made: the registration's part holds initially.
LEMMA EurekaInitInv == EurekaInit => EurekaInv
<1>1. EurekaInit => running \in BOOLEAN /\ url \in BOOLEAN
  BY Zenon DEF EurekaInit
<1> QED
  BY <1>1, EurekaAssumption, LeaseAssumption
  DEF EurekaInit, EurekaInv, EurekaTypeOK, Counts, Renewed, Deregistered, Loop,
       Transfers, Posting, Putting, Deleting

\* run() starts the thread with its first registration.
LEMMA RunInv == ASSUME EurekaInv, NEW known \in BOOLEAN, run(known) PROVE EurekaInv'
BY EurekaAssumption, LeaseAssumption
   DEF run, Perform, EurekaInv, EurekaTypeOK, Counts, Renewed, Deregistered, Loop,
       Transfers, Posting, Putting, Deleting

\* A sleep ends and the next request begins: its timeout comes on top.
LEMMA SleepOverInv == EurekaInv /\ SleepOver => EurekaInv'
BY EurekaAssumption, LeaseAssumption
   DEF SleepOver, Perform, EurekaInv, EurekaTypeOK, Counts, Renewed, Deregistered, Loop,
       Transfers, Posting, Putting, Deleting

\* The beginning of a DELETE, or the end of the thread.
LEMMA StopRegisterInv == EurekaInv /\ StopRegister => EurekaInv'
BY EurekaAssumption, LeaseAssumption
   DEF StopRegister, Perform, Sleep, EurekaInv, EurekaTypeOK, Counts, Renewed,
       Deregistered, Loop, Transfers, Posting, Putting, Deleting

\* try_count stays in range.
LEMMA TryCountType ==
  ASSUME EurekaInv, NEW r \in {0, -1, -2}
  PROVE  TryCount(r) \in 0..MaxTry + 1
BY EurekaAssumption
   DEF TryCount, EurekaInv, EurekaTypeOK, Counts, Posting, Putting, Deleting

\* The end of a request.  An answer as expected after a POST or PUT finds the
\* lease renewed within the timeout; a failed one starts no argument.
LEMMA ReturnInv ==
  ASSUME EurekaInv, NEW r \in {0, -1, -2}, pc \in Transfers, Return(r),
         r = 0 => net = "ok", late' \subseteq Transfers, UNCHANGED <<entry, lease>>
  PROVE  EurekaInv'
<1> USE EurekaAssumption, LeaseAssumption
<1>1. try_count' \in 0..MaxTry + 1
  BY TryCountType DEF Return
<1>2. CASE pc # Deleting
  BY <1>1, <1>2
     DEF Return, LoopTest, SleepInterval, Sleep, EurekaInv, EurekaTypeOK, Counts, Renewed,
         Deregistered, Loop, Transfers, Posting, Putting, Deleting
<1>3. CASE pc = Deleting /\ r = 0
  BY <1>1, <1>3
     DEF Return, Sleep, EurekaInv, EurekaTypeOK, Counts, Renewed, Deregistered, Loop,
         Transfers, Posting, Putting, Deleting
<1>4. CASE pc = Deleting /\ r # 0
  BY <1>1, <1>4
     DEF Return, Sleep, EurekaInv, EurekaTypeOK, Counts, Renewed, Deregistered, Loop,
         Transfers, Posting, Putting, Deleting
<1> QED
  BY <1>2, <1>3, <1>4

\* The answer of the registry reaches the client.
LEMMA AnsweredInv == EurekaInv /\ Answered => EurekaInv'
<1> SUFFICES ASSUME EurekaInv, Answered PROVE EurekaInv'
  OBVIOUS
<1>1. pc \in Transfers /\ late' \subseteq Transfers /\ UNCHANGED <<entry, lease>>
  BY DEF Answered, EurekaInv, EurekaTypeOK, Counts
<1>2. CASE net = "ok"
  BY <1>1, <1>2, ReturnInv DEF Answered
<1>3. CASE net = "bad"
  BY <1>1, <1>3, ReturnInv DEF Answered
<1> QED
  BY <1>2, <1>3 DEF Answered

\* What may still arrive of requests given up are requests.
LEMMA GivenUpType == EurekaInv => \A l \in GivenUp : l \subseteq Transfers
BY DEF GivenUp, EurekaInv, EurekaTypeOK, Counts

\* A request fails at the client, executed or not.
LEMMA FailedInv == EurekaInv /\ Failed => EurekaInv'
BY ReturnInv, GivenUpType DEF Failed

\* What executing a request may do to the entry and its lease.
LEMMA ExecuteEffect ==
  ASSUME NEW request \in Transfers, NEW who, NEW answer, EurekaInv,
         Execute(request, who, answer)
  PROVE  \/ request = Posting /\ entry' = who /\ lease' = Duration
         \/ /\ UNCHANGED <<entry, lease>>
            /\ answer = "bad"
         \/ request = Putting /\ UNCHANGED entry /\ lease' = Duration
         \/ request = Deleting /\ entry' = "none" /\ lease' = 0
<1>1. CASE request = Posting
  BY <1>1 DEF Execute
<1>2. CASE request # Posting /\ entry = "none"
  BY <1>2 DEF Execute
<1>3. CASE request = Putting /\ entry # "none"
  BY <1>3 DEF Execute, Putting, Posting
<1>4. CASE request = Deleting /\ entry # "none"
  BY <1>4 DEF Execute, Putting, Posting, Deleting
<1> QED
  BY <1>1, <1>2, <1>3, <1>4 DEF Transfers

\* The registry answers: POST and PUT start the lease anew.
LEMMA ServeInv == EurekaInv /\ Serve => EurekaInv'
<1> SUFFICES ASSUME EurekaInv, Serve PROVE EurekaInv'
  OBVIOUS
<1>1. pc \in Transfers
  BY DEF Serve, EurekaInv, Counts
<1>2. \/ pc = Posting /\ entry' = "client" /\ lease' = Duration
      \/ UNCHANGED <<entry, lease>> /\ net' = "bad"
      \/ pc = Putting /\ UNCHANGED entry /\ lease' = Duration
      \/ pc = Deleting /\ entry' = "none" /\ lease' = 0
  BY <1>1, ExecuteEffect DEF Serve
<1>3. EurekaTypeOK'
  BY <1>1, <1>2, EurekaAssumption DEF Serve, EurekaInv, EurekaTypeOK
<1>4. Counts'
  BY <1>1 DEF Serve, EurekaInv, Counts
<1>5. (entry # "none" => Renewed)'
  BY <1>1, <1>2, EurekaAssumption, LeaseAssumption
  DEF Serve, EurekaInv, EurekaTypeOK, Counts, Renewed, Transfers, Posting, Putting, Deleting
<1>6. Deregistered'
  BY <1>1, <1>2 DEF Serve, EurekaInv, Deregistered, Transfers, Posting, Putting, Deleting
<1> QED
  BY <1>3, <1>4, <1>5, <1>6 DEF EurekaInv

\* A refusal changes nothing at the registry.
LEMMA RefuseInv == EurekaInv /\ Refuse => EurekaInv'
BY DEF Refuse, EurekaInv, EurekaTypeOK, Counts, Renewed, Deregistered, Loop, Transfers,
       Posting, Putting, Deleting

\* Late requests renew the lease or remove the entry; none makes it the client's.
LEMMA ServeLateInv == EurekaInv /\ ServeLate => EurekaInv'
<1> SUFFICES ASSUME EurekaInv, ServeLate PROVE EurekaInv'
  OBVIOUS
<1>1. PICK request \in late, answer \in {"ok", "bad"} :
        /\ late' = late \ {request}
        /\ Execute(request, "stray", answer)
        /\ UNCHANGED thread
  BY DEF ServeLate
<1>2. \/ entry' \in {"stray", entry} /\ lease' = Duration
      \/ UNCHANGED <<entry, lease>>
      \/ entry' = "none" /\ lease' = 0
  BY <1>1, ExecuteEffect DEF EurekaInv, EurekaTypeOK
<1>3. EurekaTypeOK'
  BY <1>1, <1>2, EurekaAssumption DEF thread, EurekaInv, EurekaTypeOK
<1>4. Counts'
  BY <1>1 DEF thread, EurekaInv, Counts
<1>5. (entry # "none" => Renewed)'
  BY <1>1, <1>2, EurekaAssumption, LeaseAssumption
  DEF thread, EurekaInv, EurekaTypeOK, Counts, Renewed, Transfers
<1>6. Deregistered'
  BY <1>1, <1>2 DEF thread, EurekaInv, Deregistered
<1> QED
  BY <1>3, <1>4, <1>5, <1>6 DEF EurekaInv

\* The registry drops the entry.
LEMMA EvictInv == EurekaInv /\ Evict => EurekaInv'
BY DEF Evict, thread, EurekaInv, EurekaTypeOK, Counts, Renewed, Deregistered, Loop,
       Transfers, Posting, Putting, Deleting

\* The registry loses the entry.
LEMMA ForgetInv == EurekaInv /\ Forget => EurekaInv'
BY EurekaAssumption
   DEF Forget, thread, EurekaInv, EurekaTypeOK, Counts, Renewed, Deregistered, Loop,
       Transfers, Posting, Putting, Deleting

\* A second passes on both sides.
LEMMA TickInv == EurekaInv /\ Tick => EurekaInv'
BY EurekaAssumption, LeaseAssumption
   DEF Tick, EurekaInv, EurekaTypeOK, Counts, Renewed, Deregistered, Loop, Transfers,
       Posting, Putting, Deleting

\* The process ends in the middle of anything.
LEMMA KilledInv == EurekaInv /\ Killed => EurekaInv'
<1>1. Killed => running' \in BOOLEAN /\ url' \in BOOLEAN
  BY Zenon DEF Killed
<1> QED
  BY <1>1, GivenUpType, EurekaAssumption, LeaseAssumption
  DEF Killed, EurekaInv, EurekaTypeOK, Counts, Renewed, Deregistered, Loop, Transfers,
       Posting, Putting, Deleting

\* Nothing happens to the registration.
LEMMA EurekaStutter == EurekaInv /\ UNCHANGED eureka => EurekaInv'
BY DEF eureka, EurekaInv, EurekaTypeOK, Counts, Renewed, Deregistered

-----------------------------------------------------------------------------
(* The process *)

\* InitService and ReleaseService have four and three components to go through.
LEMMA Orders == Len(InitOrder) = 4 /\ Len(ReleaseOrder) = 3
BY DEF InitOrder, ReleaseOrder

\* The state's type is that of its two parts.
LEMMA TypeParts == TypeOK <=> EurekaTypeOK /\ ServiceTypeOK
BY Orders DEF TypeOK, ServiceTypeOK

\* The process starts with nothing initialised and nothing registered.
LEMMA InitIInv == Init => IInv
<1> SUFFICES ASSUME Init PROVE IInv
  OBVIOUS
<1>1. EurekaInv
  BY EurekaInitInv DEF Init
<1>2. table \in BOOLEAN
  BY Zenon DEF Init
<1>3. ServiceTypeOK
  BY <1>2, ServiceAssumption DEF Init, ServiceTypeOK
<1>4. MainInv
  BY DEF Init, EurekaInit, MainInv, Releasing
<1> QED
  BY <1>1, <1>3, <1>4 DEF IInv

\* The process ends without ReleaseService.
LEMMA DieInv == IInv /\ Die => IInv'
<1> SUFFICES ASSUME IInv, Die PROVE IInv'
  OBVIOUS
<1>1. EurekaInv'
  BY KilledInv DEF IInv, Die
<1>2. table' \in BOOLEAN
  BY Zenon DEF Die
<1>3. ServiceTypeOK'
  BY <1>2 DEF IInv, Die, Goto, ServiceTypeOK, Gone
<1>4. MainInv'
  BY DEF Die, Killed, Goto, MainInv, Releasing
<1> QED
  BY <1>1, <1>3, <1>4 DEF IInv

\* A step of the process that leaves the registration alone.
LEMMA ServiceStep ==
  ASSUME IInv, UNCHANGED eureka, ServiceTypeOK', MainInv'
  PROVE  IInv'
BY EurekaStutter DEF IInv

\* A step of the registration that leaves the process alone and does not
\* start the thread, be it done or not there.
LEMMA EurekaStep ==
  ASSUME IInv, UNCHANGED service, EurekaInv', pc \in {"off", "done"} => pc' = pc
  PROVE  IInv'
<1>1. ServiceTypeOK'
  BY DEF IInv, ServiceTypeOK, service
<1>2. MainInv'
  BY DEF IInv, MainInv, service
<1> QED
  BY <1>1, <1>2 DEF IInv

\* main and InitService, from the environment to the last component.
LEMMA InitServiceInv ==
  IInv /\ (GetCurrentEnv \/ ConnectApollo \/ Listener \/ InitComponent) => IInv'
<1> SUFFICES ASSUME IInv PROVE GetCurrentEnv \/ ConnectApollo \/ Listener \/ InitComponent => IInv'
  OBVIOUS
<1> USE Orders DEF IInv, ServiceTypeOK, MainInv, Goto, Releasing, Gone, eureka
<1>1. ASSUME GetCurrentEnv PROVE IInv'
  BY <1>1, DieInv, ServiceStep DEF GetCurrentEnv
<1>2. ASSUME ConnectApollo PROVE IInv'
  BY <1>2, DieInv, ServiceStep DEF ConnectApollo
<1>3. ASSUME Listener PROVE IInv'
  <2>1. table' \in BOOLEAN
    BY <1>3, Zenon DEF Listener
  <2> QED
    BY <1>3, <2>1, ServiceStep DEF Listener
<1>4. ASSUME InitComponent PROVE IInv'
  <2>1. CASE Die
    BY <2>1, DieInv
  <2>2. CASE ~Die
    <3>1. up' \subseteq Components
      BY <1>4, <2>2, ServiceAssumption DEF InitComponent
    <3> QED
      BY <1>4, <2>2, <3>1, ServiceStep DEF InitComponent
  <2> QED
    BY <2>1, <2>2
<1> QED
  BY <1>1, <1>2, <1>3, <1>4

\* Listen, its requests and the signals.
LEMMA ListenInv ==
  ASSUME IInv, \/ ConnectEureka \/ Run \/ RunReturns \/ Terminate \/ Crash
               \/ \E w \in Workers : Request(w) \/ RequestEnd(w)
  PROVE  IInv'
<1> USE Orders DEF IInv, ServiceTypeOK, MainInv, Goto, Releasing, Gone, eureka
<1>1. ASSUME ConnectEureka PROVE IInv'
  <2>1. CASE Die
    BY <2>1, DieInv
  <2>2. CASE ~Die
    <3>1. EurekaInv'
      BY <1>1, <2>2, RunInv, EurekaStutter DEF ConnectEureka
    <3> QED
      BY <1>1, <2>2, <3>1 DEF ConnectEureka, EurekaInv
  <2> QED
    BY <2>1, <2>2
<1>2. ASSUME Run PROVE IInv'
  BY <1>2, DieInv, ServiceStep DEF Run
<1>3. ASSUME RunReturns PROVE IInv'
  BY <1>3, ServiceStep DEF RunReturns
<1>4. ASSUME Terminate PROVE IInv'
  BY <1>4, DieInv, ServiceStep DEF Terminate
<1>5. ASSUME Crash PROVE IInv'
  BY <1>5, DieInv DEF Crash
<1>6. ASSUME NEW w \in Workers, Request(w) PROVE IInv'
  BY <1>6, ServiceStep DEF Request
<1>7. ASSUME NEW w \in Workers, RequestEnd(w) PROVE IInv'
  BY <1>7, ServiceStep DEF RequestEnd
<1> QED
  BY <1>1, <1>2, <1>3, <1>4, <1>5, <1>6, <1>7

\* ReleaseService, the end of main and the next start.
LEMMA ReleaseInv ==
  ASSUME IInv, ReleaseEureka \/ Join \/ ReleaseComponent \/ Exit \/ Restart
  PROVE  IInv'
<1> USE Orders DEF IInv, ServiceTypeOK, MainInv, Goto, Releasing, Gone, eureka
<1>1. ASSUME ReleaseEureka PROVE IInv'
  <2>1. running' \in BOOLEAN
    BY <1>1, Zenon DEF ReleaseEureka, EurekaInv, EurekaTypeOK
  <2>2. EurekaInv'
    BY <1>1, <2>1 DEF ReleaseEureka, EurekaInv, EurekaTypeOK, Counts, Renewed, Deregistered
  <2> QED
    BY <1>1, <2>2 DEF ReleaseEureka, EurekaInv
<1>2. ASSUME Join PROVE IInv'
  BY <1>2, ServiceStep DEF Join
<1>3. ASSUME ReleaseComponent PROVE IInv'
  BY <1>3, ServiceStep DEF ReleaseComponent
<1>4. ASSUME Exit PROVE IInv'
  <2>1. table' \in BOOLEAN
    BY <1>4, Zenon DEF Exit
  <2> QED
    BY <1>4, <2>1, ServiceStep DEF Exit
<1>5. ASSUME Restart PROVE IInv'
  <2>1. running' \in BOOLEAN /\ url' \in BOOLEAN
    BY <1>5, Zenon DEF Restart
  <2>2. EurekaInv'
    BY <1>5, <2>1, EurekaAssumption, LeaseAssumption
    DEF Restart, EurekaInv, EurekaTypeOK, Counts, Renewed, Deregistered, Loop, Transfers,
        Posting, Putting, Deleting
  <2> QED
    BY <1>5, <2>2, ServiceAssumption DEF Restart, EurekaInv
<1> QED
  BY <1>1, <1>2, <1>3, <1>4, <1>5

\* The registration's own steps.
LEMMA RegistrationInv ==
  ASSUME IInv, (Client \/ Registry \/ Tick) /\ UNCHANGED service
  PROVE  IInv'
<1>1. EurekaInv'
  BY SleepOverInv, AnsweredInv, StopRegisterInv, FailedInv, ServeInv, RefuseInv,
     ServeLateInv, EvictInv, ForgetInv, TickInv
  DEF IInv, Client, HeartBeatTimer, Registry
<1>2. pc \in {"off", "done"} => pc' = pc
  BY DEF IInv, EurekaInv, Counts, Client, HeartBeatTimer, SleepOver, Answered, StopRegister,
         Failed, Registry, Serve, Refuse, ServeLate, Evict, Forget, Tick, thread,
         Transfers, Posting, Putting, Deleting
<1> QED
  BY <1>1, <1>2, EurekaStep

\* Every step keeps the inductive invariant.
LEMMA NextIInv == IInv /\ [Next]_vars => IInv'
<1> SUFFICES ASSUME IInv, [Next]_vars PROVE IInv'
  OBVIOUS
<1>1. CASE UNCHANGED vars
  <2>1. ServiceTypeOK' /\ MainInv'
    BY <1>1 DEF vars, service, eureka, IInv, ServiceTypeOK, MainInv
  <2> QED
    BY <1>1, <2>1, ServiceStep DEF vars
<1>2. CASE Next
  BY <1>1, <1>2, InitServiceInv, ListenInv, ReleaseInv, RegistrationInv DEF Next, Main
<1> QED
  BY <1>1, <1>2

-----------------------------------------------------------------------------
(* The theorems *)

\* The inductive invariant holds throughout.
LEMMA Invariant == Spec => []IInv
BY InitIInv, NextIInv, PTL DEF Spec

\* Type correctness: try_count and try_times of eureka_client.cpp stay in range.
THEOREM TypeCorrect == Spec => []TypeOK
<1>1. IInv => TypeOK
  BY TypeParts DEF IInv, EurekaInv
<1> QED
  BY <1>1, Invariant, PTL

\* While requests are answered as expected the lease does not run out, for
\* every interval and timeouts that fit into durationInSecs.
THEOREM LeaseIsKept == Spec => []LeaseKept
<1>1. IInv => LeaseKept
  BY EurekaAssumption, LeaseAssumption
  DEF IInv, EurekaInv, EurekaTypeOK, Counts, Renewed, LeaseKept, Loop, Transfers, Posting,
      Putting, Deleting
<1> QED
  BY <1>1, Invariant, PTL

\* ReleaseService goes on to the components with the client's entry gone,
\* unless every DELETE failed.
THEOREM DeregistersFirst == Spec => []DeregisteredFirst
<1>1. IInv => DeregisteredFirst
  BY DEF IInv, EurekaInv, Deregistered, MainInv, DeregisteredFirst
<1> QED
  BY <1>1, Invariant, PTL
=============================================================================
