-------------------------- MODULE ServiceLifecycle --------------------------
(***************************************************************************)
(* The process from main to its end (service_main.cpp, init_server.cpp):   *)
(* InitService, Listen with ConnectEureka, the server of crow_all.h,       *)
(* ReleaseService, composed with the registration of EurekaClient and with *)
(* Apollo's Listener, which fills the table while InitService reads it.    *)
(* A process that ended may be started again under the same instanceId,    *)
(* which is made of host name, application and port.                       *)
(***************************************************************************)
EXTENDS EurekaClient, Sequences

CONSTANTS Workers,     \* threads of the HTTP server
          Configured,  \* the components that Apollo has settings for
          MaxRuns      \* bound on the starts of the process

\* The order of InitService and that of ReleaseService after ReleaseEureka:
\* the MySQL pool is left to the static destructors.
InitOrder == <<"oss", "mysql", "redis", "lock">>
ReleaseOrder == <<"oss", "redis", "lock">>
Components == {"oss", "mysql", "redis", "lock"}

ASSUME ServiceAssumption ==
  /\ IsFiniteSet(Workers)
  /\ Configured \subseteq Components
  /\ MaxRuns \in Nat \ {0}
ASSUME ServiceFaultsAssumption ==
  Faults \subseteq {"network", "late", "refuse", "forget",
                    "settings", "host", "bind", "crash"}

VARIABLES
  env,    \* g_current_env
  main,   \* where the main thread is
  step,   \* the component InitService or ReleaseService is at
  table,  \* the table has Apollo's settings
  up,     \* the components that are initialised
  busy,   \* workers inside a request
  runs    \* how often the process was started

service == <<env, main, step, table, up, busy, runs>>
vars == <<eureka, service>>

\* After ReleaseEureka.
Releasing == {"release", "exited"}
Gone == {"exited", "dead"}

Init ==
  /\ EurekaInit
  /\ env \in {"LOCAL", "PROD", "unknown"}
  /\ main = "start"
  /\ step = 1
  /\ table = FALSE
  /\ up = {}
  /\ busy = {}
  /\ runs = 1

Goto(label) == main' = label

\* The process ends without ReleaseService: exit, abort, or a signal.
Die ==
  /\ Killed
  /\ Goto("dead")
  /\ step' = 1 /\ table' = FALSE /\ up' = {} /\ busy' = {}
  /\ UNCHANGED <<env, runs>>

-----------------------------------------------------------------------------
(* InitService *)

\* GetCurrentEnv exits for an unknown environment.
GetCurrentEnv ==
  /\ main = "start"
  /\ \/ env = "unknown" /\ Die
     \/ /\ env # "unknown"
        /\ Goto("apollo")
        /\ UNCHANGED <<eureka, env, step, table, up, busy, runs>>

\* ReadEnvConfig and ConnectApollo: without a host or application the process
\* exits; otherwise the first poll fills the table or fails, and the Listener
\* starts.  InitDumpFile and InitKafka follow; the breakpad handler is a local
\* variable of InitDumpFile and is gone when that returns.
ConnectApollo ==
  /\ main = "apollo"
  /\ \/ "settings" \in Faults /\ Die
     \/ /\ table' \in BOOLEAN
        /\ Goto("init")
        /\ UNCHANGED <<eureka, env, step, up, busy, runs>>

\* The Listener thread gets what the first poll did not.
Listener ==
  /\ main \notin {"start", "apollo"} \cup Gone
  /\ ~table
  /\ table' = TRUE
  /\ UNCHANGED <<eureka, env, main, step, up, busy, runs>>

\* InitAliOSS, InitMySQLConn, InitRedisConn, InitDistributeLock: what the
\* table has no settings for is skipped, for good.  A number in them that is
\* none raises, and nobody catches that.
InitComponent ==
  /\ main = "init"
  /\ step <= Len(InitOrder)
  /\ LET here == IF table THEN {InitOrder[step]} \cap Configured ELSE {}
     IN  \/ here # {} /\ "settings" \in Faults /\ Die
         \/ /\ up' = up \cup here
            /\ step' = step + 1
            /\ UNCHANGED <<eureka, env, main, table, busy, runs>>

-----------------------------------------------------------------------------
(* Listen *)

\* The registry's address is what the table has of it now.  A port that is no
\* number raises, and GetHostName's assertions come next, LOCAL or not.
ConnectEureka ==
  /\ main = "init"
  /\ step > Len(InitOrder)
  /\ \/ table /\ "settings" \in Faults /\ Die
     \/ "host" \in Faults /\ Die
     \/ /\ IF env = "LOCAL" THEN UNCHANGED eureka ELSE run(table)
        /\ Goto("bind")
        /\ UNCHANGED <<env, step, table, up, busy, runs>>

\* The server's constructor binds the port, or raises what nobody catches;
\* from here on it is the one that handles SIGINT and SIGTERM.
Run ==
  /\ main = "bind"
  /\ \/ "bind" \in Faults /\ Die
     \/ /\ Goto("listening")
        /\ UNCHANGED <<eureka, env, step, table, up, busy, runs>>

Request(w) ==
  /\ main = "listening"
  /\ busy' = busy \cup {w}
  /\ w \notin busy
  /\ UNCHANGED <<eureka, env, main, step, table, up, runs>>

RequestEnd(w) ==
  /\ w \in busy
  /\ busy' = busy \ {w}
  /\ UNCHANGED <<eureka, env, main, step, table, up, runs>>

\* SIGTERM.  While the server is there its stop() is called, once; before and
\* after, the signal ends the process.
Terminate ==
  /\ main \notin Gone
  /\ \/ /\ main = "listening"
        /\ Goto("stopping")
        /\ UNCHANGED <<eureka, env, step, table, up, busy, runs>>
     \/ main \notin {"listening", "stopping"} /\ Die

Crash == "crash" \in Faults /\ main \notin Gone /\ Die

\* Server::run returns when the threads have ended: the futures of std::async
\* wait for them, and they for the handler they are in.
RunReturns ==
  /\ main = "stopping"
  /\ busy = {}
  /\ Goto("eureka")
  /\ UNCHANGED <<eureka, env, step, table, up, busy, runs>>

-----------------------------------------------------------------------------
(* ReleaseService *)

\* ReleaseEureka calls stop(), which clears the flag and joins.
ReleaseEureka ==
  /\ main = "eureka"
  /\ step' = 1
  /\ \/ /\ env = "LOCAL"
        /\ Goto("release")
        /\ UNCHANGED running
     \/ /\ env # "LOCAL" /\ running
        /\ running' = FALSE
        /\ Goto("join")
  /\ UNCHANGED <<url, pc, wait, try_count, res, try_times, net, late, entry, lease>>
  /\ UNCHANGED <<env, table, up, busy, runs>>

Mut_Join ==
  /\ main = "join"
  /\ Goto("release")
  /\ UNCHANGED <<eureka, env, step, table, up, busy, runs>>
\* m_thread->join() returns when heartBeatTimer has.
Join ==
  /\ main = "join"
  /\ pc = "done"
  /\ Goto("release")
  /\ UNCHANGED <<eureka, env, step, table, up, busy, runs>>

\* ReleaseAliOSS, ReleaseRedisConn, ReleaseDistributeLock.
ReleaseComponent ==
  /\ main = "release"
  /\ step <= Len(ReleaseOrder)
  /\ up' = up \ {ReleaseOrder[step]}
  /\ step' = step + 1
  /\ UNCHANGED <<eureka, env, main, table, busy, runs>>

\* main returns; the static destructors end the MySQL pool.
Exit ==
  /\ main = "release"
  /\ step > Len(ReleaseOrder)
  /\ Goto("exited")
  /\ step' = 1 /\ table' = FALSE /\ up' = {}
  /\ UNCHANGED <<eureka, env, busy, runs>>

\* The container is started again.
Restart ==
  /\ main \in Gone
  /\ runs < MaxRuns
  /\ runs' = runs + 1
  /\ Goto("start")
  /\ url' = FALSE /\ pc' = "off" /\ running' = FALSE /\ res' = -1 /\ try_count' = 0 /\ try_times' = 0
  /\ UNCHANGED <<wait, net, late, entry, lease>>
  /\ UNCHANGED <<env, step, table, up, busy>>

-----------------------------------------------------------------------------
Main == \/ GetCurrentEnv \/ ConnectApollo \/ InitComponent \/ ConnectEureka \/ Run
        \/ RunReturns \/ ReleaseEureka \/ Join \/ ReleaseComponent \/ Exit

Client == HeartBeatTimer \/ Failed

Next ==
  \/ Main
  \/ Listener
  \/ \E w \in Workers : Request(w) \/ RequestEnd(w)
  \/ Terminate \/ Crash \/ Restart
  \/ (Client \/ Registry \/ Tick) /\ UNCHANGED service
  \/ (main \in Gone /\ runs = MaxRuns) /\ UNCHANGED vars

Spec == Init /\ [][Next]_vars

\* Threads that are inside something go on and time passes.  Of infinitely
\* many requests to the registry not all are lost, late or refused.
FairSpec ==
  /\ Spec
  /\ WF_vars(Main)
  /\ \A w \in Workers : WF_vars(RequestEnd(w))
  /\ WF_vars((HeartBeatTimer \/ Serve \/ Failed) /\ UNCHANGED service)
  /\ WF_vars(Tick /\ UNCHANGED service)
  /\ SF_vars(Serve /\ UNCHANGED service)

-----------------------------------------------------------------------------
(* Properties *)

\* Type correctness.
TypeOK ==
  /\ EurekaTypeOK
  /\ env \in {"LOCAL", "PROD", "unknown"}
  /\ main \in {"start", "apollo", "init", "bind", "listening", "stopping",
               "eureka", "join"} \cup Releasing \cup Gone
  /\ step \in 1..Len(InitOrder) + 1
  /\ table \in BOOLEAN
  /\ up \subseteq Components
  /\ busy \subseteq Workers
  /\ runs \in 1..MaxRuns

\* ReleaseService takes the registration back first: when it goes on to the
\* components, either every DELETE failed or the client's entry is gone, also
\* when stop() met the thread in the middle of registering again.
DeregisteredFirst == main \in Releasing /\ env # "LOCAL" /\ res = 0 => entry # "client"

\* Whatever happened to its entry (a lease that ran out, a registry that lost
\* it, a late DELETE of the process before), a serving process whose client
\* was made with the registry's address gets it back.
Rejoins ==
  (main = "listening" /\ env = "PROD" /\ url /\ entry = "none")
    ~> (entry # "none" \/ main # "listening")

\* After SIGTERM the process ends: requests, transfers and tries are limited.
ShutdownCompletes == main = "stopping" ~> main \in Gone
=============================================================================
