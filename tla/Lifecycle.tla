-------------------------------- MODULE Lifecycle ------------------------------
(* The process from startChainSimulator to its end: the main goroutine starts    *)
(* the chain, the blocks generator and the proxy server one after the other,     *)
(* announces the URL, waits for a signal and closes what it started.  The        *)
(* generator's goroutine, the server's goroutine and the goroutines of the       *)
(* requests run beside it, and end with the process.                             *)
EXTENDS BlocksGenerator

CONSTANTS
    Request,       \* the HTTP requests; each is sent once
    NumOfShards    \* NumOfShards of the configuration

ASSUME ShardsAssumption == NumOfShards \in Nat

VARIABLES
    main,        \* the next thing the main goroutine does
    simulator,   \* "none", "open" or "closed"
    prepared,    \* the shards whose system account has been written
    blocks,      \* the first block has been generated
    tasks,       \* the processors of the proxy with goroutines of their own
    closable,    \* the processors proxy.Close will close
    port,        \* who listens on the port of the proxy: "free", "own" or "other"
    server,      \* the goroutine that listens
    announced,   \* the URL has been logged
    interrupted, \* a signal has arrived
    req          \* where each request is

chainVars == <<simulator, prepared, blocks>>
proxyVars == <<tasks, closable, port, server>>
userVars == <<announced, interrupted, req>>

lifecycleVars == <<main, chainVars, proxyVars, userVars>>

vars == <<lifecycleVars, generatorVars>>

Over == {"exited", "failed", "killed", "panicked"}

Alive == main \notin Over

Init ==
    /\ GeneratorInit
    /\ main = "create"
    /\ simulator = "none"
    /\ prepared = 0
    /\ blocks = FALSE
    /\ tasks = {}
    /\ closable = {}
    /\ port \in {"free", "other"}
    /\ server = "none"
    /\ announced = FALSE
    /\ interrupted = FALSE
    /\ req = [r \in Request |-> "none"]

--------------------------------------------------------------------------------
\* The start.

\* NewChainSimulator; its error, or that of the function that alters the configs.
CreateSimulator ==
    /\ main = "create"
    /\ \/ simulator' = "open" /\ main' = "accounts"
       \/ simulator' \in {"none", "open"} /\ main' = "failed"
    /\ UNCHANGED <<prepared, blocks, proxyVars, userVars, generatorVars>>

\* A defect: one shard too many.
OneMore(n) == n > NumOfShards

AllShards(n) == n >= NumOfShards

\* The loop that writes the system account of every shard.
PrepareAccount ==
    /\ main = "accounts"
    /\ \/ AllShards(prepared) /\ main' = "block" /\ UNCHANGED prepared
       \/ ~AllShards(prepared) /\ prepared' = prepared + 1 /\ UNCHANGED main
       \/ ~AllShards(prepared) /\ main' = "failed" /\ UNCHANGED prepared
    /\ UNCHANGED <<simulator, blocks, proxyVars, userVars, generatorVars>>

FirstBlock ==
    /\ main = "block"
    /\ \/ blocks' = TRUE /\ main' = "generator"
       \/ blocks' \in BOOLEAN /\ main' = "failed"
    /\ UNCHANGED <<simulator, prepared, proxyVars, userVars, generatorVars>>

CreateGenerator ==
    /\ main = "generator"
    /\ \E auto \in BOOLEAN, time \in BlockTime : Create(auto, time)
    /\ main' = IF generator' = "refused" THEN "failed" ELSE "proxy"
    /\ UNCHANGED <<chainVars, proxyVars, userVars>>

\* The configuration of the proxy and its port: that of the configuration, whoever
\* listens there, or one found by listening on it and closing again.
ConfigureProxy ==
    /\ main = "proxy"
    /\ \/ main' \in {"sync", "failed"} /\ UNCHANGED port
       \/ main' = "sync" /\ port' = "free"
    /\ UNCHANGED <<chainVars, tasks, closable, server, userVars, generatorVars>>

\* creator.CreateProxy up to bp.StartNodesSyncStateChecks.
StartSyncChecks ==
    /\ main = "sync"
    /\ \/ tasks' = {"base"} /\ main' = "caches"
       \/ main' = "failed" /\ UNCHANGED tasks
    /\ UNCHANGED <<chainVars, closable, port, server, userVars, generatorVars>>

\* A defect: the base processor is not among the components to close.
AllButBase == {"nodeGroup", "valStats", "nodeStatus"}

Closable == {"nodeGroup", "valStats", "nodeStatus", "base"}

\* The processors that must be closed are noted, and two of them begin to refresh
\* their caches.
StartCaches ==
    /\ main = "caches"
    /\ \/ /\ closable' = Closable
          /\ tasks' = tasks \cup {"valStats", "nodeStatus"}
          /\ main' = "endpoints"
       \/ main' = "failed" /\ UNCHANGED <<tasks, closable>>
    /\ UNCHANGED <<chainVars, port, server, userVars, generatorVars>>

\* The rest of CreateProxy, the facade and the endpoints, any of which may fail.
ExtendProxy ==
    /\ main = "endpoints"
    /\ main' \in {"start", "failed"}
    /\ UNCHANGED <<chainVars, proxyVars, userVars, generatorVars>>

\* A defect: the listener is not started.
StartForgotten ==
    /\ main = "start"
    /\ main' = "announce"
    /\ UNCHANGED <<chainVars, proxyVars, userVars, generatorVars>>

\* proxyInstance.Start, which leaves ListenAndServe to a goroutine.
StartServer ==
    /\ main = "start"
    /\ server' = "starting"
    /\ main' = "announce"
    /\ UNCHANGED <<chainVars, tasks, closable, port, userVars, generatorVars>>

\* After ten milliseconds, whatever has become of the server.
Announce ==
    /\ main = "announce"
    /\ announced' = TRUE
    /\ main' = "notify"
    /\ UNCHANGED <<chainVars, proxyVars, interrupted, req, generatorVars>>

\* From here on a signal is a message on the channel.
NotifySignals ==
    /\ main = "notify"
    /\ main' = "serving"
    /\ UNCHANGED <<chainVars, proxyVars, userVars, generatorVars>>

\* A listener is closed with its process, if not before.
Released == IF port = "own" THEN "free" ELSE port

\* SIGINT or SIGTERM.
Signal ==
    /\ Alive
    /\ IF main \in {"create", "accounts", "block", "generator", "proxy", "start",
                    "sync", "caches", "endpoints", "announce", "notify"}
       THEN main' = "killed" /\ port' = Released /\ UNCHANGED interrupted
       ELSE interrupted' = TRUE /\ UNCHANGED <<main, port>>
    /\ UNCHANGED <<chainVars, tasks, closable, server, announced, req, generatorVars>>

--------------------------------------------------------------------------------
\* The end.

\* The signal is read from the channel, and generator.Close called.
CloseGenerator ==
    /\ main = "serving"
    /\ interrupted
    /\ Close
    /\ main' = "closeSimulator"
    /\ UNCHANGED <<chainVars, proxyVars, userVars>>

CloseSimulator ==
    /\ main = "closeSimulator"
    /\ simulator' = "closed"
    /\ main' = "closeProxy"
    /\ UNCHANGED <<prepared, blocks, proxyVars, userVars, generatorVars>>

\* The first statement of proxy.Close: its processors end their tasks.
CloseComponents ==
    /\ main = "closeProxy"
    /\ tasks' = tasks \ closable
    /\ main' = "shutdown"
    /\ UNCHANGED <<chainVars, closable, port, server, userVars, generatorVars>>

\* A defect: a server that does not listen yet is not told.
ShutdownIfListening ==
    /\ main = "shutdown"
    /\ server' = (IF server = "listening" THEN "down" ELSE server)
    /\ port' = Released
    /\ main' = "drain"
    /\ UNCHANGED <<chainVars, tasks, closable, userVars, generatorVars>>

\* httpServer.Shutdown begins: the listener is closed, or never opened.
BeginShutdown ==
    /\ main = "shutdown"
    /\ server' = "down"
    /\ port' = Released
    /\ main' = "drain"
    /\ UNCHANGED <<chainVars, tasks, closable, userVars, generatorVars>>

CutConnections == [r \in Request |-> IF req[r] \in {"handling", "calling"} THEN "cut"
                                                                           ELSE req[r]]

Drained == \A r \in Request : req[r] \notin {"handling", "calling"}

\* Shutdown returns when every request has been answered, or after one second;
\* Close then cuts the connections that are left.
EndShutdown ==
    /\ main = "drain"
    /\ \/ Drained /\ UNCHANGED req
       \/ ~Drained /\ req' = CutConnections
    /\ main' = "exited"
    /\ UNCHANGED <<chainVars, proxyVars, announced, interrupted, generatorVars>>

Start ==
    \/ CreateSimulator
    \/ PrepareAccount
    \/ FirstBlock
    \/ CreateGenerator
    \/ ConfigureProxy
    \/ StartSyncChecks
    \/ StartCaches
    \/ ExtendProxy
    \/ StartServer
    \/ Announce
    \/ NotifySignals

Stop ==
    \/ CloseGenerator
    \/ CloseComponents
    \/ BeginShutdown
    \/ EndShutdown

--------------------------------------------------------------------------------
\* Other processes of the machine take the port and give it back.
OtherProcess ==
    /\ port # "own"
    /\ port' \in {"free", "other"} \ {port}
    /\ UNCHANGED <<main, chainVars, tasks, closable, server, userVars, generatorVars>>

\* The goroutine of the server: the port is free, or the error is logged and
\* nobody told.
Listen ==
    /\ Alive
    /\ server = "starting"
    /\ \/ port = "free" /\ server' = "listening" /\ port' = "own"
       \/ port = "other" /\ server' = "error" /\ UNCHANGED port
    /\ UNCHANGED <<main, chainVars, tasks, closable, userVars, generatorVars>>

Move(r, from, to) ==
    /\ Alive
    /\ req[r] = from
    /\ req' = [req EXCEPT ![r] = to]
    /\ UNCHANGED <<main, chainVars, proxyVars, announced, interrupted, generatorVars>>

Connect(r) == server = "listening" /\ Move(r, "none", "handling")

\* The handler calls the simulator through the facade, once or several times, and
\* writes its response; a call may take as long as it likes.
Call(r) == Move(r, "handling", "calling")

Return(r) == Move(r, "calling", "handling")

Answer(r) == Move(r, "handling", "answered")

\* GET /log: the connection is upgraded to a websocket, which the server knows
\* nothing of any more, and lasts until the client leaves.
Upgrade(r) == Move(r, "handling", "streaming")

EndStream(r) == Move(r, "streaming", "answered")

Runs(step) ==
    /\ Alive
    /\ step
    /\ UNCHANGED lifecycleVars

GeneratorRuns == Runs(GeneratorStep)

\* A panic of the generator's goroutine ends the process.
GeneratorPanics ==
    /\ Alive
    /\ Panic
    /\ main' = "panicked"
    /\ port' = Released
    /\ UNCHANGED <<chainVars, tasks, closable, server, userVars>>

\* Nothing happens in a process that has ended.
Ended == ~Alive /\ UNCHANGED vars

Next ==
    \/ Start
    \/ Signal
    \/ Stop
    \/ CloseSimulator
    \/ Listen
    \/ \E r \in Request : Connect(r) \/ Call(r) \/ Return(r) \/ Answer(r)
                        \/ Upgrade(r) \/ EndStream(r)
    \/ GeneratorRuns
    \/ GeneratorPanics
    \/ OtherProcess
    \/ Ended

\* Goroutines that can run are scheduled, timers fire.  Nothing is assumed of
\* simulator.Close, nor of the calls of the requests: they may never return.  A
\* select chooses at random between the channels that are ready, so that it takes
\* each of them in the end: strong fairness.
Fairness ==
    /\ WF_vars(Start)
    /\ WF_vars(Stop)
    /\ WF_vars(Listen)
    /\ WF_vars(GeneratorPanics)
    /\ WF_vars(Runs(StartTicker))
    /\ WF_vars(Runs(Tick))
    /\ WF_vars(Runs(GenerateSucceeds \/ GenerateFails))
    /\ SF_vars(Runs(TakeTick))
    /\ SF_vars(Runs(TakeDone))

Spec == Init /\ [][Next]_vars /\ Fairness

--------------------------------------------------------------------------------
\* The type invariant: every variable holds a value the code can give it.
TypeOK ==
    /\ GeneratorTypeOK
    /\ main \in {"create", "accounts", "block", "generator", "proxy", "sync",
                 "caches", "endpoints", "start", "announce", "notify", "serving",
                 "closeSimulator", "closeProxy", "shutdown", "drain"} \cup Over
    /\ simulator \in {"none", "open", "closed"}
    /\ prepared \in 0 .. NumOfShards
    /\ blocks \in BOOLEAN
    /\ tasks \subseteq {"base", "valStats", "nodeStatus"}
    /\ closable \in {{}, Closable}
    /\ port \in {"free", "own", "other"}
    /\ server \in {"none", "starting", "listening", "error", "down"}
    /\ announced \in BOOLEAN
    /\ interrupted \in BOOLEAN
    /\ req \in [Request -> {"none", "handling", "calling", "streaming", "answered", "cut"}]

\* Neither the generator nor a request calls a simulator that is not ready: every
\* system account is written and the first block made before; requests find the
\* proxy's processors too.
ReadyBeforeUse ==
    /\ loop # "none" \/ (\E r \in Request : req[r] # "none") =>
           simulator # "none" /\ prepared = NumOfShards /\ blocks
    /\ (\E r \in Request : req[r] # "none") => closable = Closable

\* A process that ends after a signal has closed the simulator and the server, no
\* goroutine of the proxy goes on, and the generator, if any, has been told to
\* stop; no client is left waiting for an answer, but those of websockets.
CleanExit ==
    main = "exited" =>
        /\ simulator = "closed" /\ tasks = {} /\ server \in {"down", "error"}
        /\ generator = "running" => cancelled
        /\ \A r \in Request : req[r] \in {"none", "answered", "streaming", "cut"}

\* The generator goes on calling, errors or not, until it is closed.
KeepsGenerating ==
    loop # "none" /\ ~cancelled ~> loop = "calling" \/ cancelled \/ ~Alive

\* Closed, the goroutine of the generator ends, even if the simulator never
\* finishes closing.
ClosedEnds == cancelled ~> loop = "ended" \/ ~Alive

\* A signal gets main as far as simulator.Close, however busy the generator and
\* the requests are, unless the ticker of the generator panics; ...
InterruptCloses ==
    main = "serving" /\ interrupted ~> main \in {"closeSimulator", "panicked"}

\* ... once that has returned the process ends, even if a request never does.
ClosedExits == simulator = "closed" ~> main \in {"exited", "panicked"}

\* After a signal nothing keeps the process: no block that is being generated, no
\* request, no websocket and no goroutine that waits for another.
ShutdownCompletes == ClosedEnds /\ InterruptCloses /\ ClosedExits

\* main announces the URL without waiting for the server's goroutine; the server
\* listens all the same, unless another process holds the port when it tries.
AnnouncedServes ==
    announced /\ server # "error" /\ [](port # "other")
        ~> server \in {"listening", "down"} \/ ~Alive

--------------------------------------------------------------------------------
\* The process as its clients see it (ServerProcess).
Phase ==
    CASE main = "exited" -> "exited"
      [] main \in Over \ {"exited"} -> "dead"
      [] main = "drain" -> "draining"
      [] main \in {"announce", "notify", "serving", "closeSimulator", "closeProxy",
                  "shutdown"} -> "up"
      [] OTHER -> "starting"

ChainReady == simulator # "none" /\ prepared = NumOfShards /\ blocks

Conn == [r \in Request |-> IF req[r] \in {"handling", "calling"} THEN "open" ELSE req[r]]

Process == INSTANCE ServerProcess WITH
    phase <- Phase, ready <- ChainReady, auto <- (loop # "none"),
    asked <- interrupted, conn <- Conn

\* The generator begins, and clients are accepted, only when the chain is ready.  No
\* client is accepted by a process that drains, even if the server's goroutine gets
\* to listen only when main shuts it down; nobody is answered by one that has ended;
\* the process drains only when it was asked to, and exits only when each client has
\* been answered or cut off.
ProcessKept == Process!Spec

--------------------------------------------------------------------------------
\* What comments and messages say.

\* Message of main: "chain simulator's is accessible through the URL"; the
\* documentation tells users to take the URL from there.  A server that is about
\* to listen would do, one that has failed to listen would not.
AnnouncedIsAccessible == announced => server # "error"

===============================================================================
