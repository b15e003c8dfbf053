----------------------------- MODULE LifecycleProofs ---------------------------
(* Theorems about Lifecycle and BlocksGenerator, for every number of shards and   *)
(* of requests, all block times and durations of any width.                       *)
EXTENDS Lifecycle, TLAPS

\* What the goroutine of the generator keeps, whatever the process around it does:
\* a tick at hand and the call for it are never both there, and the block time has
\* passed the check of NewBlocksGenerator.
GeneratorInv ==
    /\ GeneratorTypeOK
    /\ tick + sinceTick <= 1
    /\ loop # "none" => blockTime >= MinBlockTimeInMs
    /\ PanicsOnOverflowOnly

AtEnd == {"closeProxy", "shutdown", "drain", "exited"}
AfterStart == {"announce", "notify", "serving", "closeSimulator"} \cup AtEnd
AfterProxy == {"start"} \cup AfterStart
AfterGenerator == {"proxy", "sync", "caches", "endpoints"} \cup AfterProxy
AfterBlock == {"generator"} \cup AfterGenerator
AfterAccounts == {"block"} \cup AfterBlock
AfterSimulator == {"accounts"} \cup AfterAccounts

Ready == simulator # "none" /\ prepared = NumOfShards /\ blocks

\* The order of the start: what has been reached when main is at a statement, and
\* what must have been reached for a goroutine to exist.
StartInv ==
    /\ main \in AfterSimulator => simulator # "none"
    /\ main \in AfterAccounts => prepared = NumOfShards
    /\ main \in AfterBlock => blocks
    /\ main \in {"create", "accounts", "block"} => ~blocks
    /\ main \in {"create", "accounts", "block", "generator"} => loop = "none"
    /\ main \in {"endpoints"} \cup AfterProxy => closable = Closable
    /\ main \in {"create", "accounts", "block", "generator", "proxy", "sync", "caches",
                 "endpoints", "start"} => server = "none"
    /\ loop # "none" => Ready
    /\ server # "none" => Ready /\ closable = Closable
    /\ \A r \in Request : req[r] # "none" => server # "none"

\* The order of the end: what has been closed when main is at a statement.
EndInv ==
    /\ main \in {"closeSimulator"} \cup AtEnd => interrupted
    /\ main \in {"closeSimulator"} \cup AtEnd => (generator = "running" => cancelled)
    /\ main \in AtEnd => simulator = "closed"
    /\ main \in {"shutdown", "drain", "exited"} => tasks = {}
    /\ main \in {"drain", "exited"} => server = "down"
    /\ main = "exited" => \A r \in Request : req[r] \notin {"handling", "calling"}

IInv == TypeOK /\ GeneratorInv /\ StartInv /\ EndInv

--------------------------------------------------------------------------------
\* The product of a block time and a millisecond that fits in a duration is the
\* interval, and is positive when the time is.
LEMMA IntervalFits ==
    ASSUME NEW time \in Nat, time >= 1, time * Millisecond <= MaxDuration
    PROVE  Interval(time) > 0
  <1> DEFINE p == time * Millisecond
             m == 2 * (MaxDuration + 1)
  <1>1. p \in Nat /\ p >= 1
    BY TimeAssumption
  <1>2. m \in Nat /\ p < m /\ p <= MaxDuration
    BY <1>1, TimeAssumption
  <1> HIDE DEF p
  <1>3. p % m = p
    BY <1>1, <1>2
  <1>4. Interval(time) = p
    BY <1>1, <1>2, <1>3, TimeAssumption DEF Interval, p
  <1>5. QED
    BY <1>1, <1>4

\* The factory starts a goroutine for a block time that is accepted only.
LEMMA CreateKeeps ==
    ASSUME GeneratorInv, NEW auto \in BOOLEAN, NEW time \in BlockTime, Create(auto, time)
    PROVE  GeneratorInv'
  BY TimeAssumption
  DEF GeneratorInv, GeneratorTypeOK, PanicsOnOverflowOnly, Create, NewBlocksGenerator,
      NewDisabledGenerator, ValidTime

\* The loop and the ticker keep the invariant of the generator.
LEMMA GeneratorStepKeeps ==
    ASSUME GeneratorInv, GeneratorStep
    PROVE  GeneratorInv'
  BY DEF GeneratorInv, GeneratorTypeOK, PanicsOnOverflowOnly, GeneratorStep, StartTicker, Tick,
         TakeTick, GenerateSucceeds, GenerateFails, TakeDone

\* A panic comes from an interval that is not positive, hence from an overflow.
LEMMA PanicKeeps ==
    ASSUME GeneratorInv, Panic
    PROVE  GeneratorInv'
  <1>1. blockTime \in Nat /\ blockTime >= 1
    BY TimeAssumption DEF GeneratorInv, GeneratorTypeOK, Panic
  <1>2. ~(blockTime * Millisecond <= MaxDuration)
    BY <1>1, IntervalFits, TimeAssumption DEF Panic, Interval
  <1>3. blockTime * Millisecond \in Int /\ MaxDuration \in Int
    BY <1>1, TimeAssumption
  <1>4. blockTime * Millisecond > MaxDuration
    BY <1>2, <1>3
  <1>5. QED
    BY <1>4 DEF GeneratorInv, GeneratorTypeOK, PanicsOnOverflowOnly, Panic

\* Close only cancels.
LEMMA CloseKeeps ==
    ASSUME GeneratorInv, Close
    PROVE  GeneratorInv' /\ UNCHANGED <<generator, loop>> /\ (generator = "running" => cancelled')
  BY DEF GeneratorInv, GeneratorTypeOK, PanicsOnOverflowOnly, Close

\* A step that leaves the generator alone keeps its invariant.
LEMMA GeneratorFrame ==
    ASSUME GeneratorInv, UNCHANGED generatorVars
    PROVE  GeneratorInv'
  BY DEF GeneratorInv, GeneratorTypeOK, PanicsOnOverflowOnly, generatorVars

--------------------------------------------------------------------------------
\* The invariant holds when the process begins.
LEMMA InitIInv == Init => IInv
  <1> SUFFICES ASSUME Init PROVE IInv
    OBVIOUS
  <1>1. GeneratorInv
    <2>1. generator = "none" /\ loop = "none" /\ blockTime = 0 /\ tick = 0 /\ sinceTick = 0
      BY DEF Init, GeneratorInit
    <2>2. cancelled \in BOOLEAN
      BY DEF Init, GeneratorInit
    <2>3. QED
      BY <2>1, <2>2 DEF GeneratorInv, GeneratorTypeOK, PanicsOnOverflowOnly
  <1>2. TypeOK
    <2>1. blocks \in BOOLEAN /\ announced \in BOOLEAN /\ interrupted \in BOOLEAN
      BY DEF Init
    <2>2. main = "create" /\ simulator = "none" /\ tasks = {} /\ closable = {}
          /\ port \in {"free", "own", "other"} /\ server = "none"
          /\ req \in [Request -> {"none", "handling", "calling", "streaming", "answered", "cut"}]
      BY DEF Init
    <2>3. prepared \in 0 .. NumOfShards
      BY ShardsAssumption DEF Init
    <2>4. QED
      BY <1>1, <2>1, <2>2, <2>3 DEF TypeOK, GeneratorInv
  <1>3. StartInv /\ EndInv
    BY DEF Init, GeneratorInit, StartInv, EndInv, AfterSimulator, AfterAccounts, AfterBlock,
           AfterGenerator, AfterProxy, AfterStart, AtEnd
  <1>4. QED
    BY <1>1, <1>2, <1>3 DEF IInv

\* Each statement of the start keeps it, its error included.
LEMMA StartIInv ==
    ASSUME IInv, Start
    PROVE  IInv'
  <1> USE DEF IInv, TypeOK, StartInv, EndInv, Ready, AfterSimulator, AfterAccounts, AfterBlock,
              AfterGenerator, AfterProxy, AfterStart, AtEnd, Over, chainVars, proxyVars, userVars
  <1> USE GeneratorFrame DEF GeneratorInv, generatorVars
  <1>1. CASE CreateSimulator
    BY <1>1 DEF CreateSimulator
  <1>2. CASE PrepareAccount
    BY <1>2, ShardsAssumption DEF PrepareAccount, AllShards
  <1>3. CASE FirstBlock
    BY <1>3 DEF FirstBlock
  <1>4. CASE CreateGenerator
    <2>1. GeneratorInv'
      BY <1>4, CreateKeeps DEF CreateGenerator
    <2>2. QED
      BY <1>4, <2>1 DEF CreateGenerator
  <1>5. CASE ConfigureProxy
    BY <1>5 DEF ConfigureProxy
  <1>6. CASE StartSyncChecks
    BY <1>6 DEF StartSyncChecks
  <1>7. CASE StartCaches
    BY <1>7 DEF StartCaches
  <1>8. CASE ExtendProxy
    BY <1>8 DEF ExtendProxy
  <1>9. CASE StartServer
    BY <1>9 DEF StartServer
  <1>10. CASE Announce
    BY <1>10 DEF Announce
  <1>11. CASE NotifySignals
    BY <1>11 DEF NotifySignals
  <1>12. QED
    BY <1>1, <1>2, <1>3, <1>4, <1>5, <1>6, <1>7, <1>8, <1>9, <1>10, <1>11 DEF Start

\* So does each statement of the end.
LEMMA StopIInv ==
    ASSUME IInv, Stop \/ CloseSimulator
    PROVE  IInv'
  <1> USE DEF IInv, TypeOK, StartInv, EndInv, Ready, AfterSimulator, AfterAccounts, AfterBlock,
              AfterGenerator, AfterProxy, AfterStart, AtEnd, Over, chainVars, proxyVars, userVars
  <1>1. CASE CloseGenerator
    <2>1. GeneratorInv' /\ UNCHANGED <<generator, loop>> /\ (generator = "running" => cancelled')
      BY <1>1, CloseKeeps DEF CloseGenerator
    <2>2. QED
      BY <1>1, <2>1 DEF CloseGenerator, GeneratorInv
  <1> USE GeneratorFrame DEF GeneratorInv, generatorVars
  <1>2. CASE CloseSimulator
    BY <1>2 DEF CloseSimulator
  <1>3. CASE CloseComponents
    BY <1>3 DEF CloseComponents, Closable
  <1>4. CASE BeginShutdown
    BY <1>4 DEF BeginShutdown, Released
  <1>5. CASE EndShutdown
    BY <1>5 DEF EndShutdown, Drained, CutConnections
  <1>6. QED
    BY <1>1, <1>2, <1>3, <1>4, <1>5 DEF Stop

\* So does a step of a request.
LEMMA RequestIInv ==
    ASSUME IInv, NEW r \in Request,
           Connect(r) \/ Call(r) \/ Return(r) \/ Answer(r) \/ Upgrade(r) \/ EndStream(r)
    PROVE  IInv'
  <1>1. /\ GeneratorInv' /\ Alive
        /\ UNCHANGED <<main, chainVars, proxyVars, interrupted, generatorVars>>
    BY GeneratorFrame DEF IInv, Connect, Call, Return, Answer, Upgrade, EndStream, Move
  <1>2. PICK to \in {"handling", "calling", "streaming", "answered"} :
            req' = [req EXCEPT ![r] = to]
    BY DEF Connect, Call, Return, Answer, Upgrade, EndStream, Move
  <1>3. server # "none"
    BY DEF IInv, TypeOK, StartInv, Connect, Call, Return, Answer, Upgrade, EndStream, Move
  <1>4. TypeOK'
    <2>1. req' \in [Request -> {"none", "handling", "calling", "streaming", "answered", "cut"}]
      BY <1>2 DEF IInv, TypeOK
    <2>2. announced' = announced /\ interrupted' = interrupted
      BY DEF Connect, Call, Return, Answer, Upgrade, EndStream, Move
    <2>3. QED
      BY <1>1, <2>1, <2>2 DEF IInv, TypeOK, GeneratorInv, chainVars, proxyVars
  <1>5. StartInv'
    BY <1>1, <1>2, <1>3 DEF IInv, TypeOK, StartInv, Ready, chainVars, proxyVars, generatorVars
  <1>6. EndInv'
    BY <1>1, <1>2 DEF IInv, EndInv, Alive, Over, chainVars, proxyVars, generatorVars
  <1>7. QED
    BY <1>1, <1>4, <1>5, <1>6 DEF IInv

\* So do a step of the generator and its panic.
LEMMA GeneratorIInv ==
    ASSUME IInv, GeneratorRuns \/ GeneratorPanics
    PROVE  IInv'
  <1> USE DEF IInv, TypeOK, StartInv, EndInv, Ready, AfterSimulator, AfterAccounts, AfterBlock,
              AfterGenerator, AfterProxy, AfterStart, AtEnd, Over, chainVars, proxyVars, userVars
  <1>1. CASE GeneratorRuns
    <2>1. GeneratorInv'
      BY <1>1, GeneratorStepKeeps DEF GeneratorRuns, Runs
    <2>2. generator' = generator /\ cancelled' = cancelled
      BY <1>1 DEF GeneratorRuns, Runs, GeneratorStep, StartTicker, Tick, TakeTick,
                  GenerateSucceeds, GenerateFails, TakeDone
    <2>3. loop # "none" <=> loop' # "none"
      BY <2>1, <2>2 DEF GeneratorInv, GeneratorTypeOK
    <2>4. QED
      BY <1>1, <2>1, <2>2, <2>3 DEF GeneratorRuns, Runs, lifecycleVars, GeneratorInv
  <1>2. CASE GeneratorPanics
    <2>1. GeneratorInv' /\ loop # "none"
      BY <1>2, PanicKeeps DEF GeneratorPanics, Panic
    <2>2. QED
      BY <1>2, <2>1 DEF GeneratorPanics, GeneratorInv, Released
  <1>3. QED
    BY <1>1, <1>2

\* So do the rest of the world, the server and the end.
LEMMA OtherIInv ==
    ASSUME IInv, Signal \/ Listen \/ OtherProcess \/ UNCHANGED vars
    PROVE  IInv'
  <1> USE DEF IInv, TypeOK, StartInv, EndInv, Ready, AfterSimulator, AfterAccounts, AfterBlock,
              AfterGenerator, AfterProxy, AfterStart, AtEnd, Over, chainVars, proxyVars, userVars
  <1> USE GeneratorFrame DEF GeneratorInv, generatorVars
  <1>1. CASE Signal
    <2>1. GeneratorInv' /\ UNCHANGED <<chainVars, tasks, closable, server, req, generatorVars>>
      BY <1>1 DEF Signal
    <2>2. /\ main' = main \/ main' = "killed"
          /\ main' = main => interrupted' = TRUE
          /\ interrupted' = interrupted \/ interrupted' = TRUE
          /\ port' \in {"free", "own", "other"} /\ announced' = announced
      BY <1>1 DEF Signal, Released
    <2>3. interrupted' \in BOOLEAN
      BY <2>2
    <2>4. QED
      BY <2>1, <2>2, <2>3
  <1>2. CASE Listen
    BY <1>2 DEF Listen, Alive
  <1>3. CASE OtherProcess
    BY <1>3 DEF OtherProcess
  <1>4. CASE UNCHANGED vars
    BY <1>4 DEF vars, lifecycleVars
  <1>5. QED
    BY <1>1, <1>2, <1>3, <1>4

--------------------------------------------------------------------------------
\* The inductive invariant: the statements of main come in their order, and every
\* goroutine exists only after what it uses.
THEOREM Invariance == Spec => []IInv
  <1>1. IInv /\ [Next]_vars => IInv'
    BY StartIInv, StopIInv, RequestIInv, GeneratorIInv, OtherIInv DEF Next, Ended
  <1>2. QED
    BY InitIInv, <1>1, PTL DEF Spec

\* Every variable keeps its range, those of the generator included.
THEOREM TypeCorrect == Spec => []TypeOK
  <1>1. IInv => TypeOK
    BY DEF IInv
  <1>2. QED
    BY Invariance, <1>1, PTL

\* The generator calls the simulator at most once for each firing of the ticker.
THEOREM OneCallPerTick == Spec => []NoCatchUp
  <1>1. IInv => NoCatchUp
    BY DEF IInv, GeneratorInv, GeneratorTypeOK, NoCatchUp
  <1>2. QED
    BY Invariance, <1>1, PTL

\* Only a block time too long for a duration of its width ends the process, for
\* every width.
THEOREM OverflowOnly == Spec => []PanicsOnOverflowOnly
  <1>1. IInv => PanicsOnOverflowOnly
    BY DEF IInv, GeneratorInv
  <1>2. QED
    BY Invariance, <1>1, PTL

\* Nothing uses the simulator or the proxy before they are prepared.
THEOREM PreparedBeforeUse == Spec => []ReadyBeforeUse
  <1>1. IInv => ReadyBeforeUse
    BY DEF IInv, StartInv, Ready, ReadyBeforeUse
  <1>2. QED
    BY Invariance, <1>1, PTL

\* A process that exits after a signal leaves nothing open and nobody waiting.
THEOREM ExitIsClean == Spec => []CleanExit
  <1>1. IInv => CleanExit
    BY DEF IInv, TypeOK, EndInv, AtEnd, CleanExit
  <1>2. QED
    BY Invariance, <1>1, PTL
--------------------------------------------------------------------------------
\* The process as its clients see it.

PhaseUp == {"announce", "notify", "serving", "closeSimulator", "closeProxy", "shutdown"}
PhaseStarting == {"create", "accounts", "block", "generator", "proxy", "sync", "caches",
                  "endpoints", "start"}

\* The phase is a function of the statement main is at.
LEMMA PhaseOf ==
    /\ main \in PhaseStarting => Phase = "starting"
    /\ main \in PhaseUp => Phase = "up"
    /\ main = "drain" => Phase = "draining"
    /\ main = "exited" => Phase = "exited"
    /\ main \in {"failed", "killed", "panicked"} => Phase = "dead"
  BY DEF Phase, PhaseUp, PhaseStarting, Over

\* So is the next phase.
LEMMA NextPhaseOf ==
    /\ main' \in PhaseStarting => Phase' = "starting"
    /\ main' \in PhaseUp => Phase' = "up"
    /\ main' = "drain" => Phase' = "draining"
    /\ main' = "exited" => Phase' = "exited"
    /\ main' \in {"failed", "killed", "panicked"} => Phase' = "dead"
  BY DEF Phase, PhaseUp, PhaseStarting, Over

\* A step that moves no client leaves the view of them.
LEMMA SameConn == req' = req => Conn' = Conn
  BY DEF Conn

\* The chain is ready, or the generator there, for those who look.
Automatic == loop # "none"

\* A step that leaves the chain and the existence of the generator's goroutine alone
\* leaves the view of them.
LEMMA SameChain ==
    ASSUME UNCHANGED <<prepared, blocks>>, simulator' # "none" <=> simulator # "none",
           loop' # "none" <=> loop # "none"
    PROVE  ChainReady' = ChainReady /\ Automatic' = Automatic
  BY DEF ChainReady, Automatic

\* The statements of the start make the chain ready, begin the generator and bring
\* the process up, in this order, or end it before.
LEMMA StartMapped ==
    ASSUME IInv, Start
    PROVE  [Process!Next]_Process!vars
  <1> USE DEF Automatic
  <1>1. UNCHANGED <<req, interrupted>>
    BY DEF Start, CreateSimulator, PrepareAccount, FirstBlock, CreateGenerator, ConfigureProxy,
           StartSyncChecks, StartCaches, ExtendProxy, StartServer, Announce, NotifySignals,
           userVars
  <1>2. Conn' = Conn /\ interrupted' = interrupted
    BY <1>1, SameConn
  <1>3. ChainReady \in BOOLEAN /\ ChainReady' \in BOOLEAN
    BY DEF ChainReady, IInv, TypeOK, Start, CreateSimulator, PrepareAccount, FirstBlock,
           CreateGenerator, ConfigureProxy, StartSyncChecks, StartCaches, ExtendProxy,
           StartServer, Announce, NotifySignals, chainVars
  <1>4. CASE CreateSimulator \/ PrepareAccount \/ FirstBlock
    <2>1. /\ main \in PhaseStarting /\ main' \in PhaseStarting \cup {"failed"}
          /\ Automatic' = Automatic
      BY <1>4 DEF CreateSimulator, PrepareAccount, FirstBlock, PhaseStarting, generatorVars
    <2>2. ChainReady => ChainReady'
      BY <1>4 DEF CreateSimulator, PrepareAccount, FirstBlock, AllShards, ChainReady, IInv,
                  TypeOK, StartInv, AfterSimulator, AfterAccounts, AfterBlock
    <2>3. Phase = "starting" /\ (main' = "failed" \/ Phase' = "starting")
      BY <2>1, PhaseOf, NextPhaseOf
    <2>4. CASE main' = "failed"
      BY <1>2, <1>3, <2>1, <2>2, <2>3, <2>4, NextPhaseOf DEF Process!Next, Process!Die
    <2>5. CASE Phase' = "starting" /\ ChainReady' = ChainReady
      BY <1>2, <2>1, <2>3, <2>5 DEF Process!vars, Process!chain
    <2>6. CASE Phase' = "starting" /\ ChainReady' = TRUE
      BY <1>2, <2>1, <2>3, <2>6 DEF Process!Next, Process!Prepare
    <2>7. QED
      BY <1>3, <2>2, <2>3, <2>4, <2>5, <2>6
  <1>5. CASE CreateGenerator
    <2>1. /\ main = "generator" /\ main' \in {"proxy", "failed"} /\ UNCHANGED chainVars
          /\ main' = "failed" => loop' = loop
          /\ loop' = loop \/ loop' = "starting"
      BY <1>5 DEF CreateGenerator, Create, NewBlocksGenerator, NewDisabledGenerator
    <2>2. ChainReady' = ChainReady /\ ChainReady
      BY <2>1 DEF chainVars, ChainReady, IInv, StartInv, AfterSimulator, AfterAccounts, AfterBlock
    <2>3. Phase = "starting"
      BY <2>1, PhaseOf DEF PhaseStarting
    <2>4. CASE main' = "failed"
      BY <1>2, <2>1, <2>2, <2>3, <2>4, NextPhaseOf DEF Process!Next, Process!Die
    <2>5. CASE main' = "proxy" /\ loop' = loop
      <3>1. Phase' = "starting"
        BY <2>5, NextPhaseOf DEF PhaseStarting
      <3>2. QED
        BY <1>2, <2>2, <2>3, <2>5, <3>1 DEF Process!vars, Process!chain
    <2>6. CASE main' = "proxy" /\ loop' = "starting"
      <3>1. Phase' = "starting" /\ Automatic' = TRUE
        BY <2>6, NextPhaseOf DEF PhaseStarting
      <3>2. QED
        BY <1>2, <2>2, <2>3, <3>1 DEF Process!Next, Process!Automate
    <2>7. QED
      BY <2>1, <2>4, <2>5, <2>6
  <1>6. CASE \/ ConfigureProxy \/ StartSyncChecks \/ StartCaches \/ ExtendProxy
             \/ StartServer \/ Announce \/ NotifySignals
    <2>1. /\ UNCHANGED <<chainVars, generatorVars>>
          /\ \/ main \in PhaseStarting /\ main' \in PhaseStarting \cup {"failed"}
             \/ main = "start" /\ main' = "announce"
             \/ main \in PhaseUp /\ main' \in PhaseUp
      BY <1>6 DEF ConfigureProxy, StartSyncChecks, StartCaches, ExtendProxy, StartServer,
                  Announce, NotifySignals, PhaseStarting, PhaseUp
    <2>2. ChainReady' = ChainReady /\ Automatic' = Automatic
      BY <2>1, SameChain DEF chainVars, generatorVars
    <2>3. CASE main \in PhaseStarting /\ main' \in PhaseStarting
      BY <1>2, <2>2, <2>3, PhaseOf, NextPhaseOf DEF Process!vars, Process!chain
    <2>4. CASE main \in PhaseStarting /\ main' = "failed"
      BY <1>2, <2>2, <2>4, PhaseOf, NextPhaseOf DEF Process!Next, Process!Die
    <2>5. CASE main = "start" /\ main' = "announce"
      <3>1. ChainReady
        BY <2>5 DEF ChainReady, IInv, StartInv, AfterSimulator, AfterAccounts, AfterBlock,
                    AfterGenerator, AfterProxy
      <3>2. Phase = "starting" /\ Phase' = "up"
        BY <2>5, PhaseOf, NextPhaseOf DEF PhaseStarting, PhaseUp
      <3>3. QED
        BY <1>2, <2>2, <3>1, <3>2 DEF Process!Next, Process!Up, Process!chain
    <2>6. CASE main \in PhaseUp /\ main' \in PhaseUp
      BY <1>2, <2>2, <2>6, PhaseOf, NextPhaseOf DEF Process!vars, Process!chain
    <2>7. QED
      BY <2>1, <2>3, <2>4, <2>5, <2>6
  <1>7. QED
    BY <1>4, <1>5, <1>6 DEF Start

\* Those of the end keep the process up until it drains, for which it was asked,
\* and then let it exit, with everyone answered or cut.
LEMMA StopMapped ==
    ASSUME IInv, Stop \/ CloseSimulator
    PROVE  [Process!Next]_Process!vars
  <1> USE DEF userVars, Automatic, Process!chain
  <1>1. UNCHANGED <<prepared, blocks, loop, interrupted>>
    BY DEF Stop, CloseGenerator, CloseSimulator, CloseComponents, BeginShutdown, EndShutdown,
           Close, chainVars, generatorVars
  <1>2. simulator # "none" <=> simulator' # "none"
    BY DEF Stop, CloseGenerator, CloseSimulator, CloseComponents, BeginShutdown, EndShutdown,
           chainVars, IInv, StartInv, AfterSimulator, AfterAccounts, AfterBlock, AfterGenerator,
           AfterProxy, AfterStart
  <1>3. ChainReady' = ChainReady /\ Automatic' = Automatic
    BY <1>1, <1>2, SameChain
  <1>4. CASE CloseGenerator \/ CloseSimulator \/ CloseComponents
    <2>1. main \in PhaseUp /\ main' \in PhaseUp /\ req' = req
      BY <1>4 DEF CloseGenerator, CloseSimulator, CloseComponents, PhaseUp
    <2>2. QED
      BY <1>1, <1>3, <2>1, SameConn, PhaseOf, NextPhaseOf DEF Process!vars
  <1>5. CASE BeginShutdown
    <2>1. main = "shutdown" /\ main' = "drain" /\ req' = req /\ interrupted
      BY <1>5 DEF BeginShutdown, IInv, EndInv, AtEnd
    <2>2. QED
      BY <1>1, <1>3, <2>1, SameConn, PhaseOf, NextPhaseOf
      DEF PhaseUp, Process!Next, Process!Drain
  <1>6. CASE EndShutdown
    <2>1. main = "drain" /\ main' = "exited" /\ req' = CutConnections
      <3>1. Drained => CutConnections = req
        BY DEF Drained, CutConnections, IInv, TypeOK
      <3>2. QED
        BY <1>6, <3>1 DEF EndShutdown
    <2>2. Conn' = [r \in Request |-> IF Conn[r] = "open" THEN "cut" ELSE Conn[r]]
      BY <2>1 DEF Conn, CutConnections, IInv, TypeOK
    <2>3. QED
      BY <1>1, <1>3, <2>1, <2>2, PhaseOf, NextPhaseOf DEF Process!Next, Process!Exit
  <1>7. QED
    BY <1>4, <1>5, <1>6 DEF Stop

\* Only a server that listens accepts clients, and it listens only while the
\* process is up; what a handler does meanwhile is not seen.
LEMMA RequestMapped ==
    ASSUME IInv, NEW r \in Request,
           Connect(r) \/ Call(r) \/ Return(r) \/ Answer(r) \/ Upgrade(r) \/ EndStream(r)
    PROVE  [Process!Next]_Process!vars
  <1> USE DEF Automatic, Process!chain
  <1>1. /\ Alive /\ UNCHANGED <<main, interrupted, chainVars, generatorVars>> /\ Phase' = Phase
    BY DEF Connect, Call, Return, Answer, Upgrade, EndStream, Move, Phase
  <1>2. ChainReady' = ChainReady /\ Automatic' = Automatic
    BY <1>1, SameChain DEF chainVars, generatorVars
  <1>3. server # "none"
    BY DEF IInv, TypeOK, StartInv, Connect, Call, Return, Answer, Upgrade, EndStream, Move
  <1>4. main \in PhaseUp \cup {"drain"}
    BY <1>1, <1>3 DEF IInv, TypeOK, StartInv, Alive, Over, PhaseUp
  <1>5. Process!Serves
    BY <1>4, PhaseOf DEF Process!Serves
  <1>6. \A from, to : Move(r, from, to) =>
            /\ Conn' = [Conn EXCEPT ![r] = IF to \in {"handling", "calling"} THEN "open" ELSE to]
            /\ Conn[r] = IF from \in {"handling", "calling"} THEN "open" ELSE from
    BY DEF Move, Conn, IInv, TypeOK
  <1>7. \A from, to :
            Conn[r] = from /\ Conn' = [Conn EXCEPT ![r] = to] => Process!Move(r, from, to)
    BY <1>1, <1>2 DEF Process!Move
  <1>8. CASE Connect(r)
    <2>1. Phase = "up"
      BY <1>4, <1>8, PhaseOf DEF Connect, IInv, EndInv
    <2>2. Process!Accept(r)
      BY <1>6, <1>7, <1>8, <2>1 DEF Connect, Process!Accept
    <2>3. QED
      BY <2>2 DEF Process!Next
  <1>9. CASE Call(r) \/ Return(r)
    <2>1. Conn' = [Conn EXCEPT ![r] = "open"] /\ Conn[r] = "open"
      BY <1>6, <1>9 DEF Call, Return
    <2>2. Conn' = Conn
      BY <2>1 DEF Conn
    <2>3. QED
      BY <1>1, <1>2, <2>2 DEF Process!vars
  <1>10. CASE Answer(r)
    BY <1>5, <1>6, <1>7, <1>10 DEF Answer, Process!Next, Process!Answer
  <1>11. CASE Upgrade(r)
    BY <1>5, <1>6, <1>7, <1>11 DEF Upgrade, Process!Next, Process!Hijack
  <1>12. CASE EndStream(r)
    BY <1>5, <1>6, <1>7, <1>12 DEF EndStream, Process!Next, Process!Leave
  <1>13. QED
    BY <1>8, <1>9, <1>10, <1>11, <1>12

\* A signal ends the process before main listens for signals, and asks it to stop
\* from then on; a panic ends it at any moment.
LEMMA OtherMapped ==
    ASSUME IInv, Signal \/ GeneratorRuns \/ GeneratorPanics \/ Listen \/ OtherProcess
                 \/ UNCHANGED vars
    PROVE  [Process!Next]_Process!vars
  <1> USE DEF Automatic, Process!chain
  <1>1. Alive => Phase \notin {"exited", "dead"}
    BY DEF Alive, Phase, Over
  <1>2. UNCHANGED <<chainVars, req>> /\ (loop' # "none" <=> loop # "none")
    BY DEF Signal, GeneratorRuns, GeneratorPanics, Listen, OtherProcess, vars, lifecycleVars,
           userVars, generatorVars, Runs, GeneratorStep, StartTicker, Tick, TakeTick,
           GenerateSucceeds, GenerateFails, TakeDone, Panic
  <1>3. ChainReady' = ChainReady /\ Automatic' = Automatic /\ Conn' = Conn
    BY <1>2, SameChain, SameConn DEF chainVars
  <1>4. CASE Signal
    <2>1. Alive
      BY <1>4 DEF Signal
    <2>2. CASE main' = "killed" /\ interrupted' = interrupted
      BY <1>1, <1>3, <2>1, <2>2, NextPhaseOf DEF Process!Next, Process!Die
    <2>3. CASE main' = main /\ interrupted' = TRUE /\ main \notin PhaseStarting
      <3>1. main \in PhaseUp \cup {"drain"}
        BY <2>1, <2>3 DEF IInv, TypeOK, Alive, Over, PhaseUp, PhaseStarting
      <3>2. Process!Ask
        BY <1>3, <2>3, <3>1, PhaseOf, NextPhaseOf DEF Process!Ask, Process!Serves
      <3>3. QED
        BY <3>2 DEF Process!Next
    <2>4. QED
      BY <1>4, <2>2, <2>3 DEF Signal, PhaseStarting
  <1>5. CASE GeneratorPanics
    <2>1. interrupted' = interrupted /\ Alive /\ main' = "panicked"
      BY <1>5 DEF GeneratorPanics, userVars
    <2>2. QED
      BY <1>1, <1>3, <2>1, NextPhaseOf DEF Process!Next, Process!Die
  <1>6. CASE GeneratorRuns \/ Listen \/ OtherProcess \/ UNCHANGED vars
    <2>1. main' = main /\ interrupted' = interrupted
      BY <1>6 DEF GeneratorRuns, Runs, Listen, OtherProcess, vars, lifecycleVars, userVars
    <2>2. QED
      BY <1>3, <2>1 DEF Phase, Process!vars
  <1>7. QED
    BY <1>4, <1>5, <1>6

\* The process keeps what it promises its clients: it implements ServerProcess, for
\* every number of requests and shards.
THEOREM ProcessImplemented == Spec => ProcessKept
  <1>1. Init => Process!Init
    <2> SUFFICES ASSUME Init PROVE Process!Init
      OBVIOUS
    <2>1. Phase = "starting" /\ interrupted = FALSE
      BY PhaseOf DEF Init, PhaseStarting
    <2>2. Conn = [r \in Request |-> "none"]
      BY DEF Init, Conn
    <2>3. ChainReady = FALSE /\ (loop # "none") = FALSE
      BY DEF Init, GeneratorInit, ChainReady
    <2>4. QED
      BY <2>1, <2>2, <2>3 DEF Process!Init
  <1>2. IInv /\ [Next]_vars => [Process!Next]_Process!vars
    BY StartMapped, StopMapped, RequestMapped, OtherMapped DEF Next, Ended
  <1>3. QED
    BY Invariance, <1>1, <1>2, PTL DEF Spec, ProcessKept, Process!Spec

===============================================================================
