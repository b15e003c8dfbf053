# Verification of mx-chain-simulator-go

TLA+ models of the chain simulator's own code: the HTTP endpoints under
`/simulator`, the facade behind them, the automatic blocks generator, the start
and the end of the process, what it makes of its arguments and configuration
files, and the fetching of the configuration folders. TLC checks small instances;
TLAPS proves the safety properties of all seven models for every instance, and that
five of them implement an abstract specification of what they promise.

## 1. The system

`cmd/chainsimulator` builds one process out of three things: the simulated chain
(`mx-chain-go`, a library), a proxy server (`mx-chain-proxy-go`, a library) and
the code of this repository that ties them together. A client talks to the proxy's
HTTP server, to which this repository adds endpoints; their handlers call the
facade, and the facade calls the simulator.

| Component | State | Operations | Hard because of | Correct when |
|---|---|---|---|---|
| `pkg/proxy/api/endpoints.go` | none, one goroutine per request | parse, call the facade, respond | conversions of numbers, responses after errors, requests in parallel | one answer per request that says what happened |
| `pkg/facade/simulatorFacade.go`, epochs | none; the epoch is the chain's | `ForceChangeOfEpoch`, `GenerateBlocksUntilEpochIsReached` | epoch read in one call and forced in another, no lock | success only at the target, bounded overshoot, an end |
| the facade, transactions | loop counter | `GenerateBlocksUntilTransactionIsProcessed` | status and block are two calls, other blocks between | success only if final, limit kept, little waste |
| the facade, accounts | none; the accounts are the chain's | `SetKeyValueForAddress`, `SetStateMultiple`, `SetStateMultipleOverwrite` | remove, write and block are separate calls, each may fail | old state gone, new state there and visible |
| the facade, the rest | none; the statistics have a cache in the node and one in the proxy | `AddValidatorKeys`, `GetObserversInfo`, `GetInitialWalletKeys`, `ForceUpdateValidatorStatistics`, `GenerateBlocks` | errors in the middle of a list or a map, two caches of which one is reset | nothing passed on after an error, a reset is seen in the end |
| `pkg/process`, `pkg/factory` | ticker, context | create, loop, `Close` | slow blocks, errors, `Close` during a block, block times that overflow | goes on until closed, no bursts, ends when closed, panics only on overflow |
| `cmd/chainsimulator/main.go` | what has been started | start in order, signal, stop in order | signals, server goroutine, requests that never end | used when ready, closed before the exit |
| `pkg/proxy/creator` | HTTP server, processors with tasks of their own | `CreateProxy`, `Start`, `Close` | the listener fails in a goroutine, the port is found before it is used, shutdown with a deadline | the URL announced is served, every task is ended, `Close` returns |
| `pkg/proxy/configs` (fetcher, git, copy) | files on a disk shared by processes | clone, checkout, copy, remove | several processes, kills, restarts | whole folders of one version |
| `pkg/proxy/configs/configs.go` | a copy of the proxy's folder | `CreateProxyConfigs`, the file of the wallets | what the folder brings along: observers, a port, keys | the proxy is that of this chain |
| `config`, `main.go` overrides | list of files, merged overrides | `determineOverrideConfigFiles`, `ReadAll`, `AlterConfigsFunction` | order of files, an error in a function that cannot return one | last file wins, no error lost |
| `main.go`, `flags.go` | – | flags, numbers of validators | checked as `int`, passed as `uint32` | what was checked is what is passed |
| `/log` route | – | websocket to the logger's library | outlives the server, shared upgrader | keeps nothing from ending |
| `scripts`, `examples` | – | clients, launcher of several instances | ports, shared directories | – |

How they interact: main calls the factory, the creator and the endpoints once, in
order; handlers call the facade in goroutines of the HTTP server; the facade and
the generator call the simulator, from goroutines that share no lock of this
repository; the proxy's processors ask the nodes over HTTP in goroutines of their
own; processes meet in the temporary directory and at the ports.

The simulator and the proxy's library are outside the repository. They appear as
the code of the repository uses them: a call of the simulator is one step whose
result may be an error, and the effect of a call that failed is any part of the
whole effect.

## 2. The modules

Every behavioural module has an `MC...` module with the small sets for TLC and
one `.cfg` for each run. Definitions whose comment begins with "A defect" belong
to no model: they are plausible mistakes in the code, kept next to the definition
they replace, each showing that some property notices it.

### EpochChange, EpochService

`EpochChange` is `POST /simulator/force-epoch-change` and
`POST /simulator/generate-blocks-until-epoch-reached/:epoch`, from the query to
the bodies of the response.

| Code | Model |
|---|---|
| goroutine of a request | `pc[r]`: `new`, `read`, `force`, `reread`, `next`, `until`, `done` |
| `targetEpoch` before and after `uint32(...)`, `int32(...)` | `sent`, `target`; `ToUint32`, `ToInt32`, with `Modulus` for 2^32 |
| `getTargetEpochQueryParam`, handlers | `Reject`, `ReceiveForce`, `ReceiveUntil` |
| `currentEpoch := sf.getCurrentEpoch()` and the refusal | `ReadEpoch` |
| body of the loop: `ForceChangeOfEpoch()`, then the epoch again | `ForceSucceeds`, `ForceFails`, `RereadEpoch` |
| `targetEpoch == 0` | `ForceNext` |
| response bodies, with the one a missing `return` adds | `answer`, a sequence; `AnswerForce`, `AnswerUntil` |
| blocks of anybody else that start an epoch | `OtherEpochStart` (bound `MaxOther`) |

`base`, `forced` and `late` are history variables. `EpochService` is the promise
without the steps: the epoch grows, a request is decided once, and as `reached` or
`refused` only when the chain is at the goal. `ServiceKept` says that `EpochChange`
implements it, with the goal mapped to `target` and the verdict read off `pc` and
`answer`; `RequestsAnswered` is its liveness, that every accepted request is decided.
`EpochReached` speaks of the number the client sent as well as of the target:
`Fits` says when the conversion to 32 bits leaves it as it is. Beyond, nothing is
claimed: a `targetEpoch` of 2^32 + n is answered like n, and
`generate-blocks-until-epoch-reached` answers success after one block for a number
that `int32` turns negative.

`forceEpochChange` has no `return` after the error response (`endpoints.go:111`), so
that a request which is refused or fails gets the body of an error and behind it, in
the same response, that of a success with the code `successful`, where the README
documents `400` as "Invalid request parameters". `AnswerForce` writes both. The
properties go by the first body, which the status line belongs to.

Two requests may read the same epoch and both force it. The code does not exclude
that, and the properties say what it costs: `EpochReached` holds all the same,
each request is late at most once (`AtMostOneLateForce`), and none forces more
epochs than it was away from its target (`ForcesWithinDistance`). As long as
nobody else has moved the chain, it stops at the target exactly (`ExactWhenAlone`). `StepsLeft` bounds
the steps a request has before it, by what its loop knows of the epoch;
`EveryStepCounts` says that each step of its own lowers the bound and no step of
anybody else raises it, which is why the loop ends although it has no bound.

### TransactionProcessing, TransactionService

`POST /simulator/generate-blocks-until-transaction-processed/:txHash`. A
transaction is the number of blocks after which its status is no longer pending
(`remaining`), chosen in `Init`. `AskStatus` is the status call with its error and
its early return, `GenerateBlock` and `FailToGenerate` the block, `Loop` the
condition of the `for` and the error after it. `Receive` has
`getMaxNumBlocksToGenerate`, so that limits may be zero, negative, missing or
malformed. `OtherBlock` is a block of any other caller. `AtMostOneWasted` and
`GivenUpIsSlow` relate the answer to the chain.

`TransactionService` is the promise: a client opens an account of blocks, each
block generated for it is taken from the account, the answer is `processed` when
the transaction is final, `gaveUp` when the account is empty and not before,
`failed` after an error, and there is one answer. `ServiceKept` says that the
endpoint implements it, the account being `limit - made`; success only of a final
transaction (`ProcessedIsFinal`) and the limit (`BlocksWithinLimit`) are parts of
it. `RequestsAnswered` is its liveness.

### AccountState, AccountStore

The three endpoints that write accounts. What an account holds is the set of
requests whose values are in it, with `Genesis` for what it had at the start: the
properties only need to know whose values are where. `working` is what the last
write left, `visible` what the last block made of it. `Remove` and `RemoveFails`
are one turn of the loop over `RemoveAccounts` ("account was not found" is no
error for the loop: removing an absent account changes nothing and goes on),
`SetState` and `SetStateFails` the write, of all accounts or of the first few,
`GenerateBlock` and `FailToGenerate` the block unless `noGenerate` is set. A block
of another caller may fall between any two of them. `OldStateCleaned` covers what
was there when an overwrite arrived; what arrives while it runs is the finding
`OverwritesExclude`. `ShownUntilRemoved` is about the order of writes, removals and
blocks: what a block has shown goes only after another request has removed it.

`AccountStore` is the promise: a request empties accounts it names, then writes
once, to all of them unless it fails, then waits for a block if it asked for one,
and touches nothing any more. `StoreKept` says that the three endpoints implement
it. Of the code it hides the loop, its order and its repetitions, and which
endpoint was called.

### BlocksGenerator, Lifecycle, ServerProcess

`BlocksGenerator` is the component: `Create` is the factory with the disabled
generator and the refusal of a block time, `Interval` the product of the block time
and a millisecond in 64 bits with a sign, `StartTicker` and `Panic` what
`time.NewTicker` does with it in a goroutine that does not recover, `Tick` the
ticker with its buffer of one, `TakeTick`, `GenerateSucceeds`, `GenerateFails` and
`TakeDone` the `select` loop, `Close` the cancellation.

`Lifecycle` extends it and composes it with the main goroutine (`main`: the next
statement of `startChainSimulator`), the server's goroutine (`Listen`), the requests
(`Connect`, `Call`, `Return`, `Answer`: a handler makes any number of calls of any
length; `Upgrade`, `EndStream`: a websocket of `/log`, which the server knows
nothing of), other processes that take and release the port (`OtherProcess`) and
signals. A signal kills the process before `signal.Notify`, and is a message on the
channel after it. `CreateSimulator` ... `NotifySignals` are the statements in their
order, each with its error, which ends the process. `CreateProxy` is three of them:
`StartSyncChecks` starts the goroutine of the base processor, `StartCaches` notes
what `Close` must close and starts two more, `ExtendProxy` is the rest; an error
between them leaves goroutines that nobody closes, and ends the process.
`CloseGenerator`, `CloseSimulator`, `CloseComponents`, `BeginShutdown` and
`EndShutdown` are the end, with the one second that `Shutdown` waits before `Close`
cuts what is left.

`ShutdownCompletes` is the conjunction of three promises: the generator's goroutine
ends once it is closed, a signal gets main to `simulator.Close`, and what follows
that ends the process. `CleanExit` is the state the process ends in.
`PanicsOnOverflowOnly` says that the check of the block time leaves only one way to
panic. `AnnouncedServes` says that the server does listen behind the URL, unless
another process has the port.

`ServerProcess` is the process as its clients see it: it gets a chain, perhaps a
goroutine that adds blocks to it, is up, drains, exits or dies. `ProcessKept` says
that `Lifecycle` implements it: neither the generator nor a client finds a chain
that is not ready (`ReadyBeforeUse` says the same of the state, and adds the
processors of the proxy); nobody is accepted by a process that drains, though the
server's goroutine may get to listen only when main shuts it down; the process
drains only when a signal has arrived, and exits only when each client has been
answered or cut off.

### Startup

The statements of `startChainSimulator` that `Lifecycle` has without their data.

| Code | Model |
|---|---|
| `determineOverrideConfigFiles` | `NamesDefault`, `WithDefault`, `DetermineOverrideConfigFiles` |
| `ReadAll`, one turn of the loop | `ReadFile`; `merged` is `mergedConfigs` |
| the logger, `fetchConfigs`, `fetch-configs-and-close` | `FetchConfigs` |
| the four checks and the `uint32(...)` in `ArgsChainSimulator` | `Accepted`, `ToUint32`, `CheckNumbers` |
| `AlterConfigsFunction` | `ApplyOverride` (one override), `AllApplied`; its error is `alterConfigsError` |
| `NewChainSimulator` goes on, and the check behind it | `BuildChain`, `CheckAlterError` |
| accounts, first block, generator | `PrepareChain` (its steps are in `Lifecycle`) |
| `CreateProxyConfigs`: `cp -r` | `CopyFolder`; `pem` is the `walletKey.pem` that comes along, if any |
| ... `LoadTomlFile` | `LoadConfig`: the observers and the port of the folder's `config.toml` |
| ... what it replaces, and the opening of the file of the wallets | `AdaptConfig`, `ReplaceObservers` |
| the loop of `generatePemFromInitialAddress` | `WriteWallet`, any order; `WriteBlock` at the place of the next block |
| the port of the proxy and the URL | `ChoosePort` |

An override is an option and a value; a file is a list of them, or nothing that can
be read. `LastFileWins` compares the configuration the chain is built with to the
files themselves, without the list they were merged into. The folder of the proxy was
made for another chain, and its configuration is in the state from `LoadConfig` on:
`ProxyServesThisChain` says that none of its observers and not its port are left when
the proxy is created. Its keys are another matter: the file is opened without
truncation, so that the keys behind the initial wallets stay if the folder's own file
was longer (`oldPem` is what it held). `PemHasWallets` says exactly that: the wallets
once each, then the tail of the old file. `FaucetIsFunded`, that the faucet has no key
the chain gave nothing to, does not hold, which is a finding. A file of the user whose
path contains `nodeOverrideDefault.toml` takes the place of the default, wherever it
lies: `DefaultNamed` are those paths. A block of the file of the wallets is one
element of a sequence: that all blocks have the same length, so that a new one
covers an old one, is an abstraction.

### ValidatorService

`add-keys`, `force-reset-validator-statistics`, `observers`, `generate-blocks` and
`initial-wallets`: the requests that make one call of the simulator.

| Code | Model |
|---|---|
| `ShouldBindJSON`, `Param`, `Atoi` | `ReceiveKeys`, `ReceiveGenerate`, accepted or refused |
| one turn of the loop of `AddValidatorKeys`, and the call behind it | `Decode`, `AddValidatorKeys` |
| one turn of the loop of `GetObserversInfo`, any order; its end | `Observer`, `AllObservers` |
| `GenerateBlocks` with its check | `Positive`, `GenerateBlocks` |
| `ForceResetValidatorStatisticsCache` | `ForceReset`, on `nodeCache` |
| the proxy's cache (`creator.go:120-138`) | `Fetch`, `Store`, on `proxyCache` |

Statistics are the height of the chain they were made at. A reset renews those of
the node; a client that reads them from the proxy gets the proxy's copy, which a
goroutine renews. A refresh may have read before the reset and store after its
answer, so that one refresh after the answer is not enough (TLC finds the
interleaving); two are, which is `FreshAfterTwoRefreshes`. `ResetReachesClients`
says that it comes to that. Both hold the reset of this repository to what it answers
over caches that other repositories keep; how those work is modelled as external.
`AnswersAreTrue` relates what the answers of the other
endpoints say to what has become of keys, observers and blocks.

### ConfigsFetcher, CloneLock

Several processes in one working directory fetch the folder of the node and that
of the proxy. `Stat` is the look at the folder, with `FolderExists` for the errors of
`os.Stat` that are taken as its existing (`Unseen`), `BeginClone`, `EndClone`, `FailClone` and
`RefuseClone` are `git clone` into the directory all of them share, `Checkout`,
`MakeFolder`, `CreateFile` and `WriteFile` the checkout and the copy file by file,
`RemoveClone` the end. `Fail` is an error of any of them, `Kill` and `Restart` a
process that dies and the user who starts it again. `repoOf`, `made` and `content`
are the disk: they survive. `broken` is history.

`git` creates the directory and occupies it in one step; two clones that pass
its check of an empty directory at the same instant are not distinguished. A clone
that fails, or that a signal ends together with the process, takes its directory with
it (`GitGivesUp`); `Kill` may also leave it. A `git` that outlives the process that
started it, and goes on in the directory, is not modelled.

`CloneLock` is what that directory is used as: a lock that a process takes without
waiting, gives back, or leaves when it fails or is killed. `LockKept` says
that `ConfigsFetcher` implements it, for a holder that is the process between its
clone and the removal; that there is one at most is `CloneExclusive`. A directory that
was left blocks every later fetch until somebody removes it by hand, if `git` ended
with its process. Under the lock no folder gets files of two versions unless a copy
was broken off (`MixtureIsExplained`), though two processes may copy one after the
other into the folder that both did not find; what a broken copy leads to is the
finding `ReadyHasAllConfigs`. `EveryStepCounts` bounds the steps of a
process by the files it has to copy.

## 3. Runs

| Run | Instance | Shows |
|---|---|---|
| `epoch_all` | 2 requests, numbers -1, 0, 2, 3, 6, 8, 10 modulo 8, 1 epoch start of others | `TypeOK`, `EpochReached`, `AtMostOneLateForce`, `ExactWhenAlone`, `RequestsAnswered`, and `ServiceKept`, the refinement of `EpochService` |
| `tx_all` | 2 requests, 2 transactions of 0 to 3 blocks, limits -1, 0, 1, 3 and the default 2, 1 other block | `TypeOK`, `AtMostOneWasted`, `GivenUpIsSlow`, `RequestsAnswered`, and `ServiceKept`, the refinement of `TransactionService` |
| `account_two` | 2 requests, 2 accounts, 4 lists with both orders and one account twice, blocks at any time | `TypeOK`, `OldStateCleaned`, `MissingOnlyInOverwrite`, `ShownUntilRemoved`, and `StoreKept`, the refinement of `AccountStore` |
| `lifecycle_all` | 2 requests, 3 shards, durations of 4 bits, block times that are refused, fit, and overflow to a negative and to a positive duration, another process at the port, a signal at every moment | `TypeOK`, `NoCatchUp`, `PanicsOnOverflowOnly`, `CleanExit`, `KeepsGenerating`, `ShutdownCompletes`, `AnnouncedServes`, and `ProcessKept`, the refinement of `ServerProcess` |
| `configs_two` | 2 processes of 2 versions, 2 files a folder, each restarted once, a look at the node's folder that may fail | `TypeOK`, `CopiedInOneVersion`, `MixtureIsExplained`, `FetchEnds`, and `LockKept`, the refinement of `CloneLock` |
| `startup_all` | 3 files of 6 contents in 4 arguments of 1 to 3 files, 2 options, numbers 0, 1 and 8 modulo 8 in 4 flags, 2 shards, 3 ports, 2 wallets, a folder with an observer and a port of its own and an old file of no, 1 or 3 keys | `TypeOK`, `LastFileWins`, `NoOverrideLost`, `ValidatorsAsAsked`, `ProxyServesThisChain`, `PemHasWallets` |
| `validators_all` | 2 requests, lists of 1 or 2 texts with a bad one in each place, 2 shards of which one may have no port, heights up to 2 | `TypeOK`, `AnswersAreTrue`, `FreshAfterTwoRefreshes`, `ResetReachesClients` |
| `tx_pending` | 1 request | finding: `GivenUpIsPending` does not hold |
| `account_exclude` | 2 requests | finding: `OverwritesExclude` does not hold |
| `lifecycle_announce` | as `lifecycle_all` | finding: `AnnouncedIsAccessible` does not hold |
| `configs_restart` | 1 process | finding: `ReadyHasAllConfigs` does not hold |
| `startup_faucet` | 1 file, 2 wallets, an old file of no, 1 or 3 keys | finding: `FaucetIsFunded` does not hold |

Why the bounds are enough. The epoch, transaction and account models are
symmetric in their requests, and each property is about one request against the
rest of the world: a second request takes every part the world can play, and the
block or the epoch start of another caller stands for callers outside the model.
The numbers of `epoch_all` lie on both sides of every conversion: negative, zero,
in range, above the largest int32 (6; and -1 becomes the largest uint32), at
the modulus and beyond. A limit of 3 for a transaction of up to 3 blocks has the
limits below, at and above the need. Two accounts and a list of two give every
partial failure there is: nothing done, one done, all done. Two files make a copy
that is half done; one restart each makes a process that meets what a killed
process left, itself or another. In `lifecycle_all` a millisecond is 3 and the
largest duration 7: block time 1 fits, 3 and 6 overflow, one to each sign. In
`startup_all` the contents have an option once, twice in one file, in two files, a
value that cannot be assigned behind one that can, and a file that cannot be read;
the modulus is a number a user may send, and the old file of keys is shorter and
longer than the new one. In `validators_all` the two caches and the goroutine
between them see two heights, which is enough to tell old from new, and a second
request. The theorems below hold without bounds.

Some properties are defined and proved (section 5) and have no place in a run: those
whose substance a refinement or a stronger property of the run covers
(`ProcessedIsFinal`, `BlocksWithinLimit`, `WrittenWhenAnswered`,
`AppliedWhenAnswered`, `CloneExclusive`, `ReadyBeforeUse`), `ForcesWithinDistance`, and the step counts (`EveryStepCounts`),
whose consequence, that every request is answered and every fetch ends, the runs
check.

### Findings

* `tx_pending`: the transaction that the last allowed block processes is answered
  with "transaction is still in pending": the status is not asked again after it.
* `account_exclude`: two overwrites of one account at the same time remove, remove,
  write and write: both answer success and the account has the values of both.
* `lifecycle_announce`: an error of `ListenAndServe` stays in its goroutine; main
  announces the URL ten milliseconds later all the same, and waits for a signal.
  The port may have been taken since main found it free.
* `configs_restart`: after a copy that failed half way the folder exists, which is
  all that the next start looks at.
* `startup_faucet`: a folder of the proxy with more keys than the chain has wallets
  leaves the rest in the file the faucet is given. The chain gave those keys no
  balance, so that a request the faucet pays for with one of them brings no tokens,
  which is what `examples/faucet/faucet.sh` checks.

The second body of `forceEpochChange` (section 2) is a defect of the same kind, which
one request shows; no run is spent on it.

## 4. Fairness

* `EpochChange`, `TransactionProcessing`: weak fairness of the steps of each
  request that has arrived: the Go scheduler runs every goroutine that can run,
  and a call of the simulator returns. No client is made to send a request.
* `AccountState`: no liveness is stated; its loop is over a finite list.
* `ConfigsFetcher`: weak fairness of the steps of each process; nothing obliges a
  process to be killed or started again. This assumes that `git` returns:
  `fetcher.go:17` and `:28` run it without a timeout, so that a clone that hangs keeps
  the start for ever, and `FetchEnds` says nothing of it.
* `Lifecycle`: weak fairness of main and of the server's goroutine, of the ticker
  and of the end of the generator's call, which assumes that a call of the simulator
  ends: nothing in the repository bounds it. **Strong** fairness of the two branches
  of the `select`: Go chooses at random between branches that are ready, so that a
  branch that is ready again and again is taken in the end. Nothing is assumed of
  `simulator.Close`, nor of the calls of the requests, nor of websockets and other
  processes: the first two parts of `ShutdownCompletes` hold although those may
  never return, and the third begins when `simulator.Close` has returned.
* `ValidatorService`: weak fairness of the steps of each request that has arrived
  and of the proxy's goroutine. The node need not refresh by itself.
* `Startup`: none; it is one goroutine, and only what it does is in question.

`TransactionProcessing` and `EpochChange` end when every request has been
answered, `Lifecycle`, `Startup` and `ConfigsFetcher` when the processes have ended
or, in `Startup`, started; an explicit stuttering action stands for it
(`AllAnswered`, `Ended`, `Over`, `AllOver`), so that deadlock is checked everywhere.
In `AccountState` a block is always possible, in `ValidatorService` a refresh.

## 5. Proofs

The proofs assume the named assumptions of the modules only: numbers are
integers, `Missing` and `Invalid` are none, bounds are naturals, the modulus is
positive, lists contain addresses, the contents of files are distinct, a folder has
finitely many files, keys of other chains are none of the wallets.

Three kinds of results. *Invariants* are proved from an inductive one (`IInv`,
theorem `Invariance` of each module). *Action properties* speak of what any step may
do; they need the invariant, and their proofs go through the actions one by one.
*Refinements* show that initial states map to initial states of the abstract
specification, and every step to one of its steps or to none; the view of the
abstract state (`Verdict`, `Stage`, `Phase`, `Holds`) comes first, with lemmas on what
it becomes when `pc` or `main` moves.

* **EpochChangeProofs**: `TypeOK`, `EpochReached`, `AtMostOneLateForce`,
  `ForcesWithinDistance`. None of them is inductive: what makes an answer right is
  what the loop knew when it gave it. `LoopInv` says what that is at each label: at
  `force` the local `current` is below the target, is no later than the chain, and
  is at least the first epoch plus the forces made; no force has been late. At
  `reread` the forces fit between the first epoch and the target, and a late one
  leaves the chain at the target, so that the next condition ends the loop.
  `AnswerInv` keeps the answers true, since the epoch never goes back. `Frame` is
  used by every step for the other requests. `Carried`, kept beside it, says that a
  number that fits is the target. `ServiceImplemented` is `ServiceKept`: a step of a
  request either leaves every verdict (`Advances`), or is the one that decides it
  (`Decides`), or asks. `ExactAlone` has an invariant of its own (`AloneInv`), which
  knows how far the chain is at every label, and a lemma that what keeps a request
  alone does not move the chain (`AloneFrame`). `StepsCounted` is `EveryStepCounts`.
* **TransactionProcessingProofs**: `TypeOK`, `ProcessedIsFinal`,
  `BlocksWithinLimit`, `AtMostOneWasted`, `GivenUpIsSlow`. The key of the invariant
  is that in the loop the transaction is final, or what it still needs plus the
  blocks made is at most what it needed at first: other blocks only lower the sum.
  `ServiceImplemented` is `ServiceKept`: `GenerateBlock` takes one from the account and
  gives up if that was the last, since the loop counts the same; the rest of the
  steps answer, or only move `pc`. `StepsCounted` is `EveryStepCounts`.
* **AccountStateProofs**: `TypeOK`, `OldStateCleaned`, `AppliedWhenAnswered`,
  `WrittenWhenAnswered`, `MissingOnlyInOverwrite`. The invariant adds the progress of
  the loop (`Progress`), that values old for a request belong to requests that are
  over and can write no more (`OldAreDone`), that accounts removed so far are clean
  (`Cleaned`), that what is written stays unless another overwrite took it
  (`Kept`), and who answers for an account that is missing (`Missing`). `ShownStays`
  is `ShownUntilRemoved`: it needs that values are nowhere before their request writes
  (`Unwritten`) and that what is visible is still there or was removed by another
  (`Shown`); `Allowed` is what all steps have in common. `StoreImplemented` is
  `StoreKept`.
* **ConfigsFetcherProofs**: `TypeOK`, `CloneExclusive`, `CopiedInOneVersion`,
  `MixtureIsExplained`. The directory works as a lock that a process which fails or
  is killed does not give back (`HoldInv`); under it the copied part of a folder is of
  one version (`CopyInv`), since no other process copies (`OneCopies`).
  `LockImplemented` is `LockKept`, and `StepsCounted` is `EveryStepCounts`, which is
  arithmetic on the cardinality of the files left.
* **LifecycleProofs**: `TypeOK`, `NoCatchUp`, `PanicsOnOverflowOnly`,
  `ReadyBeforeUse`, `CleanExit`. `GeneratorInv` has the reason why ticks do not pile
  up: a tick at hand and a call since it fired are never both there. `StartInv` says
  what has been reached when main is at a statement, and which goroutines exist only
  after it; `EndInv` the same of the end. Arithmetic is in one lemma
  (`IntervalFits`): a product that fits is the interval. `ProcessImplemented` is
  `ProcessKept`, with one lemma for each goroutine.
* **StartupProofs**: all the properties but the finding.
  `SaysWhatFilesSay` relates the merged list to the files read so far, `Assigned` the
  configuration to the overrides assigned so far; each is kept by one turn of its
  loop, and together they give `LastFileWins` when both loops are over. `Begins` says
  that the file of the wallets begins with those written, each once, and is the old
  one behind them; `ProxyInv` says what of the folder's configuration is left at each
  statement.
* **ValidatorServiceProofs**: `TypeOK`, `AnswersAreTrue`, `FreshAfterTwoRefreshes`.
  `ResetInv` is the argument about the caches: after a reset has been answered the
  node's copy is new; after one more refresh, whatever is under way is new; after
  two, the proxy's copy is.

Only model-checked: the liveness properties `RequestsAnswered`, `FetchEnds`,
`KeepsGenerating`, `ShutdownCompletes`, `AnnouncedServes` and `ResetReachesClients`.
To prove them needs that the steps fairness speaks of are enabled, which is beyond
the prover. `StepsCounted`, three times, is the part of the argument that can be
proved: no loop of a request or of a fetch goes on without coming closer to its end.

## 6. Not modelled, and why

* The chain itself: consensus, processing of transactions, the trie. Its calls are
  steps with an outcome.
* Two calls of the simulator at the same time: that the library serializes its own
  calls is an assumption, since this repository has no lock around them. Only
  `Lifecycle` lets calls overlap, as it looks at when they begin and end and not at
  what they do.
* Texts of errors, logging, metrics, and what is sent over `/log`. The upgrader its
  requests share is assigned the same function by each of them: a data race without
  an effect that the models could tell.
* The wiring of the proxy's processors in `CreateProxy`, beyond those that start
  goroutines or keep the statistics, and what processors answer once they have been
  closed: that is decided in the proxy's repository.
* `applyFlags` and the flags' texts: assignments of single values of which none
  depends on another. The values that matter later (numbers of validators, port,
  block time, override files) are inputs of `Startup` and `Lifecycle`.
* `extractTag`: a search in a string for the version to check out, which
  `ConfigsFetcher` takes as a constant of each process. A version with a dash is cut
  to what follows the last one, which is right for the commit of a pseudo-version.
* Files left on the disk by a start that fails: the process is over.
* `testscommon`: stubs of the tests.

## 7. Plan

Done, in this order: `EpochChange` with `EpochService` and its proofs (the one
loop of the facade that depends on a state it does not own),
`TransactionProcessing`, `AccountState`, `BlocksGenerator` and `Lifecycle`,
`ConfigsFetcher`; then `Startup`, ports, websockets and the overflow of the block
time in `Lifecycle`, `ValidatorService`, and the proofs of these three; then the
abstract specifications `TransactionService`, `AccountStore`, `ServerProcess` and
`CloneLock` with their refinements, the step counts, and the action properties.

Left, in the order of what they would add:

1. The composition of `ConfigsFetcher` with `Startup`: a folder that is incomplete
   when the chain is built from it.
2. `extractTag` over lists of dependencies, in `ConfigsFetcher`.
