-------------------------- MODULE TransactionProcessing ------------------------
(* POST /simulator/generate-blocks-until-transaction-processed/:txHash          *)
(* The facade asks for the status of the transaction and generates one block,   *)
(* over and over, up to a number of blocks the client may choose.  Requests for *)
(* the same transaction and the blocks of other callers interleave between the  *)
(* status and the block.  What a transaction needs is unknown to the code: it   *)
(* is a number of blocks after which its status is no longer pending.           *)
EXTENDS Integers

CONSTANTS
    Request,       \* the HTTP requests; each is served once
    Tx,            \* the transactions
    Number,        \* the integers a client may send as maxNumBlocks
    Missing,       \* the request without that parameter
    Invalid,       \* a text strconv.Atoi refuses
    DefaultLimit,  \* maxNumOfBlockToGenerateUntilTxProcessed
    MaxNeeded,     \* bound: the blocks a transaction may need
    MaxOther       \* bound: blocks generated by other callers

ASSUME NumberAssumption == Number \subseteq Int
ASSUME QueryAssumption == Missing \notin Int /\ Invalid \notin Int
ASSUME BoundAssumption == DefaultLimit \in Nat /\ MaxNeeded \in Nat /\ MaxOther \in Nat

VARIABLES
    remaining,  \* the blocks each transaction still needs; 0: not pending
    others,     \* blocks of other callers so far
    pc,         \* where the goroutine of each request is
    tx,         \* the transaction each request names
    limit,      \* maxNumOfBlocksToGenerate of each request
    made,       \* the loop counter i of each request: the blocks it generated
    answer,     \* what the handler responded
    needed,     \* history: remaining[tx] when a request asked for it first
    wasted      \* history: blocks a request generated for a finished transaction

vars == <<remaining, others, pc, tx, limit, made, answer, needed, wasted>>

Query == Number \cup {Missing, Invalid}

\* getMaxNumBlocksToGenerate: whatever is no number counts as the default.
LimitOf(q) == IF q \in {Missing, Invalid} THEN DefaultLimit ELSE q

\* One block of every shard.
AfterBlock == [t \in Tx |-> IF remaining[t] > 0 THEN remaining[t] - 1 ELSE 0]

--------------------------------------------------------------------------------
Init ==
    /\ remaining \in [Tx -> 0 .. MaxNeeded]
    /\ others = 0
    /\ pc = [r \in Request |-> "new"]
    /\ tx \in [Request -> Tx]
    /\ limit = [r \in Request |-> 0]
    /\ made = [r \in Request |-> 0]
    /\ answer = [r \in Request |-> "none"]
    /\ needed = [r \in Request |-> 0]
    /\ wasted = [r \in Request |-> 0]

Goto(r, label) == pc' = [pc EXCEPT ![r] = label]

Respond(r, a) == Goto(r, "done") /\ answer' = [answer EXCEPT ![r] = a]

OneTooMany(i, max) == i <= max          \* a defect: one turn too many

\* A defect: the last turn is never taken.
OneTooFew(i, max) == i + 1 < max

InLoop(i, max) == i < max

Decremented(i) == i - 1                 \* a defect: the counter runs backwards

NextTurn(i) == i + 1

\* The condition of the loop; after it, the error that the transaction is
\* still pending, which looks at no status again.
Loop(r, i, max) ==
    \/ InLoop(i, max) /\ Goto(r, "status") /\ UNCHANGED answer
    \/ ~InLoop(i, max) /\ Respond(r, "stillPending")

Receive(r, q) ==
    /\ pc[r] = "new"
    /\ limit' = [limit EXCEPT ![r] = LimitOf(q)]
    /\ Loop(r, 0, LimitOf(q))
    /\ UNCHANGED <<remaining, others, tx, made, needed, wasted>>

NeverFinal(t) == FALSE                  \* a defect: every status looks pending

AlwaysFinal(t) == TRUE                  \* a defect: no status looks pending

Final(t) == remaining[t] = 0

\* transactionHandler.GetProcessedTransactionStatus, which may fail.
AskStatus(r) ==
    /\ pc[r] = "status"
    /\ needed' = [needed EXCEPT ![r] = IF made[r] = 0 THEN remaining[tx[r]] ELSE @]
    /\ \/ Respond(r, "failed")
       \/ Final(tx[r]) /\ Respond(r, "processed")
       \/ ~Final(tx[r]) /\ Goto(r, "generate") /\ UNCHANGED answer
    /\ UNCHANGED <<remaining, others, tx, limit, made, wasted>>

\* simulator.GenerateBlocks(1) succeeds and the loop goes round.
GenerateBlock(r) ==
    /\ pc[r] = "generate"
    /\ remaining' = AfterBlock
    /\ made' = [made EXCEPT ![r] = NextTurn(@)]
    /\ wasted' = [wasted EXCEPT ![r] = IF remaining[tx[r]] = 0 THEN @ + 1 ELSE @]
    /\ Loop(r, NextTurn(made[r]), limit[r])
    /\ UNCHANGED <<others, tx, limit, needed>>

\* A defect: the error of GenerateBlocks is ignored and the turn is not counted.
FailedBlockIgnored(r) ==
    /\ pc[r] = "generate"
    /\ remaining' \in {remaining, AfterBlock}
    /\ Goto(r, "status")
    /\ UNCHANGED <<others, tx, limit, made, answer, needed, wasted>>

\* It fails, on some of the shards or on all of them.
FailToGenerate(r) ==
    /\ pc[r] = "generate"
    /\ remaining' \in {remaining, AfterBlock}
    /\ Respond(r, "failed")
    /\ UNCHANGED <<others, tx, limit, made, needed, wasted>>

OtherBlock ==
    /\ others < MaxOther
    /\ others' = others + 1
    /\ remaining' = AfterBlock
    /\ UNCHANGED <<pc, tx, limit, made, answer, needed, wasted>>

AllAnswered ==
    /\ \A r \in Request : pc[r] = "done"
    /\ UNCHANGED vars

Serve(r) ==
    \/ AskStatus(r)
    \/ GenerateBlock(r)
    \/ FailToGenerate(r)

Next ==
    \/ \E r \in Request : Serve(r) \/ \E q \in Query : Receive(r, q)
    \/ OtherBlock
    \/ AllAnswered

Fairness == \A r \in Request : WF_vars(Serve(r))

Spec == Init /\ [][Next]_vars /\ Fairness

--------------------------------------------------------------------------------
\* The type invariant: every variable holds a value the code can give it.
TypeOK ==
    /\ remaining \in [Tx -> 0 .. MaxNeeded]
    /\ others \in 0 .. MaxOther
    /\ pc \in [Request -> {"new", "status", "generate", "done"}]
    /\ tx \in [Request -> Tx]
    /\ limit \in [Request -> Int]
    /\ made \in [Request -> Nat]
    /\ answer \in [Request -> {"none", "failed", "processed", "stillPending"}]
    /\ needed \in [Request -> 0 .. MaxNeeded]
    /\ wasted \in [Request -> Nat]

\* A request answered with success finds its transaction processed.
ProcessedIsFinal ==
    \A r \in Request : answer[r] = "processed" => remaining[tx[r]] = 0

\* No request generates more blocks than its client allowed, and none at all when
\* the client sent zero or a negative number.
BlocksWithinLimit ==
    \A r \in Request : made[r] > 0 => made[r] <= limit[r]

\* Between the status and the block another caller may finish the transaction;
\* the block is then generated for nothing, but never a second one.
AtMostOneWasted == \A r \in Request : wasted[r] <= 1

\* Only a transaction that needs as many blocks as the client allowed, or more,
\* is given up: blocks of other callers never make a request give up earlier.
GivenUpIsSlow ==
    \A r \in Request : answer[r] = "stillPending" /\ limit[r] > 0 => needed[r] >= limit[r]

\* The steps the goroutine of a request has before it: two to a turn of its loop.
StepsLeft(r) ==
    CASE pc[r] = "status" -> 2 * (limit[r] - made[r])
      [] pc[r] = "generate" -> 2 * (limit[r] - made[r]) - 1
      [] OTHER -> 0

\* A step counts down if it is the request's own, and changes nothing if not.
StepCounts(r) ==
    pc[r] # "new" =>
        IF pc'[r] = pc[r] THEN StepsLeft(r)' = StepsLeft(r)
                          ELSE 0 <= StepsLeft(r)' /\ StepsLeft(r)' < StepsLeft(r)

\* A request that was received ends after as many steps of its own as its limit
\* allows, and nothing the other requests and the other blocks do sets it back.
EveryStepCounts == [][\A r \in Request : StepCounts(r)]_vars

--------------------------------------------------------------------------------
\* The promise of the endpoint without its steps (TransactionService).
Verdict(r) ==
    CASE pc[r] = "new" -> "idle"
      [] pc[r] \in {"status", "generate"} -> "pending"
      [] pc[r] = "done" /\ answer[r] = "processed" -> "processed"
      [] pc[r] = "done" /\ answer[r] = "stillPending" -> "gaveUp"
      [] OTHER -> "failed"

Service == INSTANCE TransactionService WITH
    verdict <- [r \in Request |-> Verdict(r)],
    allowance <- [r \in Request |-> limit[r] - made[r]]

\* Every block a request generates is on its client's account, giving up comes at
\* the end of the account and not before, and no request is answered twice.
ServiceKept == Service!Safety

\* Every request that was received is answered.
RequestsAnswered == Service!Answering

--------------------------------------------------------------------------------
\* What the error says: "something went wrong, transaction is still in pending",
\* so that the transaction is pending when a request gives up.
GivenUpIsPending ==
    [][\A r \in Request :
           answer[r] = "none" /\ answer'[r] = "stillPending" => ~Final(tx[r])']_vars

===============================================================================
