--------------------------- MODULE TransactionService --------------------------
(* What the endpoint that waits for a transaction promises to its callers: it    *)
(* spends a block of the client's allowance for every block it generates and not *)
(* one more, says that the transaction is processed only when it is, gives up    *)
(* at the end of the allowance and not before, and answers once.                 *)
EXTENDS Integers

CONSTANTS Request, Tx, MaxNeeded

VARIABLES
    remaining,  \* the blocks each transaction still needs
    tx,         \* the transaction each request is about
    allowance,  \* the blocks each request may still generate
    verdict     \* how each request stands

vars == <<remaining, tx, allowance, verdict>>

Init ==
    /\ remaining \in [Tx -> 0 .. MaxNeeded]
    /\ tx \in [Request -> Tx]
    /\ allowance = [r \in Request |-> 0]
    /\ verdict = [r \in Request |-> "idle"]

Block == remaining' = [t \in Tx |-> IF remaining[t] > 0 THEN remaining[t] - 1 ELSE 0]

\* A request is pending for as long as it may generate a block.
Judge(r) ==
    verdict' = [verdict EXCEPT ![r] = IF allowance'[r] > 0 THEN "pending" ELSE "gaveUp"]

Ask(r) ==
    /\ verdict[r] = "idle"
    /\ allowance' \in [Request -> Int]
    /\ \A s \in Request \ {r} : allowance'[s] = allowance[s]
    /\ Judge(r)
    /\ UNCHANGED <<remaining, tx>>

Generate(r) ==
    /\ verdict[r] = "pending"
    /\ Block
    /\ allowance' = [allowance EXCEPT ![r] = @ - 1]
    /\ Judge(r)
    /\ UNCHANGED tx

Confirm(r) ==
    /\ verdict[r] = "pending"
    /\ remaining[tx[r]] = 0
    /\ verdict' = [verdict EXCEPT ![r] = "processed"]
    /\ UNCHANGED <<remaining, tx, allowance>>

\* An error, of the status or of a block that may have been generated all the same.
Fail(r) ==
    /\ verdict[r] = "pending"
    /\ verdict' = [verdict EXCEPT ![r] = "failed"]
    /\ Block \/ UNCHANGED remaining
    /\ UNCHANGED <<tx, allowance>>

\* A block that is on nobody's account.
OtherBlock == Block /\ UNCHANGED <<tx, allowance, verdict>>

Next ==
    \/ \E r \in Request : Ask(r) \/ Generate(r) \/ Confirm(r) \/ Fail(r)
    \/ OtherBlock

\* Every request that was accepted gets its verdict.
Answering == \A r \in Request : verdict[r] = "pending" ~> verdict[r] # "pending"

\* What the service never does, and what it does in the end.
Safety == Init /\ [][Next]_vars

Spec == Safety /\ Answering

===============================================================================
