----------------------- MODULE TransactionProcessingProofs ---------------------
(* Theorems about TransactionProcessing, for every set of requests and          *)
(* transactions, every limit and every number of blocks a transaction needs.    *)
EXTENDS TransactionProcessing, TLAPS

\* What a request knows in the middle of its loop: how far its transaction has
\* come since the first status, unless somebody has finished it.
LoopInv(r) ==
    /\ pc[r] = "new" => made[r] = 0 /\ wasted[r] = 0
    /\ pc[r] = "status" => /\ made[r] < limit[r]
                           /\ made[r] = 0 => wasted[r] = 0
                           /\ wasted[r] = 1 => remaining[tx[r]] = 0
                           /\ made[r] > 0 => remaining[tx[r]] + made[r] <= needed[r]
                                             \/ remaining[tx[r]] = 0
    /\ pc[r] = "generate" => /\ made[r] < limit[r]
                             /\ wasted[r] = 0
                             /\ made[r] < needed[r]
                             /\ remaining[tx[r]] + made[r] <= needed[r]
                                \/ remaining[tx[r]] = 0
    /\ made[r] > 0 => made[r] <= limit[r]
    /\ wasted[r] <= 1
    /\ pc[r] # "done" => answer[r] = "none"

AnswerInv(r) ==
    /\ answer[r] = "processed" => remaining[tx[r]] = 0
    /\ answer[r] = "stillPending" /\ limit[r] > 0 => needed[r] >= limit[r]

IInv == TypeOK /\ \A r \in Request : LoopInv(r) /\ AnswerInv(r)

--------------------------------------------------------------------------------
\* What a client sends is turned into an integer.
LEMMA LimitIsInt == ASSUME NEW q \in Query PROVE LimitOf(q) \in Int
  BY NumberAssumption, BoundAssumption DEF Query, LimitOf

\* A block brings every transaction nearer to its end and brings none back.
LEMMA BlockAdvances ==
    ASSUME TypeOK
    PROVE  /\ AfterBlock \in [Tx -> 0 .. MaxNeeded]
           /\ \A t \in Tx : /\ remaining[t] = 0 => AfterBlock[t] = 0
                            /\ remaining[t] > 0 => AfterBlock[t] = remaining[t] - 1
                            /\ AfterBlock[t] <= remaining[t]
  BY BoundAssumption DEF TypeOK, AfterBlock

\* A step keeps what is known of the requests it does not touch.
LEMMA Frame ==
    ASSUME TypeOK, NEW s \in Request, LoopInv(s), AnswerInv(s),
           remaining' \in [Tx -> 0 .. MaxNeeded],
           \A t \in Tx : remaining'[t] <= remaining[t],
           pc'[s] = pc[s], tx' = tx, limit'[s] = limit[s], made'[s] = made[s],
           answer'[s] = answer[s], needed'[s] = needed[s], wasted'[s] = wasted[s]
    PROVE  LoopInv(s)' /\ AnswerInv(s)'
  <1>1. tx[s] \in Tx /\ remaining[tx[s]] \in Nat /\ remaining'[tx[s]] \in Nat
    BY BoundAssumption DEF TypeOK
  <1>2. remaining'[tx'[s]] <= remaining[tx[s]]
    BY <1>1
  <1>3. QED
    BY <1>1, <1>2, BoundAssumption DEF TypeOK, LoopInv, AnswerInv

\* The invariant holds before the first request arrives.
LEMMA InitIInv == Init => IInv
  BY BoundAssumption DEF Init, IInv, TypeOK, LoopInv, AnswerInv

\* A request that arrives keeps the invariant.
LEMMA ReceiveIInv ==
    ASSUME IInv, NEW r \in Request, NEW q \in Query, Receive(r, q)
    PROVE  IInv'
  <1>1. LimitOf(q) \in Int
    BY LimitIsInt
  <1>2. TypeOK'
    BY <1>1 DEF Receive, IInv, TypeOK, Loop, Goto, Respond
  <1>3. LoopInv(r)' /\ AnswerInv(r)'
    BY <1>1 DEF Receive, IInv, TypeOK, LoopInv, AnswerInv, Loop, InLoop, Goto, Respond
  <1>4. ASSUME NEW s \in Request \ {r} PROVE LoopInv(s)' /\ AnswerInv(s)'
    <2>1. \A t \in Tx : remaining'[t] <= remaining[t]
      BY BoundAssumption DEF Receive, IInv, TypeOK
    <2>2. QED
      BY <2>1, Frame DEF Receive, IInv, TypeOK, Loop, Goto, Respond
  <1>5. QED
    BY <1>2, <1>3, <1>4 DEF IInv

\* Asking for the status keeps the invariant: a success is given for a final transaction.
LEMMA AskStatusIInv ==
    ASSUME IInv, NEW r \in Request, AskStatus(r)
    PROVE  IInv'
  <1>1. tx[r] \in Tx /\ remaining[tx[r]] \in 0 .. MaxNeeded
    BY DEF IInv, TypeOK
  <1>2. TypeOK'
    BY <1>1 DEF AskStatus, IInv, TypeOK, Goto, Respond
  <1>3. LoopInv(r)' /\ AnswerInv(r)'
    BY <1>1, BoundAssumption
    DEF AskStatus, IInv, TypeOK, LoopInv, AnswerInv, Final, Goto, Respond
  <1>4. ASSUME NEW s \in Request \ {r} PROVE LoopInv(s)' /\ AnswerInv(s)'
    <2>1. \A t \in Tx : remaining'[t] <= remaining[t]
      BY BoundAssumption DEF AskStatus, IInv, TypeOK
    <2>2. QED
      BY <2>1, Frame DEF AskStatus, IInv, TypeOK, Goto, Respond
  <1>5. QED
    BY <1>2, <1>3, <1>4 DEF IInv

\* A block keeps it, and the loop gives up after its limit only.
LEMMA GenerateBlockIInv ==
    ASSUME IInv, NEW r \in Request, GenerateBlock(r)
    PROVE  IInv'
  <1>1. /\ tx[r] \in Tx /\ remaining[tx[r]] \in Nat /\ needed[r] \in Nat
        /\ limit[r] \in Int /\ made[r] \in Nat /\ wasted[r] \in Nat
    BY BoundAssumption DEF IInv, TypeOK
  <1>2. remaining' \in [Tx -> 0 .. MaxNeeded]
    BY BlockAdvances DEF GenerateBlock, NextTurn, IInv
  <1>3. TypeOK'
    BY <1>1, <1>2 DEF GenerateBlock, NextTurn, IInv, TypeOK, Loop, Goto, Respond
  <1>4. LoopInv(r)' /\ AnswerInv(r)'
    <2>1. /\ remaining[tx[r]] = 0 => remaining'[tx'[r]] = 0
          /\ remaining[tx[r]] > 0 => remaining'[tx'[r]] = remaining[tx[r]] - 1
      BY <1>1, BlockAdvances DEF GenerateBlock, NextTurn, IInv
    <2>2. /\ made'[r] = made[r] + 1 /\ limit'[r] = limit[r] /\ needed'[r] = needed[r]
          /\ wasted'[r] = IF remaining[tx[r]] = 0 THEN wasted[r] + 1 ELSE wasted[r]
      BY DEF GenerateBlock, NextTurn, IInv, TypeOK
    <2>3. \/ /\ made[r] + 1 < limit[r]
             /\ pc'[r] = "status" /\ answer'[r] = answer[r]
          \/ /\ ~(made[r] + 1 < limit[r])
             /\ pc'[r] = "done" /\ answer'[r] = "stillPending"
      BY DEF GenerateBlock, NextTurn, IInv, TypeOK, Loop, InLoop, Goto, Respond
    <2>4. pc[r] = "generate" /\ LoopInv(r)
      BY DEF GenerateBlock, NextTurn, IInv
    <2>5. QED
      BY <1>1, <2>1, <2>2, <2>3, <2>4 DEF LoopInv, AnswerInv
  <1>5. ASSUME NEW s \in Request \ {r} PROVE LoopInv(s)' /\ AnswerInv(s)'
    BY <1>2, BlockAdvances, Frame DEF GenerateBlock, NextTurn, IInv, TypeOK, Loop, Goto, Respond
  <1>6. QED
    BY <1>3, <1>4, <1>5 DEF IInv

\* A block that fails keeps it, whatever it did to the shards.
LEMMA FailToGenerateIInv ==
    ASSUME IInv, NEW r \in Request, FailToGenerate(r)
    PROVE  IInv'
  <1>1. /\ remaining' \in [Tx -> 0 .. MaxNeeded]
        /\ \A t \in Tx : remaining'[t] <= remaining[t]
    BY BlockAdvances, BoundAssumption DEF FailToGenerate, IInv, TypeOK
  <1>2. TypeOK'
    BY <1>1 DEF FailToGenerate, IInv, TypeOK, Respond, Goto
  <1>3. LoopInv(r)' /\ AnswerInv(r)'
    BY DEF FailToGenerate, IInv, TypeOK, LoopInv, AnswerInv, Respond, Goto
  <1>4. ASSUME NEW s \in Request \ {r} PROVE LoopInv(s)' /\ AnswerInv(s)'
    BY <1>1, Frame DEF FailToGenerate, IInv, TypeOK, Respond, Goto
  <1>5. QED
    BY <1>2, <1>3, <1>4 DEF IInv

\* A block of another caller keeps it.
LEMMA OtherBlockIInv ==
    ASSUME IInv, OtherBlock
    PROVE  IInv'
  <1>1. TypeOK'
    BY BlockAdvances, BoundAssumption DEF OtherBlock, IInv, TypeOK
  <1>2. ASSUME NEW s \in Request PROVE LoopInv(s)' /\ AnswerInv(s)'
    BY BlockAdvances, Frame DEF OtherBlock, IInv, TypeOK
  <1>3. QED
    BY <1>1, <1>2 DEF IInv

\* Steps that change nothing keep the invariant.
LEMMA StutterIInv ==
    ASSUME IInv, UNCHANGED vars
    PROVE  IInv'
  BY DEF IInv, TypeOK, LoopInv, AnswerInv, vars

--------------------------------------------------------------------------------
\* The inductive invariant: a request in its loop knows how far its transaction
\* has come since it asked for it first.
THEOREM Invariance == Spec => []IInv
  <1>1. IInv /\ [Next]_vars => IInv'
    <2> SUFFICES ASSUME IInv, [Next]_vars PROVE IInv'
      OBVIOUS
    <2>1. ASSUME NEW r \in Request, NEW q \in Query, Receive(r, q) PROVE IInv'
      BY <2>1, ReceiveIInv
    <2>2. ASSUME NEW r \in Request, Serve(r) PROVE IInv'
      BY <2>2, AskStatusIInv, GenerateBlockIInv, FailToGenerateIInv DEF Serve
    <2>3. CASE OtherBlock
      BY <2>3, OtherBlockIInv
    <2>4. CASE AllAnswered
      BY <2>4, StutterIInv DEF AllAnswered
    <2>5. CASE UNCHANGED vars
      BY <2>5, StutterIInv
    <2>6. QED
      BY <2>1, <2>2, <2>3, <2>4, <2>5 DEF Next
  <1>2. QED
    BY InitIInv, <1>1, PTL DEF Spec

\* Every variable keeps to its type.
THEOREM TypeCorrect == Spec => []TypeOK
  <1>1. IInv => TypeOK
    BY DEF IInv
  <1>2. QED
    BY Invariance, <1>1, PTL

\* A success means that the transaction is no longer pending.
THEOREM SuccessIsFinal == Spec => []ProcessedIsFinal
  <1>1. IInv => ProcessedIsFinal
    BY DEF IInv, AnswerInv, ProcessedIsFinal
  <1>2. QED
    BY Invariance, <1>1, PTL

\* The client's limit is kept.
THEOREM LimitKept == Spec => []BlocksWithinLimit
  <1>1. IInv => BlocksWithinLimit
    BY DEF IInv, LoopInv, BlocksWithinLimit
  <1>2. QED
    BY Invariance, <1>1, PTL

\* At most one block is generated for a transaction another caller has finished.
THEOREM WasteBounded == Spec => []AtMostOneWasted
  <1>1. IInv => AtMostOneWasted
    BY DEF IInv, LoopInv, AtMostOneWasted
  <1>2. QED
    BY Invariance, <1>1, PTL

\* Giving up means that the transaction needed the whole limit at least.
THEOREM SlowWhenGivenUp == Spec => []GivenUpIsSlow
  <1>1. IInv => GivenUpIsSlow
    BY DEF IInv, AnswerInv, GivenUpIsSlow
  <1>2. QED
    BY Invariance, <1>1, PTL

--------------------------------------------------------------------------------
\* What a step of the program does to the control of the requests: one of them
\* moves on, or none.
LEMMA Moves ==
    ASSUME IInv, NEW r \in Request, Serve(r)
    PROVE  /\ pc[r] \in {"status", "generate"} /\ pc'[r] # pc[r]
           /\ UNCHANGED <<tx, limit>>
           /\ \A s \in Request \ {r} :
                  pc'[s] = pc[s] /\ answer'[s] = answer[s] /\ made'[s] = made[s]
  BY DEF IInv, TypeOK, Serve, AskStatus, GenerateBlock, FailToGenerate, NextTurn, Loop, Goto,
         Respond

\* A request that is received moves none of the others.
LEMMA ReceiveMoves ==
    ASSUME IInv, NEW r \in Request, NEW q \in Query, Receive(r, q)
    PROVE  /\ pc[r] = "new" /\ UNCHANGED <<remaining, tx, made>>
           /\ \A s \in Request \ {r} :
                  pc'[s] = pc[s] /\ answer'[s] = answer[s] /\ limit'[s] = limit[s]
  BY DEF IInv, TypeOK, Receive, Loop, Goto, Respond

\* A step of a request brings it nearer to its end.
LEMMA ServeCounts ==
    ASSUME IInv, NEW r \in Request, Serve(r)
    PROVE  0 <= StepsLeft(r)' /\ StepsLeft(r)' < StepsLeft(r)
  <1>1. limit[r] \in Int /\ made[r] \in Nat /\ limit'[r] = limit[r]
    BY Moves DEF IInv, TypeOK
  <1>2. CASE AskStatus(r)
    <2>1. /\ pc[r] = "status" /\ made[r] < limit[r] /\ made'[r] = made[r]
          /\ pc'[r] \in {"done", "generate"}
      BY <1>2 DEF AskStatus, IInv, TypeOK, LoopInv, Respond, Goto
    <2>2. QED
      BY <1>1, <2>1 DEF StepsLeft
  <1>3. CASE GenerateBlock(r)
    <2>1. /\ pc[r] = "generate" /\ made[r] < limit[r] /\ made'[r] = made[r] + 1
          /\ pc'[r] = "done" \/ (pc'[r] = "status" /\ made[r] + 1 < limit[r])
      BY <1>3 DEF GenerateBlock, NextTurn, IInv, TypeOK, LoopInv, Loop, InLoop, Respond, Goto
    <2>2. QED
      BY <1>1, <2>1 DEF StepsLeft
  <1>4. CASE FailToGenerate(r)
    <2>1. pc[r] = "generate" /\ made[r] < limit[r] /\ pc'[r] = "done"
      BY <1>4 DEF FailToGenerate, IInv, TypeOK, LoopInv, Respond, Goto
    <2>2. QED
      BY <1>1, <2>1 DEF StepsLeft
  <1>5. QED
    BY <1>2, <1>3, <1>4 DEF Serve

\* The variant of the loop: with the fairness of Serve it is why every request is
\* answered, whatever the other requests do.
THEOREM StepsCounted == Spec => EveryStepCounts
  <1>1. IInv /\ [Next]_vars => [\A r \in Request : StepCounts(r)]_vars
    <2> SUFFICES ASSUME IInv, [Next]_vars, NEW s \in Request PROVE StepCounts(s)
      OBVIOUS
    <2>1. ASSUME UNCHANGED <<pc[s], limit[s], made[s]>> PROVE StepCounts(s)
      BY <2>1 DEF StepCounts, StepsLeft
    <2>2. ASSUME NEW r \in Request, NEW q \in Query, Receive(r, q) PROVE StepCounts(s)
      BY <2>1, <2>2, ReceiveMoves DEF StepCounts
    <2>3. ASSUME NEW r \in Request, Serve(r) PROVE StepCounts(s)
      <3>1. CASE r = s
        BY <2>3, <3>1, ServeCounts, Moves DEF StepCounts
      <3>2. CASE r # s
        BY <2>1, <2>3, <3>2, Moves
      <3>3. QED
        BY <3>1, <3>2
    <2>4. CASE OtherBlock \/ AllAnswered \/ UNCHANGED vars
      BY <2>1, <2>4 DEF OtherBlock, AllAnswered, vars
    <2>5. QED
      BY <2>2, <2>3, <2>4 DEF Next
  <1>2. QED
    BY Invariance, <1>1, PTL DEF Spec, EveryStepCounts

--------------------------------------------------------------------------------
\* How a request stands, by where it is and what it was answered.
LEMMA VerdictIs ==
    ASSUME NEW r \in Request
    PROVE  /\ pc[r] = "new" => Verdict(r) = "idle"
           /\ pc[r] \in {"status", "generate"} => Verdict(r) = "pending"
           /\ pc[r] = "done" /\ answer[r] = "processed" => Verdict(r) = "processed"
           /\ pc[r] = "done" /\ answer[r] = "stillPending" => Verdict(r) = "gaveUp"
           /\ pc[r] = "done" /\ answer[r] = "failed" => Verdict(r) = "failed"
  BY DEF Verdict

\* The same of the state after a step.
LEMMA VerdictIsNext ==
    ASSUME NEW r \in Request
    PROVE  /\ pc'[r] = "new" => Verdict(r)' = "idle"
           /\ pc'[r] \in {"status", "generate"} => Verdict(r)' = "pending"
           /\ pc'[r] = "done" /\ answer'[r] = "processed" => Verdict(r)' = "processed"
           /\ pc'[r] = "done" /\ answer'[r] = "stillPending" => Verdict(r)' = "gaveUp"
           /\ pc'[r] = "done" /\ answer'[r] = "failed" => Verdict(r)' = "failed"
  BY DEF Verdict

\* A request that does not move keeps its verdict.
LEMMA VerdictSame ==
    ASSUME NEW r \in Request, pc'[r] = pc[r], answer'[r] = answer[r]
    PROVE  Verdict(r)' = Verdict(r)
  BY DEF Verdict

\* The verdicts after a step that moves one request.
LEMMA VerdictsAfter ==
    ASSUME NEW r \in Request, NEW v, Verdict(r)' = v,
           \A s \in Request \ {r} : pc'[s] = pc[s] /\ answer'[s] = answer[s]
    PROVE  [s \in Request |-> Verdict(s)]'
               = [[s \in Request |-> Verdict(s)] EXCEPT ![r] = v]
  <1>1. \A s \in Request \ {r} : Verdict(s)' = Verdict(s)
    BY VerdictSame
  <1>2. QED
    BY <1>1

\* A request that is received asks for its allowance.
LEMMA ReceiveServes ==
    ASSUME IInv, NEW r \in Request, NEW q \in Query, Receive(r, q)
    PROVE  Service!Ask(r)
  <1> DEFINE allowance == [s \in Request |-> limit[s] - made[s]]
             after == [s \in Request |-> limit'[s] - made'[s]]
             v == IF after[r] > 0 THEN "pending" ELSE "gaveUp"
  <1>1. LimitOf(q) \in Int /\ made[r] = 0 /\ made' = made
    BY LimitIsInt DEF Receive, IInv, TypeOK, LoopInv
  <1>2. /\ limit'[r] = LimitOf(q) /\ limit' \in [Request -> Int]
        /\ made \in [Request -> Nat]
        /\ \A s \in Request \ {r} : limit'[s] = limit[s]
    BY <1>1 DEF Receive, IInv, TypeOK
  <1>3. /\ after \in [Request -> Int] /\ after[r] = LimitOf(q)
        /\ \A s \in Request \ {r} : after[s] = allowance[s]
    BY <1>1, <1>2
  <1>4. Verdict(r)' = v
    <2>1. \/ 0 < LimitOf(q) /\ pc'[r] = "status"
          \/ ~(0 < LimitOf(q)) /\ pc'[r] = "done" /\ answer'[r] = "stillPending"
      BY DEF Receive, Loop, InLoop, Goto, Respond, IInv, TypeOK
    <2>2. QED
      BY <1>1, <1>3, <2>1, VerdictIsNext
  <1>5. Verdict(r) = "idle"
    BY VerdictIs DEF Receive
  <1>6. [s \in Request |-> Verdict(s)]' = [[s \in Request |-> Verdict(s)] EXCEPT ![r] = v]
    BY <1>4, ReceiveMoves, VerdictsAfter
  <1>7. UNCHANGED <<remaining, tx>>
    BY DEF Receive
  <1>8. QED
    BY <1>3, <1>5, <1>6, <1>7 DEF Service!Ask, Service!Judge

\* A block of a request is paid for from its allowance.
LEMMA GenerateServes ==
    ASSUME IInv, NEW r \in Request, GenerateBlock(r)
    PROVE  Service!Generate(r)
  <1> DEFINE allowance == [s \in Request |-> limit[s] - made[s]]
             after == [s \in Request |-> limit'[s] - made'[s]]
             v == IF after[r] > 0 THEN "pending" ELSE "gaveUp"
  <1>0. Serve(r)
    BY DEF Serve
  <1>1. /\ limit' = limit /\ limit \in [Request -> Int] /\ made \in [Request -> Nat]
        /\ made' = [made EXCEPT ![r] = @ + 1] /\ tx' = tx
    BY DEF GenerateBlock, NextTurn, IInv, TypeOK
  <1>2. after = [allowance EXCEPT ![r] = @ - 1]
    <2>1. after[r] = allowance[r] - 1
      BY <1>1
    <2>2. \A s \in Request \ {r} : after[s] = allowance[s]
      BY <1>1
    <2>3. QED
      BY <2>1, <2>2
  <1>3. Verdict(r)' = v
    <2>1. \/ made[r] + 1 < limit[r] /\ pc'[r] = "status"
          \/ ~(made[r] + 1 < limit[r]) /\ pc'[r] = "done" /\ answer'[r] = "stillPending"
      BY DEF GenerateBlock, NextTurn, Loop, InLoop, Goto, Respond, IInv, TypeOK
    <2>2. after[r] = limit[r] - (made[r] + 1) /\ limit[r] \in Int /\ made[r] \in Nat
      BY <1>1
    <2>3. QED
      BY <2>1, <2>2, VerdictIsNext
  <1>4. Verdict(r) = "pending"
    BY VerdictIs DEF GenerateBlock
  <1>5. [s \in Request |-> Verdict(s)]' = [[s \in Request |-> Verdict(s)] EXCEPT ![r] = v]
    BY <1>0, <1>3, Moves, VerdictsAfter
  <1>6. Service!Block
    BY DEF GenerateBlock, AfterBlock, Service!Block
  <1>7. QED
    BY <1>1, <1>2, <1>4, <1>5, <1>6 DEF Service!Generate, Service!Judge

\* A status confirms that the transaction is processed, fails, or tells nobody.
LEMMA AskStatusServes ==
    ASSUME IInv, NEW r \in Request, AskStatus(r)
    PROVE  [Service!Next]_Service!vars
  <1> DEFINE allowance == [s \in Request |-> limit[s] - made[s]]
  <1>0. /\ Serve(r) /\ UNCHANGED <<remaining, tx>> /\ UNCHANGED allowance
        /\ Verdict(r) = "pending"
    BY VerdictIs DEF Serve, AskStatus
  <1>1. CASE pc'[r] = "done" /\ answer'[r] = "failed"
    <2>1. [s \in Request |-> Verdict(s)]'
              = [[s \in Request |-> Verdict(s)] EXCEPT ![r] = "failed"]
      BY <1>0, <1>1, VerdictIsNext, Moves, VerdictsAfter
    <2>2. Service!Fail(r)
      BY <1>0, <2>1 DEF Service!Fail
    <2>3. QED
      BY <2>2 DEF Service!Next
  <1>2. CASE Final(tx[r]) /\ pc'[r] = "done" /\ answer'[r] = "processed"
    <2>1. [s \in Request |-> Verdict(s)]'
              = [[s \in Request |-> Verdict(s)] EXCEPT ![r] = "processed"]
      BY <1>0, <1>2, VerdictIsNext, Moves, VerdictsAfter
    <2>2. Service!Confirm(r)
      BY <1>0, <1>2, <2>1 DEF Service!Confirm, Final
    <2>3. QED
      BY <2>2 DEF Service!Next
  <1>3. CASE pc'[r] = "generate"
    <2>1. [s \in Request |-> Verdict(s)]'
              = [[s \in Request |-> Verdict(s)] EXCEPT ![r] = "pending"]
      BY <1>0, <1>3, VerdictIsNext, Moves, VerdictsAfter
    <2>2. [s \in Request |-> Verdict(s)]' = [s \in Request |-> Verdict(s)]
      BY <1>0, <2>1
    <2>3. QED
      BY <1>0, <2>2 DEF Service!vars
  <1>4. QED
    BY <1>1, <1>2, <1>3 DEF AskStatus, Respond, Goto, IInv, TypeOK

\* A block that fails ends the request, whether it was generated or not.
LEMMA FailToGenerateServes ==
    ASSUME IInv, NEW r \in Request, FailToGenerate(r)
    PROVE  Service!Fail(r)
  <1>1. /\ Serve(r) /\ UNCHANGED <<tx, limit, made>> /\ Verdict(r) = "pending"
        /\ pc'[r] = "done" /\ answer'[r] = "failed"
    BY VerdictIs DEF Serve, FailToGenerate, Respond, Goto, IInv, TypeOK
  <1>2. [s \in Request |-> Verdict(s)]'
            = [[s \in Request |-> Verdict(s)] EXCEPT ![r] = "failed"]
    BY <1>1, VerdictIsNext, Moves, VerdictsAfter
  <1>3. Service!Block \/ UNCHANGED remaining
    BY DEF FailToGenerate, AfterBlock, Service!Block
  <1>4. QED
    BY <1>1, <1>2, <1>3 DEF Service!Fail

\* The endpoint, step by step, keeps the promise of TransactionService.
THEOREM ServiceImplemented == Spec => ServiceKept
  <1>1. Init => Service!Init
    <2> SUFFICES ASSUME Init PROVE Service!Init
      OBVIOUS
    <2>1. \A r \in Request : Verdict(r) = "idle"
      BY VerdictIs DEF Init
    <2>2. \A r \in Request : limit[r] - made[r] = 0
      <3>1. ASSUME NEW r \in Request PROVE limit[r] = 0 /\ made[r] = 0
        BY DEF Init
      <3>2. ASSUME NEW r \in Request PROVE limit[r] - made[r] = 0
        BY <3>1
      <3>3. QED
        BY <3>2
    <2>3. QED
      BY <2>1, <2>2 DEF Init, Service!Init
  <1>2. IInv /\ [Next]_vars => [Service!Next]_Service!vars
    <2> SUFFICES ASSUME IInv, [Next]_vars PROVE [Service!Next]_Service!vars
      OBVIOUS
    <2>1. ASSUME NEW r \in Request, NEW q \in Query, Receive(r, q)
          PROVE  [Service!Next]_Service!vars
      BY <2>1, ReceiveServes DEF Service!Next
    <2>2. ASSUME NEW r \in Request, Serve(r) PROVE [Service!Next]_Service!vars
      <3>1. CASE AskStatus(r)
        BY <3>1, AskStatusServes
      <3>2. CASE GenerateBlock(r)
        BY <3>2, GenerateServes DEF Service!Next
      <3>3. CASE FailToGenerate(r)
        BY <3>3, FailToGenerateServes DEF Service!Next
      <3>4. QED
        BY <2>2, <3>1, <3>2, <3>3 DEF Serve
    <2>3. ASSUME UNCHANGED <<tx, limit, made, pc, answer>>
          PROVE  UNCHANGED <<tx, [s \in Request |-> limit[s] - made[s]],
                             [s \in Request |-> Verdict(s)]>>
      BY <2>3, VerdictSame
    <2>4. CASE OtherBlock
      <3>1. Service!Block
        BY <2>4 DEF OtherBlock, AfterBlock, Service!Block
      <3>2. QED
        BY <2>3, <2>4, <3>1 DEF OtherBlock, Service!OtherBlock, Service!Next
    <2>5. CASE AllAnswered \/ UNCHANGED vars
      BY <2>3, <2>5 DEF AllAnswered, vars, Service!vars
    <2>6. QED
      BY <2>1, <2>2, <2>4, <2>5 DEF Next
  <1>3. QED
    BY Invariance, <1>1, <1>2, PTL DEF Spec, ServiceKept, Service!Safety
===============================================================================
