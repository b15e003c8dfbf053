------------------------------ MODULE EpochChange ------------------------------
(* The two endpoints that move the chain to a later epoch:                     *)
(*   POST /simulator/force-epoch-change?targetEpoch=n                          *)
(*   POST /simulator/generate-blocks-until-epoch-reached/n                     *)
(* from the query to the bodies written into the response.  The HTTP server    *)
(* runs every request in a goroutine of its own, and the facade holds no lock: *)
(* it reads the epoch in one simulator call and forces the next epoch in       *)
(* another, so that requests interleave between the two.  Each call of the     *)
(* simulator is one step (the code outside the repository, see README.md).     *)
EXTENDS Integers

CONSTANTS
    Request,       \* the HTTP requests; each is served once
    Number,        \* the integers a client may send
    Missing,       \* the query without a targetEpoch parameter
    Invalid,       \* a text strconv.Atoi refuses
    Modulus,       \* stands for 2^32, the range of uint32 and int32
    InitialEpoch,  \* the epoch when the first request arrives
    MaxOther       \* bound: epoch starts caused by blocks of other callers

ASSUME NumberAssumption == Number \subseteq Int
ASSUME QueryAssumption == Missing \notin Int /\ Invalid \notin Int
ASSUME ModulusAssumption == Modulus \in Nat \ {0}
ASSUME EpochAssumption == InitialEpoch \in Nat /\ MaxOther \in Nat

VARIABLES
    epoch,     \* EpochStartTrigger().Epoch() of the metachain node
    others,    \* epoch starts caused by other callers so far
    pc,        \* where the goroutine of each request is
    endpoint,  \* which endpoint each request is addressed to
    sent,      \* the number each request carries, before any conversion
    target,    \* targetEpoch of each request, as the facade receives it
    current,   \* currentEpoch, the local variable of ForceChangeOfEpoch
    answer,    \* the bodies written into each response, in order
    base,      \* history: the epoch each request read first
    forced,    \* history: successful ForceChangeOfEpoch calls of each request
    late       \* history: those made when the target had been reached already

vars == <<epoch, others, pc, endpoint, sent, target, current, answer,
          base, forced, late>>

Query == Number \cup {Missing, Invalid}

\* uint32(n) and int32(n), conversions of an int that keep the low bits.
WithoutConversion(n) == n   \* a defect: no conversion

ToUint32(n) == n % Modulus
ToInt32(n) == IF 2 * (n % Modulus) < Modulus THEN n % Modulus
                                             ELSE (n % Modulus) - Modulus

Parsed(q) == IF q = Missing THEN 0 ELSE q

--------------------------------------------------------------------------------
Init ==
    /\ epoch = InitialEpoch
    /\ others = 0
    /\ pc = [r \in Request |-> "new"]
    /\ endpoint = [r \in Request |-> "force"]
    /\ sent = [r \in Request |-> 0]
    /\ target = [r \in Request |-> 0]
    /\ current = [r \in Request |-> 0]
    /\ answer = [r \in Request |-> <<>>]
    /\ base = [r \in Request |-> 0]
    /\ forced = [r \in Request |-> 0]
    /\ late = [r \in Request |-> 0]

Goto(r, label) == pc' = [pc EXCEPT ![r] = label]

Write(r, bodies) == Goto(r, "done") /\ answer' = [answer EXCEPT ![r] = bodies]

\* What forceEpochChange writes once the facade has returned: there is no
\* return after the error body, so the success body follows it.
AnswerForce(r, err) == Write(r, IF err = "" THEN <<"success">> ELSE <<err, "success">>)

AnswerUntil(r, err) == Write(r, IF err = "" THEN <<"success">> ELSE <<err>>)

--------------------------------------------------------------------------------
\* A query that is no number: force-epoch-change writes two error bodies, one
\* in getTargetEpochQueryParam and one in the handler.
Reject(r, e) ==
    /\ pc[r] = "new"
    /\ endpoint' = [endpoint EXCEPT ![r] = e]
    /\ Write(r, IF e = "force" THEN <<"invalid", "invalid">> ELSE <<"invalid">>)
    /\ UNCHANGED <<epoch, others, sent, target, current, base, forced, late>>

ReceiveForce(r, q) ==
    /\ pc[r] = "new"
    /\ q # Invalid
    /\ endpoint' = [endpoint EXCEPT ![r] = "force"]
    /\ sent' = [sent EXCEPT ![r] = Parsed(q)]
    /\ target' = [target EXCEPT ![r] = ToUint32(Parsed(q))]
    /\ Goto(r, IF ToUint32(Parsed(q)) = 0 THEN "next" ELSE "read")
    /\ UNCHANGED <<epoch, others, current, answer, base, forced, late>>

ReceiveUntil(r, n) ==
    /\ pc[r] = "new"
    /\ n \in Number
    /\ endpoint' = [endpoint EXCEPT ![r] = "until"]
    /\ sent' = [sent EXCEPT ![r] = n]
    /\ target' = [target EXCEPT ![r] = ToInt32(n)]
    /\ Goto(r, "until")
    /\ UNCHANGED <<epoch, others, current, answer, base, forced, late>>

--------------------------------------------------------------------------------
AlreadyReached(cur, tgt) == cur >= tgt

OneEarly(cur, tgt) == cur + 1 < tgt     \* a defect: the loop stops one epoch early

OneMore(cur, tgt) == cur <= tgt         \* a defect: the loop goes on at the target

NotReached(cur, tgt) == cur < tgt

Counted(r) == current[r] + 1            \* a defect: counting instead of reading

Observed(r) == epoch

\* The first getCurrentEpoch of ForceChangeOfEpoch and the refusal after it.
ReadEpoch(r) ==
    /\ pc[r] = "read"
    /\ current' = [current EXCEPT ![r] = epoch]
    /\ base' = [base EXCEPT ![r] = epoch]
    /\ \/ AlreadyReached(epoch, target[r]) /\ AnswerForce(r, "lower")
       \/ ~AlreadyReached(epoch, target[r]) /\ Goto(r, "force") /\ UNCHANGED answer
    /\ UNCHANGED <<epoch, others, endpoint, sent, target, forced, late>>

\* simulator.ForceChangeOfEpoch inside the loop, which moves the chain to the
\* next epoch.
ForceSucceeds(r) ==
    /\ pc[r] = "force"
    /\ epoch' = epoch + 1
    /\ forced' = [forced EXCEPT ![r] = @ + 1]
    /\ late' = [late EXCEPT ![r] = IF epoch >= target[r] THEN @ + 1 ELSE @]
    /\ Goto(r, "reread")
    /\ UNCHANGED <<others, endpoint, sent, target, current, answer, base>>

\* A defect: the error of the call is ignored.
ForceIgnoringErrors(r) ==
    /\ pc[r] = "force"
    /\ epoch' \in {epoch, epoch + 1}
    /\ Goto(r, "reread")
    /\ UNCHANGED <<others, endpoint, sent, target, current, answer, base, forced, late>>

\* The call fails, before or after the epoch it started has been reached.
ForceFails(r) ==
    /\ pc[r] = "force"
    /\ epoch' \in {epoch, epoch + 1}
    /\ AnswerForce(r, "failed")
    /\ UNCHANGED <<others, endpoint, sent, target, current, base, forced, late>>

\* The getCurrentEpoch that ends the loop's body, and the loop's condition.
RereadEpoch(r) ==
    /\ pc[r] = "reread"
    /\ current' = [current EXCEPT ![r] = Observed(r)]
    /\ \/ NotReached(Observed(r), target[r]) /\ Goto(r, "force") /\ UNCHANGED answer
       \/ ~NotReached(Observed(r), target[r]) /\ AnswerForce(r, "")
    /\ UNCHANGED <<epoch, others, endpoint, sent, target, base, forced, late>>

\* A target of zero forces the next epoch, whatever the current one is.
ForceNext(r) ==
    /\ pc[r] = "next"
    /\ base' = [base EXCEPT ![r] = epoch]
    /\ \/ /\ epoch' = epoch + 1
          /\ forced' = [forced EXCEPT ![r] = @ + 1]
          /\ AnswerForce(r, "")
       \/ /\ epoch' \in {epoch, epoch + 1}
          /\ AnswerForce(r, "failed")
          /\ UNCHANGED forced
    /\ UNCHANGED <<others, endpoint, sent, target, current, late>>

Later(a, b) == IF a >= b THEN a ELSE b

\* simulator.GenerateBlocksUntilEpochIsReached: at least one block, the last of
\* them the first one in the target epoch; it may give up at any of them.
GenerateUntil(r) ==
    /\ pc[r] = "until"
    /\ epoch' \in epoch .. Later(epoch + 1, target[r])
    /\ \/ epoch' >= target[r] /\ AnswerUntil(r, "")
       \/ AnswerUntil(r, "failed")
    /\ UNCHANGED <<others, endpoint, sent, target, current, base, forced, late>>

\* A block of another caller (generate-blocks, the automatic generator, a set
\* state request) starts a new epoch.
OtherEpochStart ==
    /\ others < MaxOther
    /\ others' = others + 1
    /\ epoch' = epoch + 1
    /\ UNCHANGED <<pc, endpoint, sent, target, current, answer, base, forced, late>>

\* Nothing is left to do once every request has been answered.
AllAnswered ==
    /\ \A r \in Request : pc[r] = "done"
    /\ UNCHANGED vars

Receive(r) ==
    \/ \E e \in {"force", "until"} : Reject(r, e)
    \/ \E q \in Query : ReceiveForce(r, q)
    \/ \E n \in Number : ReceiveUntil(r, n)

Serve(r) ==
    \/ ReadEpoch(r)
    \/ ForceSucceeds(r)
    \/ ForceFails(r)
    \/ RereadEpoch(r)
    \/ ForceNext(r)
    \/ GenerateUntil(r)

Next ==
    \/ \E r \in Request : Receive(r) \/ Serve(r)
    \/ OtherEpochStart
    \/ AllAnswered

\* A goroutine that can run is eventually scheduled; nothing forces a client to
\* send its request.
Fairness == \A r \in Request : WF_vars(Serve(r))

Spec == Init /\ [][Next]_vars /\ Fairness

--------------------------------------------------------------------------------
Label == {"new", "read", "force", "reread", "next", "until", "done"}

Answer == {<<>>, <<"invalid">>, <<"invalid", "invalid">>, <<"success">>, <<"failed">>,
           <<"lower", "success">>, <<"failed", "success">>}

\* The type invariant: every variable holds a value the code can give it; the
\* targets are what fits in the 32 bits of the facade's parameters.
TypeOK ==
    /\ epoch \in Nat
    /\ others \in 0 .. MaxOther
    /\ pc \in [Request -> Label]
    /\ endpoint \in [Request -> {"force", "until"}]
    /\ sent \in [Request -> Int]
    /\ target \in [Request -> (-Modulus) .. (Modulus - 1)]
    /\ \A r \in Request : endpoint[r] = "force" => target[r] >= 0
    /\ current \in [Request -> Nat]
    /\ answer \in [Request -> Answer]
    /\ base \in [Request -> Nat]
    /\ forced \in [Request -> Nat]
    /\ late \in [Request -> Nat]

\* What the client reads first: the status line goes with the first body, and a
\* body of success behind an error body is read by none of the properties.
Succeeded(r) == answer[r] = <<"success">>
Refused(r) == answer[r] = <<"lower", "success">>

\* The number the client sent survives the conversion to 32 bits.
Fits(r) == IF endpoint[r] = "force" THEN sent[r] < Modulus ELSE 2 * sent[r] < Modulus

\* A request that is answered with success, or refused because its target is not
\* ahead, finds the chain at its target or beyond, whatever the other requests
\* and the other blocks did between its two reads of the epoch; and the target is
\* the number the client sent, or above it, unless that does not fit in 32 bits.
EpochReached ==
    \A r \in Request :
        Succeeded(r) \/ Refused(r) =>
            /\ epoch >= target[r]
            /\ Fits(r) => epoch >= sent[r]

\* The check of the epoch and the force that follows it are two calls, so another
\* caller may reach the target in between: the chain is then moved past it, but
\* by each request once at most, since the loop reads the epoch again.
AtMostOneLateForce == \A r \in Request : late[r] <= 1

\* A request forces no more epochs than separate its target from the epoch it
\* read first; with nobody else around the chain thus stops exactly at the target.
ForcesWithinDistance ==
    \A r \in Request :
        endpoint[r] = "force" /\ forced[r] > 0 =>
            forced[r] <= (IF target[r] = 0 THEN 1 ELSE target[r] - base[r])

\* Nobody but a request has moved the chain yet: the others have not come to a call
\* that would, and no block of anybody else has started an epoch.
Alone(r) ==
    /\ others = 0
    /\ \A s \in Request \ {r} : pc[s] \in {"new", "read", "next", "until"}

\* As long as nobody else moves the chain, a request brings it to the target it was
\* given and not one epoch further, or an epoch later when none was ahead; and a
\* request that is refused has not moved it.
ExactWhenAlone ==
    \A r \in Request : Alone(r) =>
        /\ epoch <= Later(InitialEpoch + 1, target[r])
        /\ Succeeded(r) /\ target[r] > InitialEpoch => epoch = target[r]
        /\ Refused(r) => epoch = InitialEpoch

\* The steps the goroutine of a request has before it at most: two for every epoch
\* its loop is behind the target.
Behind(r, e) == IF e < target[r] THEN 2 * (target[r] - e) ELSE 0

StepsLeft(r) ==
    CASE pc[r] = "done" -> 0
      [] pc[r] \in {"next", "until"} -> 1
      [] pc[r] = "force" -> Behind(r, current[r]) + 1
      [] OTHER -> Behind(r, epoch) + 2

\* A step counts down if it is the request's own, and never up if it is not.
StepCounts(r) ==
    pc[r] # "new" =>
        IF pc'[r] = pc[r] THEN StepsLeft(r)' <= StepsLeft(r)
                          ELSE 0 <= StepsLeft(r)' /\ StepsLeft(r)' < StepsLeft(r)

\* The loop of ForceChangeOfEpoch has no bound of its own, and rereads an epoch that
\* others move: it ends since each turn brings it nearer to the target, and no
\* other request or block takes it away from it.
EveryStepCounts == [][\A r \in Request : StepCounts(r)]_vars

--------------------------------------------------------------------------------
\* The promise of the two endpoints without their steps (EpochService).
Verdict(r) ==
    CASE pc[r] = "new" -> "idle"
      [] pc[r] \notin {"new", "done"} -> "pending"
      [] pc[r] = "done" /\ Succeeded(r) -> "reached"
      [] pc[r] = "done" /\ Refused(r) -> "refused"
      [] OTHER -> "failed"

Service == INSTANCE EpochService WITH
    verdict <- [r \in Request |-> Verdict(r)], goal <- target

\* The chain only moves forward, and a goal is called reached, or refused, once and
\* only when the chain is there, by the steps of any number of requests.
ServiceKept == Service!Safety

\* Every request that was received is answered: the loop of ForceChangeOfEpoch
\* ends, whatever the other requests do.
RequestsAnswered == Service!Answering

===============================================================================
