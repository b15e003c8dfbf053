------------------------------ MODULE EpochService -----------------------------
(* What the endpoints that change the epoch promise to their callers: the      *)
(* chain only moves forward, a goal is declared reached, or refused as no      *)
(* longer ahead, only when the chain is there, and every request is answered.  *)
EXTENDS Integers

CONSTANTS Request, InitialEpoch

VARIABLES
    epoch,    \* the epoch of the chain
    goal,     \* the epoch each request asks for
    verdict   \* how each request stands

vars == <<epoch, goal, verdict>>

Init ==
    /\ epoch = InitialEpoch
    /\ goal = [r \in Request |-> 0]
    /\ verdict = [r \in Request |-> "idle"]

\* A request arrives and is accepted, with the goal it will be judged by.
Ask(r) ==
    /\ verdict[r] = "idle"
    /\ verdict' = [verdict EXCEPT ![r] = "pending"]
    /\ goal' \in [Request -> Int]
    /\ \A s \in Request \ {r} : goal'[s] = goal[s]
    /\ UNCHANGED epoch

\* The chain moves on, on behalf of any request or of none.
Advance ==
    /\ epoch' > epoch
    /\ UNCHANGED <<goal, verdict>>

\* A request is answered by the step that decides it.
Decide(r, v) ==
    /\ verdict[r] = "pending" \/ (verdict[r] = "idle" /\ v = "failed")
    /\ verdict' = [verdict EXCEPT ![r] = v]
    /\ epoch' >= epoch
    /\ v \in {"reached", "refused"} => epoch' >= goal[r]
    /\ UNCHANGED goal

Next ==
    \/ \E r \in Request : Ask(r)
    \/ \E r \in Request, v \in {"reached", "refused", "failed"} : Decide(r, v)
    \/ Advance

\* Every request that was accepted gets its verdict.
Answering == \A r \in Request : verdict[r] = "pending" ~> verdict[r] # "pending"

\* What the service never does, and what it does in the end.
Safety == Init /\ [][Next]_vars

Spec == Safety /\ Answering

===============================================================================
