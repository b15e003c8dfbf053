------------------------------- MODULE AccountStore ----------------------------
(* The accounts as the clients that write them see it: a request empties accounts *)
(* that it names, one at a time, then writes its values to them, once, and touches *)
(* them no more; blocks show what is there, and a request that asked for one is    *)
(* answered after it.  In which order a request empties its accounts, how often,   *)
(* whether at all and with which endpoint stays hidden.                            *)

CONSTANTS Request, Address

VARIABLES
    content,  \* whose values each account holds
    shown,    \* whose values the last block has
    stage,    \* of each request: "idle", "open", "written" or "over"
    names,    \* the accounts it names
    plain,    \* it asked for no block
    answer    \* what its client was told

vars == <<content, shown, stage, names, plain, answer>>

Init ==
    /\ shown = content
    /\ stage = [r \in Request |-> "idle"]
    /\ names = [r \in Request |-> {}]
    /\ plain = [r \in Request |-> FALSE]
    /\ answer = [r \in Request |-> "none"]

End(r, a) ==
    /\ stage' = [stage EXCEPT ![r] = "over"]
    /\ answer' = [answer EXCEPT ![r] = a]

Refuse(r) == stage[r] = "idle" /\ End(r, "invalid") /\ UNCHANGED <<content, shown, names, plain>>

Open(r, accounts, noBlock) ==
    /\ stage[r] = "idle"
    /\ stage' = [stage EXCEPT ![r] = "open"]
    /\ names' = [names EXCEPT ![r] = accounts]
    /\ plain' = [plain EXCEPT ![r] = noBlock]
    /\ UNCHANGED <<content, shown, answer>>

\* Emptying an account may be the last thing a request does, or the call may fail.
Clear(r, a) ==
    /\ stage[r] = "open"
    /\ content' = [content EXCEPT ![a] = {}]
    /\ UNCHANGED <<stage, answer>> \/ End(r, "failed")
    /\ UNCHANGED <<shown, names, plain>>

GiveUp(r) == stage[r] = "open" /\ End(r, "failed") /\ UNCHANGED <<content, shown, names, plain>>

\* The one write of a request reaches all the accounts it names, or it has failed.
Write(r, accounts) ==
    /\ stage[r] = "open"
    /\ content' = [a \in Address |-> content[a] \cup (IF a \in accounts THEN {r} ELSE {})]
    /\ \/ /\ accounts = names[r] /\ ~plain[r]
          /\ stage' = [stage EXCEPT ![r] = "written"]
          /\ UNCHANGED answer
       \/ accounts = names[r] /\ plain[r] /\ End(r, "ok")
       \/ End(r, "failed")
    /\ UNCHANGED <<shown, names, plain>>

Block == shown' = content /\ UNCHANGED <<content, stage, names, plain, answer>>

\* A request that asked for a block is over with it, or has failed.
Finish(r) ==
    /\ stage[r] = "written"
    /\ \/ shown' = content /\ End(r, "ok")
       \/ shown' \in {shown, content} /\ End(r, "failed")
    /\ UNCHANGED <<content, names, plain>>

Next ==
    \/ \E r \in Request :
           \/ Refuse(r)
           \/ \E accounts \in SUBSET Address, noBlock \in BOOLEAN : Open(r, accounts, noBlock)
           \/ \E a \in names[r] : Clear(r, a)
           \/ GiveUp(r)
           \/ \E accounts \in SUBSET names[r] : Write(r, accounts)
           \/ Finish(r)
    \/ Block

Spec == Init /\ [][Next]_vars

================================================================================
