------------------------------ MODULE ServerProcess ----------------------------
(* The process as its clients see it: it gets a chain, perhaps with a goroutine   *)
(* that adds blocks, serves, is asked to stop, serves those it has accepted for a *)
(* while, and ends; or it dies at any moment.  Behind it are the statements of    *)
(* main, the port and all the other goroutines.                                   *)

CONSTANT Request

VARIABLES
    phase,  \* "starting", "up", "draining", "exited" or "dead"
    ready,  \* the chain is there, prepared, with its first block
    auto,   \* a goroutine adds blocks to it
    asked,  \* a signal to stop has arrived
    conn    \* what has become of each client

chain == <<ready, auto>>

vars == <<phase, chain, asked, conn>>

Init ==
    /\ phase = "starting"
    /\ ready = FALSE /\ auto = FALSE
    /\ asked = FALSE
    /\ conn = [r \in Request |-> "none"]

Serves == phase \in {"up", "draining"}

Move(r, from, to) ==
    /\ conn[r] = from
    /\ conn' = [conn EXCEPT ![r] = to]
    /\ UNCHANGED <<phase, chain, asked>>

\* No client is accepted before the process is up or after it has begun to drain.
Accept(r) == phase = "up" /\ Move(r, "none", "open")

Answer(r) == Serves /\ Move(r, "open", "answered")

\* A websocket, which nobody waits for when the process ends.
Hijack(r) == Serves /\ Move(r, "open", "streaming")

Leave(r) == Serves /\ Move(r, "streaming", "answered")

Prepare == phase = "starting" /\ ready' = TRUE /\ UNCHANGED <<phase, auto, asked, conn>>

\* Nothing uses a chain that is not ready.
Automate ==
    /\ phase = "starting" /\ ready
    /\ auto' = TRUE
    /\ UNCHANGED <<phase, ready, asked, conn>>

Up == phase = "starting" /\ ready /\ phase' = "up" /\ UNCHANGED <<chain, asked, conn>>

Ask == Serves /\ asked' = TRUE /\ UNCHANGED <<phase, chain, conn>>

\* The process stops accepting only when it was asked to.
Drain == phase = "up" /\ asked /\ phase' = "draining" /\ UNCHANGED <<chain, asked, conn>>

\* It ends when everyone has been answered, or told that nobody will be.
Exit ==
    /\ phase = "draining"
    /\ phase' = "exited"
    /\ conn' = [r \in Request |-> IF conn[r] = "open" THEN "cut" ELSE conn[r]]
    /\ UNCHANGED <<chain, asked>>

\* The first block may be there although the call that made it has failed.
Die ==
    /\ phase \notin {"exited", "dead"}
    /\ phase' = "dead"
    /\ ready' \in {ready, TRUE}
    /\ UNCHANGED <<auto, asked, conn>>

Next ==
    \/ \E r \in Request : Accept(r) \/ Answer(r) \/ Hijack(r) \/ Leave(r)
    \/ Prepare \/ Automate \/ Up \/ Ask \/ Drain \/ Exit \/ Die

Spec == Init /\ [][Next]_vars

================================================================================
