-------------------------------- MODULE CloneLock ------------------------------
(* The directory of the clone, seen as what it is used as: a lock that processes *)
(* of one machine take without waiting and give back, or leave taken when they   *)
(* fail.  Nothing takes a lock that was left, ever after.                        *)

CONSTANT Process

VARIABLES
    taken,  \* the directory exists
    holder  \* the process that made it and is not over, if any

vars == <<taken, holder>>

Init ==
    /\ taken = FALSE
    /\ holder = {}

Acquire(p) ==
    /\ ~taken
    /\ taken' = TRUE
    /\ holder' = {p}

Release(p) ==
    /\ holder = {p}
    /\ taken' = FALSE
    /\ holder' = {}

Abandon(p) ==
    /\ holder = {p}
    /\ holder' = {}
    /\ UNCHANGED taken

Next == \E p \in Process : Acquire(p) \/ Release(p) \/ Abandon(p)

Spec == Init /\ [][Next]_vars

================================================================================
