------------------------------- MODULE AccountState ----------------------------
(* The endpoints that write the state of accounts:                              *)
(*   POST /simulator/address/:address/set-state   (key-value pairs, one account) *)
(*   POST /simulator/set-state                    (several accounts)             *)
(*   POST /simulator/set-state-overwrite          (several, cleaned before)      *)
(* The facade calls the simulator several times for a request, so that other     *)
(* requests and other blocks come in between.  What an account holds is the set  *)
(* of the requests whose values are in it; an account without any is removed.    *)
EXTENDS Integers, Sequences

CONSTANTS
    Request,   \* the HTTP requests; each is served once
    Address,   \* the addresses of the accounts
    Slice,     \* the lists of addresses a client may send
    Genesis    \* stands for the values an account has from the start

ASSUME SliceAssumption == Slice \subseteq Seq(Address)
ASSUME GenesisAssumption == Genesis \notin Request

VARIABLES
    working,    \* what the last write left in each account
    visible,    \* what the last block made of it
    existed,    \* the accounts there are from the start
    pc,         \* where the goroutine of each request is
    op,         \* which endpoint each request is addressed to
    slice,      \* stateSlice, its addresses in order
    noGenerate, \* the query parameter
    removed,    \* how many addresses of the slice have been removed
    answer,     \* what the handler responded
    earlier     \* history: whose values are old when a request arrives

vars == <<working, visible, existed, pc, op, slice, noGenerate, removed, answer, earlier>>

Value == Request \cup {Genesis}

Content == [Address -> SUBSET Value]

--------------------------------------------------------------------------------
Init ==
    /\ existed \in SUBSET Address
    /\ working = [a \in Address |-> IF a \in existed THEN {Genesis} ELSE {}]
    /\ visible = working
    /\ pc = [r \in Request |-> "new"]
    /\ op = [r \in Request |-> "set"]
    /\ slice = [r \in Request |-> <<>>]
    /\ noGenerate = [r \in Request |-> FALSE]
    /\ removed = [r \in Request |-> 0]
    /\ answer = [r \in Request |-> "none"]
    /\ earlier = [r \in Request |-> {}]

Goto(r, label) == pc' = [pc EXCEPT ![r] = label]

Respond(r, a) == Goto(r, "done") /\ answer' = [answer EXCEPT ![r] = a]

Done(r) == pc[r] = "done"

\* The first n addresses of the slice, all of them, and those removed so far.
First(r, n) == {slice[r][i] : i \in 1 .. n}
Named(r) == First(r, Len(slice[r]))
RemovedBy(r) == First(r, removed[r])

\* The body or the query parameter is malformed: nothing has been written.
Reject(r) ==
    /\ pc[r] = "new"
    /\ Respond(r, "invalid")
    /\ UNCHANGED <<working, visible, existed, op, slice, noGenerate, removed, earlier>>

Receive(r, o, s, n) ==
    /\ pc[r] = "new"
    /\ op' = [op EXCEPT ![r] = o]
    /\ slice' = [slice EXCEPT ![r] = s]
    /\ noGenerate' = [noGenerate EXCEPT ![r] = n]
    /\ earlier' = [earlier EXCEPT ![r] = {Genesis} \cup {q \in Request : Done(q)}]
    /\ Goto(r, IF o = "overwrite" /\ s # <<>> THEN "remove" ELSE "set")
    /\ UNCHANGED <<working, visible, existed, removed, answer>>

\* Key-value pairs are written to one account, and no block follows.
ReceiveKeys(r) == \E a \in Address : Receive(r, "keys", <<a>>, TRUE)

ReceiveStates(r) ==
    \E o \in {"set", "overwrite"}, s \in Slice, n \in BOOLEAN : Receive(r, o, s, n)

\* A defect: the loop leaves out the last address of the slice.
AllButLast(r) == removed[r] + 2 >= Len(slice[r])

\* A defect: the loop takes one turn too many.
OnePast(r) == removed[r] = Len(slice[r])

LastOne(r) == removed[r] + 1 = Len(slice[r])

\* One turn of the loop over RemoveAccounts; the error that the account was not
\* found is no error for the loop.
Remove(r) ==
    /\ pc[r] = "remove"
    /\ working' = [working EXCEPT ![slice[r][removed[r] + 1]] = {}]
    /\ removed' = [removed EXCEPT ![r] = @ + 1]
    /\ Goto(r, IF LastOne(r) THEN "set" ELSE "remove")
    /\ UNCHANGED <<visible, existed, op, slice, noGenerate, answer, earlier>>

\* Any other error ends the request; the accounts removed before stay removed.
RemoveFails(r) ==
    /\ pc[r] = "remove"
    /\ \/ /\ working' = [working EXCEPT ![slice[r][removed[r] + 1]] = {}]
          /\ removed' = [removed EXCEPT ![r] = @ + 1]
       \/ UNCHANGED <<working, removed>>
    /\ Respond(r, "failed")
    /\ UNCHANGED <<visible, existed, op, slice, noGenerate, earlier>>

\* A defect: the values of a request replace what others gave the accounts.
Replaced(r, n) ==
    [a \in Address |-> IF a \in First(r, n) THEN {r} ELSE working[a]]

\* The values of a request are added to the accounts of the first n addresses.
Written(r, n) ==
    [a \in Address |-> working[a] \cup (IF a \in First(r, n) THEN {r} ELSE {})]

WithBlock(r) == ~noGenerate[r]

\* simulator.SetStateMultiple, or SetKeyValueForAddress.
SetState(r) ==
    /\ pc[r] = "set"
    /\ working' = Written(r, Len(slice[r]))
    /\ \/ WithBlock(r) /\ Goto(r, "generate") /\ UNCHANGED answer
       \/ ~WithBlock(r) /\ Respond(r, "ok")
    /\ UNCHANGED <<visible, existed, op, slice, noGenerate, removed, earlier>>

\* A defect: the failure to write is not returned.
FailureUnreported(r) ==
    /\ pc[r] = "set"
    /\ \E n \in 0 .. Len(slice[r]) : working' = Written(r, n)
    /\ Respond(r, "ok")
    /\ UNCHANGED <<visible, existed, op, slice, noGenerate, removed, earlier>>

\* A defect: a write that failed in the middle is tried again.
WriteAgain(r) ==
    /\ pc[r] = "set"
    /\ \E n \in 0 .. Len(slice[r]) : working' = Written(r, n)
    /\ UNCHANGED <<visible, existed, pc, op, slice, noGenerate, removed, answer, earlier>>

\* It fails after some of the accounts, which keep what they were given.
SetStateFails(r) ==
    /\ pc[r] = "set"
    /\ \E n \in 0 .. Len(slice[r]) : working' = Written(r, n)
    /\ Respond(r, "failed")
    /\ UNCHANGED <<visible, existed, op, slice, noGenerate, removed, earlier>>

\* simulator.GenerateBlocks(1) makes every write so far visible.
GenerateBlock(r) ==
    /\ pc[r] = "generate"
    /\ visible' = working
    /\ Respond(r, "ok")
    /\ UNCHANGED <<working, existed, op, slice, noGenerate, removed, earlier>>

FailToGenerate(r) ==
    /\ pc[r] = "generate"
    /\ visible' \in {visible, working}
    /\ Respond(r, "failed")
    /\ UNCHANGED <<working, existed, op, slice, noGenerate, removed, earlier>>

\* A block of another caller, which may fall between any two steps.
OtherBlock ==
    /\ visible' = working
    /\ UNCHANGED <<working, existed, pc, op, slice, noGenerate, removed, answer, earlier>>

Next ==
    \/ \E r \in Request :
           \/ Reject(r) \/ ReceiveKeys(r) \/ ReceiveStates(r)
           \/ Remove(r) \/ RemoveFails(r)
           \/ SetState(r) \/ SetStateFails(r)
           \/ GenerateBlock(r) \/ FailToGenerate(r)
    \/ OtherBlock

Spec == Init /\ [][Next]_vars

--------------------------------------------------------------------------------
\* A request that ended well and generated its block.
Complete(r) == answer[r] = "ok" /\ ~noGenerate[r]

\* The type invariant: every variable holds a value the code can give it; the
\* loop never runs past the slice.
TypeOK ==
    /\ working \in Content /\ visible \in Content
    /\ existed \in SUBSET Address
    /\ pc \in [Request -> {"new", "remove", "set", "generate", "done"}]
    /\ op \in [Request -> {"keys", "set", "overwrite"}]
    /\ slice \in [Request -> Seq(Address)]
    /\ noGenerate \in [Request -> BOOLEAN]
    /\ removed \in [Request -> Nat]
    /\ \A r \in Request : /\ removed[r] <= Len(slice[r])
                          /\ pc[r] = "remove" => removed[r] < Len(slice[r])
    /\ answer \in [Request -> {"none", "invalid", "failed", "ok"}]
    /\ earlier \in [Request -> SUBSET Value]

\* After a successful overwrite nothing of what was there when the request
\* arrived is left in its accounts, and nothing of it is visible when the request
\* had its block, whatever other requests wrote in the meantime.
OldStateCleaned ==
    \A r \in Request :
        op[r] = "overwrite" /\ answer[r] = "ok" =>
            \A a \in Named(r) :
                /\ working[a] \cap earlier[r] = {}
                /\ Complete(r) => visible[a] \cap earlier[r] = {}

\* What a completed request wrote, and nobody has removed, is visible: its answer
\* is not given before a block has been made from a state with the write in it.
AppliedWhenAnswered ==
    \A r \in Request : Complete(r) =>
        \A a \in Named(r) : r \in working[a] => r \in visible[a]

\* What a successful request wrote is in all of its accounts, but for those
\* another request has overwritten or is overwriting.
WrittenWhenAnswered ==
    \A r \in Request : answer[r] = "ok" =>
        \A a \in Named(r) :
            r \in working[a] \/ \E s \in Request \ {r} : a \in RemovedBy(s)

\* An account that existed is missing only on account of an overwrite that names
\* it and is not over, or has failed; it is missing from the blocks only on
\* account of one that has not completed with a block.
MissingOnlyInOverwrite ==
    \A a \in existed :
        /\ working[a] = {} =>
               \E r \in Request : a \in RemovedBy(r) /\ answer[r] # "ok"
        /\ visible[a] = {} =>
               \E r \in Request : a \in RemovedBy(r) /\ ~Complete(r)

\* What a block has shown of a request, or of the genesis, the later blocks show
\* too, until another request's overwrite has removed the account: no set-state
\* takes away what others have written, and no request takes away its own, in
\* whatever order the writes, the removals and the blocks come.
ShownUntilRemoved ==
    [][\A v \in Value, a \in Address :
           v \in visible[a] /\ v \notin visible'[a] =>
               \E s \in Request \ {v} : a \in RemovedBy(s)]_vars

--------------------------------------------------------------------------------
\* The accounts as the clients that write them see it (AccountStore).
Stage ==
    [r \in Request |-> CASE pc[r] = "new" -> "idle"
                         [] pc[r] \in {"remove", "set"} -> "open"
                         [] pc[r] = "generate" -> "written"
                         [] OTHER -> "over"]

Store == INSTANCE AccountStore WITH
    content <- working, shown <- visible, stage <- Stage,
    names <- [r \in Request |-> Named(r)], plain <- noGenerate

\* Whatever the lists, the endpoints and the interleaving: a request touches only the
\* accounts it names, removes before it writes, writes once and to all of them
\* before its client is told of a success, with a block after the write if it asked
\* for one, and leaves the accounts alone from then on.
StoreKept == Store!Spec

--------------------------------------------------------------------------------
\* README: set-state-overwrite "also will clean the old state of the provided
\* accounts"; of two overwrites of an account the later one cleans what the
\* earlier one wrote.
OverwritesExclude ==
    \A r, s \in Request :
        /\ r # s
        /\ op[r] = "overwrite" /\ answer[r] = "ok"
        /\ op[s] = "overwrite" /\ answer[s] = "ok"
        => \A a \in Address : ~({r, s} \subseteq working[a])

===============================================================================
