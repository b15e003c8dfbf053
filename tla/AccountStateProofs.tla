--------------------------- MODULE AccountStateProofs --------------------------
(* Theorems about AccountState, for every set of requests and addresses and     *)
(* every list of addresses a request may carry.                                 *)
EXTENDS AccountState, TLAPS

\* Where a request stands in its own sequence of calls.
Progress(r) ==
    /\ pc[r] = "new" => removed[r] = 0 /\ earlier[r] = {}
    /\ pc[r] = "remove" => op[r] = "overwrite"
    /\ op[r] = "overwrite" /\ (pc[r] \in {"set", "generate"} \/ answer[r] = "ok") =>
           removed[r] = Len(slice[r])
    /\ pc[r] = "generate" => ~noGenerate[r]
    /\ pc[r] # "done" <=> answer[r] = "none"

\* The values that are old for a request belong to requests that write no more.
OldAreDone(r) == \A q \in earlier[r] : q = Genesis \/ (q \in Request /\ Done(q))

\* What a request has removed does not come back.
Cleaned(r) ==
    \A a \in RemovedBy(r) : /\ working[a] \cap earlier[r] = {}
                            /\ Complete(r) => visible[a] \cap earlier[r] = {}

\* What a request has written stays until another one removes it.
Kept(r) ==
    pc[r] = "generate" \/ answer[r] = "ok" =>
        \A a \in Named(r) :
            r \in working[a] \/ \E s \in Request \ {r} : a \in RemovedBy(s)

Applied(r) ==
    Complete(r) => \A a \in Named(r) : r \in working[a] => r \in visible[a]

\* A request in the last of its steps has left no account of its own empty,
\* unless another overwrite has emptied it since.
Missing(a) ==
    /\ working[a] = {} =>
           \E r \in Request : /\ a \in RemovedBy(r)
                              /\ answer[r] # "ok" /\ pc[r] # "generate"
    /\ visible[a] = {} => \E r \in Request : a \in RemovedBy(r) /\ ~Complete(r)

Local(r) == Progress(r) /\ OldAreDone(r) /\ Cleaned(r) /\ Kept(r) /\ Applied(r)

IInv == TypeOK /\ (\A r \in Request : Local(r)) /\ (\A a \in existed : Missing(a))

--------------------------------------------------------------------------------
\* A slice names addresses only.
LEMMA FirstInAddress ==
    ASSUME TypeOK, NEW r \in Request, NEW n \in 0 .. Len(slice[r])
    PROVE  First(r, n) \subseteq Address
  BY DEF TypeOK, First

\* So do the accounts a request names, and those it has removed.
LEMMA NamedInAddress ==
    ASSUME TypeOK, NEW r \in Request
    PROVE  Named(r) \subseteq Address /\ RemovedBy(r) \subseteq Address
  BY DEF TypeOK, Named, RemovedBy, First

\* The invariant holds before the first request arrives.
LEMMA InitIInv == Init => IInv
  <1> SUFFICES ASSUME Init PROVE IInv
    OBVIOUS
  <1>1. TypeOK
    BY DEF Init, TypeOK, Content, Value
  <1>2. ASSUME NEW r \in Request PROVE Local(r)
    BY DEF Init, Local, Progress, OldAreDone, Cleaned, Kept, Applied, RemovedBy, Named,
           First, Complete
  <1>3. ASSUME NEW a \in existed PROVE Missing(a)
    BY DEF Init, Missing
  <1>4. QED
    BY <1>1, <1>2, <1>3 DEF IInv

--------------------------------------------------------------------------------
\* The addresses of a request depend on its own fields only.
LEMMA SameAddresses ==
    ASSUME NEW r \in Request, slice'[r] = slice[r], removed'[r] = removed[r]
    PROVE  Named(r)' = Named(r) /\ RemovedBy(r)' = RemovedBy(r)
  BY DEF Named, RemovedBy, First

\* A request that has taken no turn of the loop has removed no account.
LEMMA NothingRemoved ==
    ASSUME NEW r \in Request, removed[r] = 0
    PROVE  RemovedBy(r) = {}
  BY DEF RemovedBy, First

\* One turn of the loop adds one address to the removed ones.
LEMMA OneRemoved ==
    ASSUME TypeOK, NEW r \in Request, slice'[r] = slice[r],
           removed'[r] = removed[r] + 1, removed[r] < Len(slice[r])
    PROVE  /\ RemovedBy(r)' = RemovedBy(r) \cup {slice[r][removed[r] + 1]}
           /\ slice[r][removed[r] + 1] \in Address
  <1>1. removed[r] \in Nat /\ Len(slice[r]) \in Nat /\ slice[r] \in Seq(Address)
    BY DEF TypeOK
  <1>2. removed[r] + 1 \in 1 .. Len(slice[r])
    BY <1>1
  <1>3. 1 .. (removed[r] + 1) = (1 .. removed[r]) \cup {removed[r] + 1}
    BY <1>1
  <1>4. RemovedBy(r)' = {slice[r][i] : i \in 1 .. (removed[r] + 1)}
    BY DEF RemovedBy, First
  <1>5. QED
    BY <1>1, <1>2, <1>3, <1>4 DEF RemovedBy, First

\* A step keeps what is known of a request it is not a step of: it writes values
\* of running requests only, removes only what an overwrite names, and takes the
\* visible state from the working one.
LEMMA Frame ==
    ASSUME IInv, NEW s \in Request,
           pc'[s] = pc[s], op'[s] = op[s], slice'[s] = slice[s],
           noGenerate'[s] = noGenerate[s], removed'[s] = removed[s],
           answer'[s] = answer[s], earlier'[s] = earlier[s],
           \A q \in Request : Done(q) => Done(q)',
           \A q \in Request : RemovedBy(q) \subseteq RemovedBy(q)',
           \A a \in Address : \A v \in working'[a] :
               v \in working[a] \/ (v \in Request /\ ~Done(v) /\ v # s),
           \A a \in Address : s \in working[a] =>
               s \in working'[a] \/ \E q \in Request \ {s} : a \in RemovedBy(q)',
           visible' = visible \/ (visible' = working /\ working' = working)
    PROVE  Local(s)'
  <1>1. Local(s) /\ TypeOK
    BY DEF IInv
  <1>2. Named(s)' = Named(s) /\ RemovedBy(s)' = RemovedBy(s)
    BY SameAddresses
  <1>3. Named(s) \subseteq Address /\ RemovedBy(s) \subseteq Address
    BY <1>1, NamedInAddress
  <1>4. Complete(s)' <=> Complete(s)
    BY DEF Complete
  <1>5. Progress(s)'
    BY <1>1 DEF Local, Progress
  <1>6. OldAreDone(s)'
    BY <1>1 DEF Local, OldAreDone
  <1>7. Cleaned(s)'
    <2> SUFFICES ASSUME NEW a \in RemovedBy(s)
                 PROVE  /\ working'[a] \cap earlier[s] = {}
                        /\ Complete(s) => visible'[a] \cap earlier[s] = {}
      BY <1>2, <1>4 DEF Cleaned
    <2>1. a \in Address
      BY <1>3
    <2>2. /\ working[a] \cap earlier[s] = {}
          /\ Complete(s) => visible[a] \cap earlier[s] = {}
      BY <1>1 DEF Local, Cleaned
    <2>3. \A q \in earlier[s] : q \in Request => Done(q) \/ q = Genesis
      BY <1>1 DEF Local, OldAreDone
    <2>4. working'[a] \cap earlier[s] = {}
      BY <2>1, <2>2, <2>3, GenesisAssumption
    <2>5. QED
      BY <2>2, <2>4
  <1>8. Kept(s)'
    <2> SUFFICES ASSUME pc[s] = "generate" \/ answer[s] = "ok", NEW a \in Named(s)
                 PROVE  \/ s \in working'[a]
                        \/ \E q \in Request \ {s} : a \in RemovedBy(q)'
      BY <1>2 DEF Kept
    <2>1. a \in Address
      BY <1>3
    <2>2. s \in working[a] \/ \E q \in Request \ {s} : a \in RemovedBy(q)
      BY <1>1 DEF Local, Kept
    <2>3. QED
      BY <2>1, <2>2
  <1>9. Applied(s)'
    <2> SUFFICES ASSUME Complete(s), NEW a \in Named(s), s \in working'[a]
                 PROVE  s \in visible'[a]
      BY <1>2, <1>4 DEF Applied
    <2>1. s \in working[a]
      BY <1>3
    <2>2. s \in visible[a]
      BY <1>1, <2>1 DEF Local, Applied
    <2>3. QED
      BY <2>1, <2>2
  <1>10. QED
    BY <1>5, <1>6, <1>7, <1>8, <1>9 DEF Local

\* A step that neither removes nor writes, and lets nobody complete, leaves the
\* reasons for the missing accounts in place.
LEMMA FrameMissing ==
    ASSUME IInv, NEW a \in existed, Missing(a),
           \A q \in Request : a \in RemovedBy(q) => a \in RemovedBy(q)',
           \A q \in Request : Complete(q)' => Complete(q),
           \A q \in Request : answer[q] # "ok" /\ pc[q] # "generate" =>
                                  answer'[q] # "ok" /\ pc'[q] # "generate",
           working'[a] = {} => working[a] = {},
           visible'[a] = {} => visible[a] = {} \/ working[a] = {}
    PROVE  Missing(a)'
  <1>1. ASSUME working'[a] = {}
        PROVE  \E r \in Request : a \in RemovedBy(r)' /\ answer'[r] # "ok" /\ pc'[r] # "generate"
    BY <1>1 DEF Missing
  <1>2. ASSUME visible'[a] = {}
        PROVE  \E r \in Request : a \in RemovedBy(r)' /\ ~Complete(r)'
    BY <1>2 DEF Missing, Complete
  <1>3. QED
    BY <1>1, <1>2 DEF Missing

\* A malformed request changes nothing but its own answer.
LEMMA RejectIInv ==
    ASSUME IInv, NEW r \in Request, Reject(r)
    PROVE  IInv'
  <1>1. TypeOK'
    BY DEF Reject, IInv, TypeOK, Respond, Goto, Content, Value
  <1>2. \A q \in Request : RemovedBy(q)' = RemovedBy(q)
    BY SameAddresses DEF Reject
  <1>3. /\ \A q \in Request : Done(q) => Done(q)'
        /\ \A q \in Request : Complete(q)' => Complete(q)
        /\ \A q \in Request : answer[q] # "ok" /\ pc[q] # "generate" =>
                                  answer'[q] # "ok" /\ pc'[q] # "generate"
    BY DEF Reject, IInv, TypeOK, Respond, Goto, Done, Complete
  <1>4. Local(r)'
    <2>1. Local(r) /\ RemovedBy(r)' = {}
      BY <1>2, NothingRemoved DEF Reject, IInv, Local, Progress
    <2>2. pc'[r] = "done" /\ answer'[r] = "invalid" /\ earlier'[r] = {}
      BY <2>1 DEF Reject, IInv, TypeOK, Respond, Goto, Local, Progress
    <2>3. QED
      BY <2>1, <2>2 DEF Local, Progress, OldAreDone, Cleaned, Kept, Applied, Complete
  <1>5. ASSUME NEW s \in Request \ {r} PROVE Local(s)'
    BY <1>2, <1>3, Frame DEF Reject, IInv, TypeOK, Respond, Goto
  <1>6. ASSUME NEW a \in existed PROVE Missing(a)'
    BY <1>2, <1>3, FrameMissing DEF Reject, IInv
  <1>7. QED
    BY <1>1, <1>4, <1>5, <1>6 DEF IInv, Reject

\* A request that arrives keeps the invariant.
LEMMA ReceiveIInv ==
    ASSUME IInv, NEW r \in Request, NEW o \in {"keys", "set", "overwrite"},
           NEW s \in Seq(Address), NEW n \in BOOLEAN, Receive(r, o, s, n)
    PROVE  IInv'
  <1>1. Local(r) /\ pc[r] = "new" /\ removed[r] = 0 /\ answer[r] = "none"
    BY DEF Receive, IInv, Local, Progress
  <1>2. TypeOK'
    <2>1. pc'[r] = "remove" => s # <<>>
      BY DEF Receive, Goto, IInv, TypeOK
    <2>2. Len(s) \in Nat /\ (s # <<>> => Len(s) > 0)
      OBVIOUS
    <2>3. /\ pc' \in [Request -> {"new", "remove", "set", "generate", "done"}]
          /\ op' \in [Request -> {"keys", "set", "overwrite"}]
          /\ slice' \in [Request -> Seq(Address)]
          /\ noGenerate' \in [Request -> BOOLEAN]
          /\ earlier' \in [Request -> SUBSET Value]
      BY DEF Receive, Goto, IInv, TypeOK, Value
    <2>4. \A q \in Request : /\ removed'[q] <= Len(slice'[q])
                             /\ pc'[q] = "remove" => removed'[q] < Len(slice'[q])
      BY <1>1, <2>1, <2>2 DEF Receive, Goto, IInv, TypeOK
    <2>5. QED
      BY <2>3, <2>4 DEF Receive, IInv, TypeOK
  <1>3. \A q \in Request : RemovedBy(q)' = RemovedBy(q)
    <2>1. ASSUME NEW q \in Request \ {r} PROVE RemovedBy(q)' = RemovedBy(q)
      BY SameAddresses DEF Receive, IInv, TypeOK
    <2>2. RemovedBy(r)' = {} /\ RemovedBy(r) = {}
      BY <1>1 DEF Receive, RemovedBy, First
    <2>3. QED
      BY <2>1, <2>2
  <1>4. /\ \A q \in Request : Done(q) => Done(q)'
        /\ \A q \in Request : Complete(q)' => Complete(q)
        /\ \A q \in Request : answer[q] # "ok" /\ pc[q] # "generate" =>
                                  answer'[q] # "ok" /\ pc'[q] # "generate"
    BY <1>1 DEF Receive, IInv, TypeOK, Goto, Done, Complete
  <1>5. Local(r)'
    <2>1. RemovedBy(r)' = {}
      BY <1>1, <1>3, NothingRemoved
    <2>2. /\ answer'[r] = "none" /\ removed'[r] = 0
          /\ slice'[r] = s /\ op'[r] = o
          /\ pc'[r] = IF o = "overwrite" /\ s # <<>> THEN "remove" ELSE "set"
          /\ earlier'[r] = {Genesis} \cup {q \in Request : Done(q)}
      BY <1>1 DEF Receive, IInv, TypeOK, Goto
    <2>3. o = "overwrite" /\ s = <<>> => Len(s) = 0
      OBVIOUS
    <2>4. Progress(r)'
      BY <2>2, <2>3 DEF Progress
    <2>5. OldAreDone(r)'
      BY <1>4, <2>2 DEF OldAreDone
    <2>6. QED
      BY <2>1, <2>2, <2>4, <2>5 DEF Local, Cleaned, Kept, Applied, Complete
  <1>6. ASSUME NEW q \in Request \ {r} PROVE Local(q)'
    BY <1>3, <1>4, Frame DEF Receive, IInv, TypeOK, Goto
  <1>7. ASSUME NEW a \in existed PROVE Missing(a)'
    BY <1>3, <1>4, FrameMissing DEF Receive, IInv
  <1>8. QED
    BY <1>2, <1>5, <1>6, <1>7 DEF IInv, Receive

--------------------------------------------------------------------------------
\* Removing empties one account of the request, and notes that it did.
LEMMA RemoveIInv ==
    ASSUME IInv, NEW r \in Request, Remove(r)
    PROVE  IInv'
  <1> DEFINE b == slice[r][removed[r] + 1]
  <1>1. /\ removed[r] < Len(slice[r]) /\ removed[r] \in Nat /\ Len(slice[r]) \in Nat
        /\ removed'[r] = removed[r] + 1 /\ slice' = slice
        /\ answer' = answer /\ answer[r] = "none" /\ Local(r)
        /\ pc'[r] = IF removed[r] + 1 = Len(slice[r]) THEN "set" ELSE "remove"
    BY DEF Remove, LastOne, Goto, IInv, TypeOK, Local, Progress
  <1>2. /\ RemovedBy(r)' = RemovedBy(r) \cup {b}
        /\ b \in Address
    BY <1>1, OneRemoved DEF IInv
  <1>3. ASSUME NEW q \in Request \ {r} PROVE RemovedBy(q)' = RemovedBy(q)
    BY SameAddresses DEF Remove, IInv, TypeOK
  <1>4. /\ working'[b] = {}
        /\ \A a \in Address \ {b} : working'[a] = working[a]
        /\ working' \in Content
    BY <1>2 DEF Remove, IInv, TypeOK, Content
  <1>5. TypeOK'
    <2>1. pc' \in [Request -> {"new", "remove", "set", "generate", "done"}]
      BY DEF Remove, Goto, IInv, TypeOK
    <2>2. \A q \in Request : /\ removed'[q] <= Len(slice'[q])
                             /\ pc'[q] = "remove" => removed'[q] < Len(slice'[q])
      BY <1>1 DEF Remove, Goto, IInv, TypeOK
    <2>3. removed' \in [Request -> Nat]
      BY DEF Remove, IInv, TypeOK
    <2>4. QED
      BY <1>4, <2>1, <2>2, <2>3 DEF Remove, IInv, TypeOK
  <1>6. \A q \in Request : RemovedBy(q) \subseteq RemovedBy(q)'
    BY <1>2, <1>3
  <1>7. /\ \A q \in Request : Done(q) => Done(q)'
        /\ \A q \in Request : Complete(q)' <=> Complete(q)
        /\ \A q \in Request : answer[q] # "ok" /\ pc[q] # "generate" =>
                                  answer'[q] # "ok" /\ pc'[q] # "generate"
    BY <1>1 DEF Remove, Goto, IInv, TypeOK, Done, Complete
  <1>8. Local(r)'
    <2>1. Progress(r)'
      BY <1>1 DEF Remove, Local, Progress
    <2>2. OldAreDone(r)'
      BY <1>1, <1>7 DEF Remove, Local, OldAreDone
    <2>3. Cleaned(r)'
      BY <1>1, <1>2, <1>4, <1>7, NamedInAddress
      DEF Remove, Local, Cleaned, Complete, IInv
    <2>4. QED
      BY <1>1, <2>1, <2>2, <2>3 DEF Local, Kept, Applied, Complete
  <1>9. ASSUME NEW q \in Request \ {r} PROVE Local(q)'
    <2>1. \A a \in Address : \A v \in working'[a] : v \in working[a]
      BY <1>2, <1>4
    <2>2. \A a \in Address : q \in working[a] =>
              q \in working'[a] \/ \E p \in Request \ {q} : a \in RemovedBy(p)'
      BY <1>2, <1>4
    <2>3. QED
      BY <1>6, <1>7, <2>1, <2>2, Frame DEF Remove, Goto, IInv, TypeOK
  <1>10. ASSUME NEW a \in existed PROVE Missing(a)'
    <2>1. Missing(a) /\ a \in Address
      BY DEF IInv, TypeOK
    <2>2. CASE a = b
      BY <1>1, <1>2, <2>2 DEF Missing, Complete
    <2>3. CASE a # b
      BY <1>4, <1>6, <1>7, <2>1, <2>3, FrameMissing DEF Remove
    <2>4. QED
      BY <2>2, <2>3
  <1>11. QED
    BY <1>5, <1>8, <1>9, <1>10 DEF IInv, Remove

\* A failed removal may have emptied its account as well.
LEMMA RemoveFailsIInv ==
    ASSUME IInv, NEW r \in Request, RemoveFails(r)
    PROVE  IInv'
  <1> DEFINE b == slice[r][removed[r] + 1]
  <1>1. /\ removed[r] < Len(slice[r]) /\ removed[r] \in Nat /\ Len(slice[r]) \in Nat
        /\ slice' = slice /\ answer'[r] = "failed" /\ pc'[r] = "done" /\ Local(r)
    BY DEF RemoveFails, Respond, Goto, IInv, TypeOK
  <1>2. CASE working' = working /\ removed' = removed
    <2>1. \A q \in Request : RemovedBy(q)' = RemovedBy(q)
      BY <1>2, SameAddresses DEF RemoveFails
    <2>2. /\ \A q \in Request : Done(q) => Done(q)'
          /\ \A q \in Request : Complete(q)' => Complete(q)
          /\ \A q \in Request : answer[q] # "ok" /\ pc[q] # "generate" =>
                                    answer'[q] # "ok" /\ pc'[q] # "generate"
      BY DEF RemoveFails, Respond, Goto, IInv, TypeOK, Done, Complete
    <2>3. TypeOK'
      BY <1>2 DEF RemoveFails, Respond, Goto, IInv, TypeOK
    <2>4. Local(r)'
      BY <1>1, <1>2, <2>1, <2>2
      DEF RemoveFails, Local, Progress, OldAreDone, Cleaned, Kept, Applied, Complete
    <2>5. ASSUME NEW q \in Request \ {r} PROVE Local(q)'
      BY <1>2, <2>1, <2>2, Frame DEF RemoveFails, Respond, Goto, IInv, TypeOK
    <2>6. ASSUME NEW a \in existed PROVE Missing(a)'
      BY <1>2, <2>1, <2>2, FrameMissing DEF RemoveFails, IInv
    <2>7. QED
      BY <2>3, <2>4, <2>5, <2>6 DEF IInv, RemoveFails
  <1>3. CASE /\ working' = [working EXCEPT ![b] = {}]
             /\ removed' = [removed EXCEPT ![r] = @ + 1]
    <2>1. removed'[r] = removed[r] + 1
      BY <1>3 DEF IInv, TypeOK
    <2>2. RemovedBy(r)' = RemovedBy(r) \cup {b} /\ b \in Address
      BY <1>1, <2>1, OneRemoved DEF IInv
    <2>3. ASSUME NEW q \in Request \ {r} PROVE RemovedBy(q)' = RemovedBy(q)
      BY <1>1, <1>3, SameAddresses DEF IInv, TypeOK
    <2>4. /\ working'[b] = {}
          /\ \A a \in Address \ {b} : working'[a] = working[a]
          /\ working' \in Content
      BY <1>3, <2>2 DEF IInv, TypeOK, Content
    <2>5. TypeOK'
      BY <1>1, <1>3, <2>4 DEF RemoveFails, Respond, Goto, IInv, TypeOK
    <2>6. \A q \in Request : RemovedBy(q) \subseteq RemovedBy(q)'
      BY <2>2, <2>3
    <2>7. /\ \A q \in Request : Done(q) => Done(q)'
          /\ \A q \in Request : Complete(q)' => Complete(q)
          /\ \A q \in Request : answer[q] # "ok" /\ pc[q] # "generate" =>
                                    answer'[q] # "ok" /\ pc'[q] # "generate"
      BY DEF RemoveFails, Respond, Goto, IInv, TypeOK, Done, Complete
    <2>8. Local(r)'
      <3>1. Progress(r)'
        BY <1>1 DEF RemoveFails, Local, Progress
      <3>2. OldAreDone(r)'
        BY <1>1, <2>7 DEF RemoveFails, Local, OldAreDone
      <3>3. Cleaned(r)'
        BY <1>1, <2>2, <2>4, NamedInAddress
        DEF RemoveFails, Local, Cleaned, Complete, IInv
      <3>4. QED
        BY <1>1, <3>1, <3>2, <3>3 DEF Local, Kept, Applied, Complete
    <2>9. ASSUME NEW q \in Request \ {r} PROVE Local(q)'
      <3>1. \A a \in Address : \A v \in working'[a] : v \in working[a]
        BY <2>2, <2>4
      <3>2. \A a \in Address : q \in working[a] =>
                q \in working'[a] \/ \E p \in Request \ {q} : a \in RemovedBy(p)'
        BY <2>2, <2>4
      <3>3. QED
        BY <1>3, <2>6, <2>7, <3>1, <3>2, Frame
        DEF RemoveFails, Respond, Goto, IInv, TypeOK
    <2>10. ASSUME NEW a \in existed PROVE Missing(a)'
      <3>1. Missing(a) /\ a \in Address
        BY DEF IInv, TypeOK
      <3>2. CASE a = b
        BY <1>1, <2>2, <3>2 DEF Missing, Complete
      <3>3. CASE a # b
        BY <2>4, <2>6, <2>7, <3>1, <3>3, FrameMissing DEF RemoveFails
      <3>4. QED
        BY <3>2, <3>3
    <2>11. QED
      BY <2>5, <2>8, <2>9, <2>10 DEF IInv, RemoveFails
  <1>4. QED
    BY <1>2, <1>3 DEF RemoveFails

--------------------------------------------------------------------------------
\* What a write of the first n accounts does: it only adds, only values of its
\* own request, and to all of those accounts.
LEMMA WrittenAdds ==
    ASSUME TypeOK, NEW r \in Request, NEW n \in 0 .. Len(slice[r])
    PROVE  /\ Written(r, n) \in Content
           /\ \A a \in Address : /\ working[a] \subseteq Written(r, n)[a]
                                 /\ Written(r, n)[a] \subseteq working[a] \cup {r}
                                 /\ a \in First(r, n) => r \in Written(r, n)[a]
  BY DEF TypeOK, Written, Content, Value

\* Writing all accounts keeps the invariant.
LEMMA SetStateIInv ==
    ASSUME IInv, NEW r \in Request, SetState(r)
    PROVE  IInv'
  <1>1. /\ working' \in Content
        /\ \A a \in Address : /\ working[a] \subseteq working'[a]
                              /\ working'[a] \subseteq working[a] \cup {r}
                              /\ a \in Named(r) => r \in working'[a]
    BY WrittenAdds DEF SetState, IInv, TypeOK, Named
  <1>2. \A q \in Request : RemovedBy(q)' = RemovedBy(q) /\ Named(q)' = Named(q)
    BY SameAddresses DEF SetState
  <1>3. /\ TypeOK /\ Local(r) /\ pc[r] = "set" /\ answer[r] = "none"
        /\ op' = op /\ slice' = slice /\ noGenerate' = noGenerate
        /\ removed' = removed /\ earlier' = earlier
        /\ visible' = visible /\ existed' = existed
    BY DEF SetState, IInv, Local, Progress
  <1>4. \/ ~noGenerate[r] /\ pc'[r] = "generate" /\ answer'[r] = "none"
        \/ noGenerate[r] /\ pc'[r] = "done" /\ answer'[r] = "ok"
    BY <1>3 DEF SetState, WithBlock, Respond, Goto, TypeOK
  <1>5. TypeOK'
    <2>1. /\ pc' \in [Request -> {"new", "remove", "set", "generate", "done"}]
          /\ answer' \in [Request -> {"none", "invalid", "failed", "ok"}]
          /\ \A q \in Request : pc'[q] = "remove" => pc[q] = "remove"
      BY DEF SetState, Respond, Goto, IInv, TypeOK
    <2>2. QED
      BY <1>1, <1>3, <2>1 DEF TypeOK
  <1>6. /\ \A q \in Request : Done(q) => Done(q)'
        /\ \A q \in Request : Complete(q)' => Complete(q)
    BY <1>3 DEF SetState, WithBlock, Respond, Goto, TypeOK, Done, Complete
  <1>7. Named(r) \subseteq Address /\ RemovedBy(r) \subseteq Address
    BY <1>3, NamedInAddress
  <1>8. r \notin earlier[r]
    BY <1>3, GenesisAssumption DEF Local, OldAreDone, Done
  <1>9. Local(r)'
    <2>1. Progress(r)'
      BY <1>3, <1>4 DEF Local, Progress
    <2>2. OldAreDone(r)'
      BY <1>3, <1>6 DEF Local, OldAreDone
    <2>3. ~Complete(r)'
      BY <1>3, <1>4 DEF Complete
    <2>4. Cleaned(r)'
      BY <1>1, <1>2, <1>3, <1>7, <1>8, <2>3 DEF Local, Cleaned
    <2>5. Kept(r)'
      BY <1>1, <1>2, <1>7 DEF Kept
    <2>6. QED
      BY <2>1, <2>2, <2>3, <2>4, <2>5 DEF Local, Applied
  <1>10. ASSUME NEW q \in Request \ {r} PROVE Local(q)'
    <2>1. ~Done(r)
      BY <1>3 DEF Done
    <2>2. /\ \A a \in Address : \A v \in working'[a] :
                 v \in working[a] \/ (v \in Request /\ ~Done(v) /\ v # q)
          /\ \A a \in Address : q \in working[a] => q \in working'[a]
      BY <1>1, <2>1
    <2>3. pc'[q] = pc[q] /\ answer'[q] = answer[q]
      BY DEF SetState, Respond, Goto, IInv, TypeOK
    <2>4. QED
      BY <1>2, <1>3, <1>6, <2>2, <2>3, Frame
  <1>11. ASSUME NEW a \in existed PROVE Missing(a)'
    <2>1. Missing(a) /\ a \in Address
      BY <1>3 DEF IInv, TypeOK
    <2>2. ASSUME working'[a] = {}
          PROVE  \E q \in Request : /\ a \in RemovedBy(q)'
                                    /\ answer'[q] # "ok" /\ pc'[q] # "generate"
      <3>1. working[a] = {} /\ a \notin Named(r)
        BY <1>1, <2>1, <2>2
      <3>2. RemovedBy(r) \subseteq Named(r)
        BY <1>3 DEF RemovedBy, Named, First, TypeOK
      <3>3. PICK q \in Request : a \in RemovedBy(q) /\ answer[q] # "ok" /\ pc[q] # "generate"
        BY <2>1, <3>1 DEF Missing
      <3>4. q # r
        BY <3>1, <3>2, <3>3
      <3>5. pc'[q] = pc[q] /\ answer'[q] = answer[q]
        BY <3>4 DEF SetState, Respond, Goto, IInv, TypeOK
      <3>6. QED
        BY <1>2, <3>3, <3>5
    <2>3. visible'[a] = {} => \E q \in Request : a \in RemovedBy(q)' /\ ~Complete(q)'
      BY <1>2, <1>3, <1>6, <2>1 DEF Missing
    <2>4. QED
      BY <2>2, <2>3 DEF Missing
  <1>12. QED
    BY <1>3, <1>5, <1>9, <1>10, <1>11 DEF IInv

\* So does writing some of them and failing.
LEMMA SetStateFailsIInv ==
    ASSUME IInv, NEW r \in Request, SetStateFails(r)
    PROVE  IInv'
  <1>1. /\ working' \in Content
        /\ \A a \in Address : /\ working[a] \subseteq working'[a]
                              /\ working'[a] \subseteq working[a] \cup {r}
    BY WrittenAdds DEF SetStateFails, IInv
  <1>2. \A q \in Request : RemovedBy(q)' = RemovedBy(q) /\ Named(q)' = Named(q)
    BY SameAddresses DEF SetStateFails
  <1>3. /\ TypeOK /\ Local(r) /\ pc[r] = "set" /\ answer[r] = "none"
        /\ op' = op /\ slice' = slice /\ noGenerate' = noGenerate
        /\ removed' = removed /\ earlier' = earlier
        /\ visible' = visible /\ existed' = existed
        /\ pc'[r] = "done" /\ answer'[r] = "failed"
    BY DEF SetStateFails, IInv, Local, Progress, Respond, Goto, TypeOK
  <1>4. TypeOK'
    <2>1. /\ pc' \in [Request -> {"new", "remove", "set", "generate", "done"}]
          /\ answer' \in [Request -> {"none", "invalid", "failed", "ok"}]
          /\ \A q \in Request : pc'[q] = "remove" => pc[q] = "remove"
      BY DEF SetStateFails, Respond, Goto, IInv, TypeOK
    <2>2. QED
      BY <1>1, <1>3, <2>1 DEF TypeOK
  <1>5. /\ \A q \in Request : Done(q) => Done(q)'
        /\ \A q \in Request : Complete(q)' => Complete(q)
        /\ \A q \in Request : answer[q] # "ok" /\ pc[q] # "generate" =>
                                  answer'[q] # "ok" /\ pc'[q] # "generate"
    BY <1>3 DEF SetStateFails, Respond, Goto, TypeOK, Done, Complete
  <1>6. Named(r) \subseteq Address /\ RemovedBy(r) \subseteq Address
    BY <1>3, NamedInAddress
  <1>7. r \notin earlier[r]
    BY <1>3, GenesisAssumption DEF Local, OldAreDone, Done
  <1>8. Local(r)'
    <2>1. Progress(r)' /\ ~Complete(r)'
      BY <1>3 DEF Progress, Complete
    <2>2. OldAreDone(r)'
      BY <1>3, <1>5 DEF Local, OldAreDone
    <2>3. Cleaned(r)'
      BY <1>1, <1>2, <1>3, <1>6, <1>7, <2>1 DEF Local, Cleaned
    <2>4. QED
      BY <1>3, <2>1, <2>2, <2>3 DEF Local, Kept, Applied
  <1>9. ASSUME NEW q \in Request \ {r} PROVE Local(q)'
    <2>1. ~Done(r)
      BY <1>3 DEF Done
    <2>2. /\ \A a \in Address : \A v \in working'[a] :
                 v \in working[a] \/ (v \in Request /\ ~Done(v) /\ v # q)
          /\ \A a \in Address : q \in working[a] => q \in working'[a]
      BY <1>1, <2>1
    <2>3. pc'[q] = pc[q] /\ answer'[q] = answer[q]
      BY DEF SetStateFails, Respond, Goto, IInv, TypeOK
    <2>4. QED
      BY <1>2, <1>3, <1>5, <2>2, <2>3, Frame
  <1>10. ASSUME NEW a \in existed PROVE Missing(a)'
    <2>1. working'[a] = {} => working[a] = {}
      BY <1>1, <1>3 DEF TypeOK
    <2>2. QED
      BY <1>2, <1>3, <1>5, <2>1, FrameMissing DEF IInv
  <1>11. QED
    BY <1>3, <1>4, <1>8, <1>9, <1>10 DEF IInv

--------------------------------------------------------------------------------
\* The block of a request copies the working state, in which all of what the
\* request wrote and nothing of what it removed is left.
LEMMA GenerateBlockIInv ==
    ASSUME IInv, NEW r \in Request, GenerateBlock(r)
    PROVE  IInv'
  <1>1. /\ TypeOK /\ Local(r) /\ pc[r] = "generate" /\ answer[r] = "none"
        /\ visible' = working /\ working' = working /\ existed' = existed
        /\ op' = op /\ slice' = slice /\ noGenerate' = noGenerate
        /\ removed' = removed /\ earlier' = earlier
        /\ pc'[r] = "done" /\ answer'[r] = "ok" /\ ~noGenerate[r]
    BY DEF GenerateBlock, IInv, Local, Progress, Respond, Goto, TypeOK
  <1>2. \A q \in Request : RemovedBy(q)' = RemovedBy(q) /\ Named(q)' = Named(q)
    BY <1>1, SameAddresses
  <1>3. TypeOK'
    <2>1. /\ pc' \in [Request -> {"new", "remove", "set", "generate", "done"}]
          /\ answer' \in [Request -> {"none", "invalid", "failed", "ok"}]
          /\ \A q \in Request : pc'[q] = "remove" => pc[q] = "remove"
      BY DEF GenerateBlock, Respond, Goto, IInv, TypeOK
    <2>2. QED
      BY <1>1, <2>1 DEF TypeOK
  <1>4. \A q \in Request \ {r} : pc'[q] = pc[q] /\ answer'[q] = answer[q]
    BY DEF GenerateBlock, Respond, Goto, IInv, TypeOK
  <1>5. \A q \in Request : Done(q) => Done(q)'
    BY <1>1, <1>4 DEF Done
  <1>6. Local(r)'
    <2>1. Progress(r)'
      BY <1>1 DEF Local, Progress
    <2>2. OldAreDone(r)'
      BY <1>1, <1>5 DEF Local, OldAreDone
    <2>3. Cleaned(r)'
      BY <1>1, <1>2 DEF Local, Cleaned
    <2>4. Kept(r)' /\ Applied(r)'
      BY <1>1, <1>2 DEF Local, Kept, Applied
    <2>5. QED
      BY <2>1, <2>2, <2>3, <2>4 DEF Local
  <1>7. ASSUME NEW q \in Request \ {r} PROVE Local(q)'
    BY <1>1, <1>2, <1>4, <1>5, Frame
  <1>8. ASSUME NEW a \in existed PROVE Missing(a)'
    <2>1. Missing(a)
      BY DEF IInv
    <2>2. ASSUME working[a] = {}
          PROVE  \E q \in Request \ {r} :
                     a \in RemovedBy(q) /\ answer[q] # "ok" /\ pc[q] # "generate"
      BY <1>1, <2>1, <2>2 DEF Missing
    <2>3. QED
      BY <1>1, <1>2, <1>4, <2>2 DEF Missing, Complete
  <1>9. QED
    BY <1>1, <1>3, <1>6, <1>7, <1>8 DEF IInv

\* A block that fails keeps it, whatever it did to the shards.
LEMMA FailToGenerateIInv ==
    ASSUME IInv, NEW r \in Request, FailToGenerate(r)
    PROVE  IInv'
  <1>1. /\ TypeOK /\ Local(r) /\ pc[r] = "generate" /\ answer[r] = "none"
        /\ visible' \in {visible, working} /\ working' = working /\ existed' = existed
        /\ op' = op /\ slice' = slice /\ noGenerate' = noGenerate
        /\ removed' = removed /\ earlier' = earlier
        /\ pc'[r] = "done" /\ answer'[r] = "failed"
    BY DEF FailToGenerate, IInv, Local, Progress, Respond, Goto, TypeOK
  <1>2. \A q \in Request : RemovedBy(q)' = RemovedBy(q) /\ Named(q)' = Named(q)
    BY <1>1, SameAddresses
  <1>3. TypeOK'
    <2>1. /\ pc' \in [Request -> {"new", "remove", "set", "generate", "done"}]
          /\ answer' \in [Request -> {"none", "invalid", "failed", "ok"}]
          /\ \A q \in Request : pc'[q] = "remove" => pc[q] = "remove"
      BY DEF FailToGenerate, Respond, Goto, IInv, TypeOK
    <2>2. QED
      BY <1>1, <2>1 DEF TypeOK
  <1>4. \A q \in Request \ {r} : pc'[q] = pc[q] /\ answer'[q] = answer[q]
    BY DEF FailToGenerate, Respond, Goto, IInv, TypeOK
  <1>5. /\ \A q \in Request : Done(q) => Done(q)'
        /\ \A q \in Request : Complete(q)' => Complete(q)
        /\ \A q \in Request : answer[q] # "ok" /\ pc[q] # "generate" =>
                                  answer'[q] # "ok" /\ pc'[q] # "generate"
    BY <1>1, <1>4 DEF Done, Complete
  <1>6. Local(r)'
    <2>1. Progress(r)' /\ ~Complete(r)'
      BY <1>1 DEF Progress, Complete
    <2>2. OldAreDone(r)'
      BY <1>1, <1>5 DEF Local, OldAreDone
    <2>3. QED
      BY <1>1, <1>2, <2>1, <2>2 DEF Local, Cleaned, Kept, Applied
  <1>7. ASSUME NEW q \in Request \ {r} PROVE Local(q)'
    BY <1>1, <1>2, <1>4, <1>5, Frame
  <1>8. ASSUME NEW a \in existed PROVE Missing(a)'
    BY <1>1, <1>2, <1>5, FrameMissing DEF IInv
  <1>9. QED
    BY <1>1, <1>3, <1>6, <1>7, <1>8 DEF IInv

\* A block of another caller keeps it.
LEMMA OtherBlockIInv ==
    ASSUME IInv, OtherBlock \/ UNCHANGED vars
    PROVE  IInv'
  <1>1. /\ visible' \in {visible, working} /\ working' = working /\ existed' = existed
        /\ op' = op /\ slice' = slice /\ noGenerate' = noGenerate
        /\ removed' = removed /\ earlier' = earlier /\ pc' = pc /\ answer' = answer
    BY DEF OtherBlock, vars
  <1>2. \A q \in Request : RemovedBy(q)' = RemovedBy(q)
    BY <1>1, SameAddresses
  <1>3. TypeOK'
    BY <1>1 DEF IInv, TypeOK
  <1>4. /\ \A q \in Request : Done(q) => Done(q)'
        /\ \A q \in Request : Complete(q)' => Complete(q)
    BY <1>1 DEF Done, Complete
  <1>5. ASSUME NEW q \in Request PROVE Local(q)'
    BY <1>1, <1>2, <1>4, Frame
  <1>6. ASSUME NEW a \in existed PROVE Missing(a)'
    BY <1>1, <1>2, <1>4, FrameMissing DEF IInv
  <1>7. QED
    BY <1>1, <1>3, <1>5, <1>6 DEF IInv

--------------------------------------------------------------------------------
\* The inductive invariant: what each request has removed and written so far, and
\* who answers for every missing account.
THEOREM Invariance == Spec => []IInv
  <1>1. IInv /\ [Next]_vars => IInv'
    <2> SUFFICES ASSUME IInv, [Next]_vars PROVE IInv'
      OBVIOUS
    <2>1. ASSUME NEW r \in Request, ReceiveKeys(r) PROVE IInv'
      <3>1. PICK a \in Address : Receive(r, "keys", <<a>>, TRUE)
        BY <2>1 DEF ReceiveKeys
      <3>2. <<a>> \in Seq(Address)
        OBVIOUS
      <3>3. QED
        BY <3>1, <3>2, ReceiveIInv
    <2>2. ASSUME NEW r \in Request, ReceiveStates(r) PROVE IInv'
      <3>1. PICK o \in {"set", "overwrite"}, s \in Slice, n \in BOOLEAN :
                Receive(r, o, s, n)
        BY <2>2 DEF ReceiveStates
      <3>2. QED
        BY <3>1, SliceAssumption, ReceiveIInv
    <2>3. ASSUME NEW r \in Request,
                 \/ Reject(r) \/ Remove(r) \/ RemoveFails(r) \/ SetState(r)
                 \/ SetStateFails(r) \/ GenerateBlock(r) \/ FailToGenerate(r)
          PROVE  IInv'
      BY <2>3, RejectIInv, RemoveIInv, RemoveFailsIInv, SetStateIInv, SetStateFailsIInv,
         GenerateBlockIInv, FailToGenerateIInv
    <2>4. CASE OtherBlock \/ UNCHANGED vars
      BY <2>4, OtherBlockIInv
    <2>5. QED
      BY <2>1, <2>2, <2>3, <2>4 DEF Next
  <1>2. QED
    BY InitIInv, <1>1, PTL DEF Spec

\* Every variable keeps to its type; the loop over the accounts stays in the slice.
THEOREM TypeCorrect == Spec => []TypeOK
  <1>1. IInv => TypeOK
    BY DEF IInv
  <1>2. QED
    BY Invariance, <1>1, PTL

\* A successful overwrite leaves nothing of what there was when it arrived.
THEOREM OverwriteCleans == Spec => []OldStateCleaned
  <1>1. IInv => OldStateCleaned
    <2> SUFFICES ASSUME IInv, NEW r \in Request, op[r] = "overwrite", answer[r] = "ok",
                        NEW a \in Named(r)
                 PROVE  /\ working[a] \cap earlier[r] = {}
                        /\ Complete(r) => visible[a] \cap earlier[r] = {}
      BY DEF OldStateCleaned
    <2>1. RemovedBy(r) = Named(r)
      BY DEF IInv, Local, Progress, RemovedBy, Named
    <2>2. QED
      BY <2>1 DEF IInv, Local, Cleaned
  <1>2. QED
    BY Invariance, <1>1, PTL

\* What a completed request wrote, and nobody removed, is in the last block.
THEOREM AnsweredIsApplied == Spec => []AppliedWhenAnswered
  <1>1. IInv => AppliedWhenAnswered
    BY DEF IInv, Local, Applied, AppliedWhenAnswered
  <1>2. QED
    BY Invariance, <1>1, PTL

\* A successful request has written all of its accounts.
THEOREM AnsweredIsWritten == Spec => []WrittenWhenAnswered
  <1>1. IInv => WrittenWhenAnswered
    BY DEF IInv, Local, Kept, WrittenWhenAnswered
  <1>2. QED
    BY Invariance, <1>1, PTL

\* No account goes missing but by an overwrite that is not over or has failed.
THEOREM MissingIsExplained == Spec => []MissingOnlyInOverwrite
  <1>1. IInv => MissingOnlyInOverwrite
    BY DEF IInv, Missing, MissingOnlyInOverwrite
  <1>2. QED
    BY Invariance, <1>1, PTL
--------------------------------------------------------------------------------
\* A request that has not come to its write has none of its values anywhere.
Unwritten ==
    \A r \in Request, a \in Address :
        pc[r] \in {"new", "remove", "set"} => r \notin working[a] /\ r \notin visible[a]

\* What is visible is still there, or another request has removed it.
Shown ==
    \A v \in Value, a \in Address :
        v \in visible[a] =>
            v \in working[a] \/ \E s \in Request \ {v} : a \in RemovedBy(s)

\* What a step may do to the accounts: what is removed stays removed, a block shows
\* the accounts as they are, and a value goes only when another request removes it.
Allowed ==
    /\ \A q \in Request : RemovedBy(q) \subseteq RemovedBy(q)'
    /\ visible' = visible \/ (visible' = working /\ working' = working)
    /\ \A v \in Value, a \in Address : v \in working[a] =>
           v \in working'[a] \/ \E s \in Request \ {v} : a \in RemovedBy(s)'

\* A request that arrives, or is refused, touches no account.
LEMMA ArriveAllowed ==
    ASSUME IInv, Unwritten, NEW r \in Request,
           Reject(r) \/ ReceiveKeys(r) \/ ReceiveStates(r)
    PROVE  Allowed /\ Unwritten'
  <1>1. /\ pc[r] = "new" /\ UNCHANGED <<working, visible, removed>>
        /\ \E l : pc' = [pc EXCEPT ![r] = l]
        /\ \A q \in Request \ {r} : slice'[q] = slice[q]
    BY DEF Reject, ReceiveKeys, ReceiveStates, Receive, Respond, Goto, IInv, TypeOK
  <1>2. RemovedBy(r) = {} /\ RemovedBy(r)' = {}
    BY <1>1, NothingRemoved DEF IInv, Local, Progress, RemovedBy, First
  <1>3. \A q \in Request : RemovedBy(q) \subseteq RemovedBy(q)'
    BY <1>1, <1>2, SameAddresses
  <1>4. \A q \in Request : pc'[q] = pc[q] \/ pc[q] = "new"
    BY <1>1 DEF IInv, TypeOK
  <1>5. QED
    BY <1>1, <1>3, <1>4 DEF Allowed, Unwritten

\* A turn of the loop empties one account, which is among the removed ones from
\* then on; the request itself had nothing in it.
LEMMA RemoveAllowed ==
    ASSUME IInv, Unwritten, NEW r \in Request, Remove(r) \/ RemoveFails(r)
    PROVE  Allowed /\ Unwritten'
  <1> DEFINE b == slice[r][removed[r] + 1]
  <1>1. /\ TypeOK /\ pc[r] = "remove" /\ removed[r] < Len(slice[r])
        /\ UNCHANGED <<visible, slice>>
    BY DEF Remove, RemoveFails, IInv, TypeOK
  <1>2. \E l : pc' = [pc EXCEPT ![r] = l]
    BY DEF Remove, RemoveFails, Respond, Goto
  <1>3. \A q \in Request : pc'[q] = pc[q] \/ pc[q] = "remove"
    BY <1>1, <1>2 DEF TypeOK
  <1>4. CASE UNCHANGED <<working, removed>>
    <2>1. \A q \in Request : RemovedBy(q)' = RemovedBy(q)
      BY <1>1, <1>4, SameAddresses
    <2>2. QED
      BY <1>1, <1>3, <1>4, <2>1 DEF Allowed, Unwritten
  <1>5. CASE /\ working' = [working EXCEPT ![b] = {}]
             /\ removed' = [removed EXCEPT ![r] = @ + 1]
    <2>1. RemovedBy(r)' = RemovedBy(r) \cup {b} /\ b \in Address
      BY <1>1, <1>5, OneRemoved DEF TypeOK
    <2>2. \A q \in Request \ {r} : RemovedBy(q)' = RemovedBy(q)
      BY <1>1, <1>5, SameAddresses DEF TypeOK
    <2>3. /\ working'[b] = {}
          /\ \A a \in Address : a # b => working'[a] = working[a]
      BY <1>1, <1>5, <2>1 DEF TypeOK, Content
    <2>4. \A a \in Address : r \notin working[a]
      BY <1>1 DEF Unwritten
    <2>5. ASSUME NEW v \in Value, NEW a \in Address, v \in working[a], v \notin working'[a]
          PROVE  \E s \in Request \ {v} : a \in RemovedBy(s)'
      <3>1. a = b /\ v # r
        BY <2>3, <2>4, <2>5
      <3>2. QED
        BY <2>1, <3>1
    <2>6. \A a \in Address : working'[a] \subseteq working[a]
      BY <2>3
    <2>7. QED
      BY <1>1, <1>3, <2>1, <2>2, <2>5, <2>6 DEF Allowed, Unwritten
  <1>6. QED
    BY <1>4, <1>5 DEF Remove, RemoveFails

\* A write adds the request's own values and takes nothing away.
LEMMA WriteAllowed ==
    ASSUME IInv, Unwritten, NEW r \in Request, SetState(r) \/ SetStateFails(r)
    PROVE  Allowed /\ Unwritten'
  <1>1. /\ TypeOK /\ pc[r] = "set"
        /\ UNCHANGED <<visible, slice, removed>>
    BY DEF SetState, SetStateFails, IInv
  <1>2. \A a \in Address : /\ working[a] \subseteq working'[a]
                            /\ working'[a] \subseteq working[a] \cup {r}
    <2>1. Len(slice[r]) \in Nat
      BY <1>1 DEF TypeOK
    <2>2. QED
      BY <1>1, <2>1, WrittenAdds DEF SetState, SetStateFails, Named
  <1>3. \A q \in Request : RemovedBy(q)' = RemovedBy(q)
    BY <1>1, SameAddresses
  <1>4. pc'[r] \in {"generate", "done"} /\ \A q \in Request \ {r} : pc'[q] = pc[q]
    BY <1>1 DEF SetState, SetStateFails, Respond, Goto, TypeOK
  <1>5. QED
    BY <1>1, <1>2, <1>3, <1>4 DEF Allowed, Unwritten

\* A block shows the accounts as they are.
LEMMA BlockAllowed ==
    ASSUME IInv, Unwritten,
           \/ \E r \in Request : GenerateBlock(r) \/ FailToGenerate(r)
           \/ OtherBlock
           \/ UNCHANGED vars
    PROVE  Allowed /\ Unwritten'
  <1>1. /\ visible' \in {visible, working} /\ UNCHANGED <<working, slice, removed>>
    BY DEF GenerateBlock, FailToGenerate, OtherBlock, vars
  <1>2. \A q \in Request : pc'[q] \in {"new", "remove", "set"} => pc'[q] = pc[q]
    BY DEF GenerateBlock, FailToGenerate, OtherBlock, vars, Respond, Goto, IInv, TypeOK
  <1>3. \A q \in Request : RemovedBy(q)' = RemovedBy(q)
    BY <1>1, SameAddresses
  <1>4. QED
    BY <1>1, <1>2, <1>3 DEF Allowed, Unwritten

\* What a block has shown is shown until another request has removed the account,
\* for every set of requests and addresses, in any order of writes and blocks.
THEOREM ShownStays == Spec => ShownUntilRemoved
  <1>1. Init => Unwritten /\ Shown
    BY GenesisAssumption DEF Init, Unwritten, Shown
  <1>2. IInv /\ Unwritten /\ [Next]_vars => Allowed /\ Unwritten'
    BY ArriveAllowed, RemoveAllowed, WriteAllowed, BlockAllowed DEF Next
  <1>3. Shown /\ Allowed => Shown'
    <2> SUFFICES ASSUME Shown, Allowed, NEW v \in Value, NEW a \in Address, v \in visible'[a]
                 PROVE  v \in working'[a] \/ \E s \in Request \ {v} : a \in RemovedBy(s)'
      BY DEF Shown, Value
    <2>1. CASE visible' = visible
      <3>1. v \in working[a] \/ \E s \in Request \ {v} : a \in RemovedBy(s)
        BY <2>1 DEF Shown
      <3>2. QED
        BY <3>1 DEF Allowed
    <2>2. CASE visible' = working /\ working' = working
      BY <2>2
    <2>3. QED
      BY <2>1, <2>2 DEF Allowed
  <1>4. Shown /\ Allowed =>
            [\A v \in Value, a \in Address :
                v \in visible[a] /\ v \notin visible'[a] =>
                    \E s \in Request \ {v} : a \in RemovedBy(s)]_vars
    BY DEF Shown, Allowed
  <1>5. QED
    BY Invariance, <1>1, <1>2, <1>3, <1>4, PTL DEF Spec, ShownUntilRemoved

--------------------------------------------------------------------------------
\* The accounts as the clients that write them see it.

StageOf(label) ==
    CASE label = "new" -> "idle"
      [] label \in {"remove", "set"} -> "open"
      [] label = "generate" -> "written"
      [] OTHER -> "over"

\* The stage of a request is that of its label.
LEMMA StageIs ==
    /\ Stage = [r \in Request |-> StageOf(pc[r])]
    /\ Stage' = [r \in Request |-> StageOf(pc'[r])]
  BY DEF Stage, StageOf

\* The stages the labels have.
LEMMA Stages ==
    /\ StageOf("new") = "idle" /\ StageOf("remove") = "open" /\ StageOf("set") = "open"
    /\ StageOf("generate") = "written" /\ StageOf("done") = "over"
  BY DEF StageOf

\* A request that goes to a label goes to the stage of the label.
LEMMA GotoStage ==
    ASSUME TypeOK, NEW r \in Request, NEW l, Goto(r, l)
    PROVE  Stage' = [Stage EXCEPT ![r] = StageOf(l)]
  <1>1. \A q \in Request : pc'[q] = IF q = r THEN l ELSE pc[q]
    BY DEF Goto, TypeOK
  <1>2. QED
    BY <1>1, StageIs

\* A label of the same stage leaves the stages as they are.
LEMMA SameStage ==
    ASSUME TypeOK, NEW r \in Request, NEW l, Goto(r, l), StageOf(l) = StageOf(pc[r])
    PROVE  Stage' = Stage
  <1>1. \A q \in Request : pc'[q] = IF q = r THEN l ELSE pc[q]
    BY DEF Goto, TypeOK
  <1>2. QED
    BY <1>1, StageIs

\* A request that is over has an answer.
LEMMA RespondEnds ==
    ASSUME TypeOK, NEW r \in Request, NEW a, Respond(r, a)
    PROVE  Store!End(r, a)
  <1>1. Stage' = [Stage EXCEPT ![r] = "over"]
    BY GotoStage, Stages DEF Respond
  <1>2. QED
    BY <1>1 DEF Respond, Store!End

\* The accounts a request names are those of its list.
LEMMA SameNames ==
    ASSUME slice' = slice
    PROVE  [r \in Request |-> Named(r)]' = [r \in Request |-> Named(r)]
  BY DEF Named, First

\* A request that arrives names its accounts, or is refused.
LEMMA ArriveMapped ==
    ASSUME TypeOK, NEW r \in Request, Reject(r) \/ ReceiveKeys(r) \/ ReceiveStates(r)
    PROVE  Store!Next
  <1>1. pc[r] = "new" /\ Stage[r] = "idle"
    BY StageIs, Stages DEF Reject, ReceiveKeys, ReceiveStates, Receive
  <1>2. CASE Reject(r)
    <2>1. Store!End(r, "invalid") /\ UNCHANGED <<working, visible, slice, noGenerate>>
      BY <1>2, RespondEnds DEF Reject
    <2>2. Store!Refuse(r)
      BY <1>1, <2>1, SameNames DEF Store!Refuse
    <2>3. QED
      BY <2>2 DEF Store!Next
  <1>3. ASSUME NEW o, NEW s \in Seq(Address), NEW n \in BOOLEAN, Receive(r, o, s, n)
        PROVE  Store!Next
    <2> DEFINE accounts == {s[i] : i \in 1 .. Len(s)}
    <2>1. Stage' = [Stage EXCEPT ![r] = "open"]
      BY <1>3, GotoStage, Stages DEF Receive
    <2>2. [q \in Request |-> Named(q)]' = [[q \in Request |-> Named(q)] EXCEPT ![r] = accounts]
      <3>1. \A q \in Request : slice'[q] = IF q = r THEN s ELSE slice[q]
        BY <1>3 DEF Receive, TypeOK
      <3>2. \A q \in Request : Named(q)' = IF q = r THEN accounts ELSE Named(q)
        BY <3>1 DEF Named, First
      <3>3. QED
        BY <3>2
    <2>3. accounts \in SUBSET Address
      BY <1>3
    <2>4. Store!Open(r, accounts, n)
      BY <1>1, <1>3, <2>1, <2>2 DEF Receive, Store!Open
    <2>5. QED
      BY <2>3, <2>4 DEF Store!Next
  <1>4. CASE ReceiveKeys(r)
    <2>1. \A a \in Address : <<a>> \in Seq(Address)
      OBVIOUS
    <2>2. QED
      BY <1>3, <1>4, <2>1 DEF ReceiveKeys
  <1>5. CASE ReceiveStates(r)
    BY <1>3, <1>5, SliceAssumption DEF ReceiveStates
  <1>6. QED
    BY <1>2, <1>4, <1>5

\* A turn of the loop empties an account the request names.
LEMMA RemoveMapped ==
    ASSUME TypeOK, NEW r \in Request, Remove(r) \/ RemoveFails(r)
    PROVE  Store!Next
  <1> DEFINE b == slice[r][removed[r] + 1]
  <1>1. pc[r] = "remove" /\ Stage[r] = "open" /\ UNCHANGED <<visible, slice, noGenerate>>
    BY StageIs, Stages DEF Remove, RemoveFails
  <1>2. b \in Named(r)
    <2>1. removed[r] \in Nat /\ removed[r] < Len(slice[r]) /\ Len(slice[r]) \in Nat
      BY <1>1 DEF TypeOK
    <2>2. removed[r] + 1 \in 1 .. Len(slice[r])
      BY <2>1
    <2>3. QED
      BY <2>2 DEF Named, First
  <1>3. [q \in Request |-> Named(q)][r] = Named(r)
    OBVIOUS
  <1>4. CASE Remove(r)
    <2>1. StageOf(IF LastOne(r) THEN "set" ELSE "remove") = StageOf(pc[r])
      BY <1>1, Stages
    <2>2. Stage' = Stage
      BY <1>4, <2>1, SameStage DEF Remove
    <2>3. Store!Clear(r, b)
      BY <1>1, <1>4, <2>2, SameNames DEF Remove, Store!Clear
    <2>4. QED
      BY <1>2, <1>3, <2>3 DEF Store!Next
  <1>5. CASE RemoveFails(r)
    <2>1. Store!End(r, "failed")
      BY <1>5, RespondEnds DEF RemoveFails
    <2>2. Store!Clear(r, b) \/ Store!GiveUp(r)
      BY <1>1, <1>5, <2>1, SameNames DEF RemoveFails, Store!Clear, Store!GiveUp
    <2>3. QED
      BY <1>2, <1>3, <2>2 DEF Store!Next
  <1>6. QED
    BY <1>4, <1>5

\* The write reaches all the accounts the request names, unless it fails.
LEMMA WriteMapped ==
    ASSUME TypeOK, NEW r \in Request, SetState(r) \/ SetStateFails(r)
    PROVE  Store!Next
  <1>1. pc[r] = "set" /\ Stage[r] = "open" /\ UNCHANGED <<visible, slice, noGenerate>>
    BY StageIs, Stages DEF SetState, SetStateFails
  <1>2. [q \in Request |-> Named(q)][r] = Named(r)
    OBVIOUS
  <1>3. CASE SetState(r)
    <2>1. \/ noGenerate[r] /\ Store!End(r, "ok")
          \/ /\ ~noGenerate[r] /\ Stage' = [Stage EXCEPT ![r] = "written"]
             /\ UNCHANGED answer
      BY <1>3, RespondEnds, GotoStage, Stages DEF SetState, WithBlock
    <2>2. working' = [a \in Address |-> working[a] \cup (IF a \in Named(r) THEN {r} ELSE {})]
      BY <1>3 DEF SetState, Written, Named
    <2>3. Store!Write(r, Named(r))
      BY <1>1, <1>2, <2>1, <2>2, SameNames DEF Store!Write
    <2>4. QED
      BY <1>2, <2>3 DEF Store!Next
  <1>4. CASE SetStateFails(r)
    <2>1. Store!End(r, "failed")
      BY <1>4, RespondEnds DEF SetStateFails
    <2>2. PICK n \in 0 .. Len(slice[r]) : working' = Written(r, n)
      BY <1>4 DEF SetStateFails
    <2>3. First(r, n) \subseteq Named(r)
      <3>1. Len(slice[r]) \in Nat
        BY DEF TypeOK
      <3>2. QED
        BY <2>2, <3>1 DEF First, Named
    <2>4. Store!Write(r, First(r, n))
      BY <1>1, <2>1, <2>2, SameNames DEF Written, Store!Write
    <2>5. QED
      BY <1>2, <2>3, <2>4 DEF Store!Next
  <1>5. QED
    BY <1>3, <1>4

\* A request is over with its block, or has failed.
LEMMA FinishMapped ==
    ASSUME TypeOK, NEW r \in Request, GenerateBlock(r) \/ FailToGenerate(r)
    PROVE  Store!Next
  <1>1. pc[r] = "generate" /\ Stage[r] = "written" /\ UNCHANGED <<working, slice, noGenerate>>
    BY StageIs, Stages DEF GenerateBlock, FailToGenerate
  <1>2. \/ visible' = working /\ Store!End(r, "ok")
        \/ visible' \in {visible, working} /\ Store!End(r, "failed")
    BY RespondEnds DEF GenerateBlock, FailToGenerate
  <1>3. Store!Finish(r)
    BY <1>1, <1>2, SameNames DEF Store!Finish
  <1>4. QED
    BY <1>3 DEF Store!Next

\* The accounts keep what they promise the clients: they implement AccountStore, for
\* every set of requests and addresses and all the lists of addresses.
THEOREM StoreImplemented == Spec => StoreKept
  <1>1. Init => Store!Init
    <2> SUFFICES ASSUME Init PROVE Store!Init
      OBVIOUS
    <2>1. Stage = [r \in Request |-> "idle"]
      BY StageIs, Stages DEF Init
    <2>2. [r \in Request |-> Named(r)] = [r \in Request |-> {}]
      BY DEF Init, Named, First
    <2>3. QED
      BY <2>1, <2>2 DEF Init, Store!Init
  <1>2. TypeOK /\ [Next]_vars => [Store!Next]_Store!vars
    <2> SUFFICES ASSUME TypeOK, [Next]_vars PROVE [Store!Next]_Store!vars
      OBVIOUS
    <2>1. CASE OtherBlock
      <3>1. Stage' = Stage
        BY <2>1 DEF OtherBlock, Stage
      <3>2. Store!Block
        BY <2>1, <3>1, SameNames DEF OtherBlock, Store!Block
      <3>3. QED
        BY <3>2 DEF Store!Next
    <2>2. CASE UNCHANGED vars
      BY <2>2, SameNames DEF vars, Stage, Store!vars
    <2>3. QED
      BY <2>1, <2>2, ArriveMapped, RemoveMapped, WriteMapped, FinishMapped DEF Next
  <1>3. QED
    BY TypeCorrect, <1>1, <1>2, PTL DEF Spec, StoreKept, Store!Spec

===============================================================================
