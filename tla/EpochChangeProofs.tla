--------------------------- MODULE EpochChangeProofs ---------------------------
(* Theorems about EpochChange, for every set of requests, every set of numbers *)
(* and every modulus.                                                          *)
EXTENDS EpochChange, TLAPS

\* What the loop of ForceChangeOfEpoch knows at each of its points.
LoopInv(r) ==
    /\ pc[r] \in {"read", "force", "reread"} => endpoint[r] = "force" /\ target[r] > 0
    /\ pc[r] = "next" => endpoint[r] = "force" /\ target[r] = 0
    /\ pc[r] = "new" => target[r] = 0
    /\ pc[r] \in {"new", "read", "next", "until"} => forced[r] = 0 /\ late[r] = 0
    /\ pc[r] = "force" => /\ current[r] < target[r]
                          /\ current[r] <= epoch
                          /\ base[r] + forced[r] <= current[r]
                          /\ late[r] = 0
    /\ pc[r] = "reread" => /\ base[r] + forced[r] <= epoch
                           /\ base[r] + forced[r] <= target[r]
                           /\ late[r] = 1 => epoch >= target[r]
    /\ pc[r] # "done" => answer[r] = <<>>
    /\ late[r] <= 1

\* What an answer says remains true, since the epoch never goes back.
AnswerInv(r) ==
    /\ Succeeded(r) \/ Refused(r) => epoch >= target[r]
    /\ endpoint[r] = "force" /\ forced[r] > 0 =>
           forced[r] <= (IF target[r] = 0 THEN 1 ELSE target[r] - base[r])

IInv == TypeOK /\ \A r \in Request : LoopInv(r) /\ AnswerInv(r)

\* A number that fits is the target.
Carried(r) ==
    /\ pc[r] = "new" => sent[r] = 0 /\ target[r] = 0
    /\ Fits(r) /\ sent[r] >= 0 => target[r] = sent[r]

--------------------------------------------------------------------------------
\* uint32 and int32 yield a number of the range of the type.
LEMMA Conversions ==
    ASSUME NEW n \in Int
    PROVE  /\ ToUint32(n) \in 0 .. (Modulus - 1)
           /\ ToInt32(n) \in (-Modulus) .. (Modulus - 1)
  BY ModulusAssumption DEF ToUint32, ToInt32

\* Answers that begin or end differently are different.
LEMMA AnswersDiffer ==
    /\ <<"success">> # <<>> /\ <<"lower", "success">> # <<>>
    /\ <<"invalid">> # <<"success">> /\ <<"failed">> # <<"success">>
    /\ <<"invalid">> # <<"lower", "success">> /\ <<"failed">> # <<"lower", "success">>
    /\ <<"invalid", "invalid">> # <<"success">>
    /\ <<"invalid", "invalid">> # <<"lower", "success">>
    /\ <<"failed", "success">> # <<"success">>
    /\ <<"failed", "success">> # <<"lower", "success">>
    /\ <<"lower", "success">> # <<"success">>
  OBVIOUS

\* A step of one request, or of the environment, keeps what is known of the
\* others: they only depend on the epoch, which does not go back.
LEMMA Frame ==
    ASSUME TypeOK, NEW s \in Request, LoopInv(s), AnswerInv(s),
           epoch' \in Nat, epoch' >= epoch,
           pc'[s] = pc[s], endpoint'[s] = endpoint[s], target'[s] = target[s],
           current'[s] = current[s], answer'[s] = answer[s], base'[s] = base[s],
           forced'[s] = forced[s], late'[s] = late[s]
    PROVE  LoopInv(s)' /\ AnswerInv(s)'
  BY DEF TypeOK, LoopInv, AnswerInv, Succeeded, Refused

\* The invariant holds before the first request arrives.
LEMMA InitIInv == Init => IInv
  <1> SUFFICES ASSUME Init PROVE IInv
    OBVIOUS
  <1>1. TypeOK
    BY EpochAssumption, ModulusAssumption DEF Init, TypeOK, Label, Answer
  <1>2. ASSUME NEW r \in Request PROVE LoopInv(r) /\ AnswerInv(r)
    <2>1. LoopInv(r)
      BY DEF Init, LoopInv
    <2>2. AnswerInv(r)
      BY AnswersDiffer DEF Init, AnswerInv, Succeeded, Refused
    <2>3. QED
      BY <2>1, <2>2
  <1>3. QED
    BY <1>1, <1>2 DEF IInv

\* A malformed request changes nothing but its own answer.
LEMMA RejectIInv ==
    ASSUME IInv, NEW r \in Request, NEW e \in {"force", "until"}, Reject(r, e)
    PROVE  IInv'
  <1>1. TypeOK'
    BY DEF Reject, IInv, TypeOK, Label, Answer, Goto, Write, LoopInv
  <1>2. LoopInv(r)' /\ AnswerInv(r)'
    BY AnswersDiffer
    DEF Reject, IInv, TypeOK, LoopInv, AnswerInv, Succeeded, Refused, Goto, Write
  <1>3. ASSUME NEW s \in Request \ {r} PROVE LoopInv(s)' /\ AnswerInv(s)'
    BY Frame DEF Reject, IInv, TypeOK, Goto, Write
  <1>4. QED
    BY <1>1, <1>2, <1>3 DEF IInv

\* A request that arrives keeps the invariant.
LEMMA ReceiveIInv ==
    ASSUME IInv, NEW r \in Request, Receive(r)
    PROVE  IInv'
  <1>1. ASSUME NEW q \in Query, ReceiveForce(r, q) PROVE IInv'
    <2> DEFINE n == Parsed(q)
    <2>1. n \in Int
      BY <1>1, NumberAssumption DEF ReceiveForce, Query, Parsed
    <2>2. ToUint32(n) \in 0 .. (Modulus - 1)
      BY <2>1, Conversions
    <2>3. TypeOK'
      BY <1>1, <2>1, <2>2, ModulusAssumption DEF ReceiveForce, IInv, TypeOK, Label, Goto
    <2>4. LoopInv(r)' /\ AnswerInv(r)'
      <3>1. /\ target'[r] = ToUint32(n) /\ endpoint'[r] = "force" /\ answer'[r] = <<>>
            /\ forced'[r] = 0 /\ late'[r] = 0
            /\ pc'[r] = IF ToUint32(n) = 0 THEN "next" ELSE "read"
        BY <1>1 DEF ReceiveForce, IInv, TypeOK, LoopInv, Goto
      <3>2. QED
        BY <3>1, <2>2, ModulusAssumption, AnswersDiffer
        DEF LoopInv, AnswerInv, Succeeded, Refused
    <2>5. ASSUME NEW s \in Request \ {r} PROVE LoopInv(s)' /\ AnswerInv(s)'
      BY <1>1, Frame DEF ReceiveForce, IInv, TypeOK, Goto
    <2>6. QED
      BY <2>3, <2>4, <2>5 DEF IInv
  <1>2. ASSUME NEW n \in Number, ReceiveUntil(r, n) PROVE IInv'
    <2>1. ToInt32(n) \in (-Modulus) .. (Modulus - 1) /\ n \in Int
      BY Conversions, NumberAssumption
    <2>2. TypeOK'
      BY <1>2, <2>1 DEF ReceiveUntil, IInv, TypeOK, Label, Goto
    <2>3. LoopInv(r)' /\ AnswerInv(r)'
      BY <1>2, <2>1, AnswersDiffer
      DEF ReceiveUntil, IInv, TypeOK, LoopInv, AnswerInv, Succeeded, Refused, Goto
    <2>4. ASSUME NEW s \in Request \ {r} PROVE LoopInv(s)' /\ AnswerInv(s)'
      BY <1>2, Frame DEF ReceiveUntil, IInv, TypeOK, Goto
    <2>5. QED
      BY <2>2, <2>3, <2>4 DEF IInv
  <1>3. QED
    BY <1>1, <1>2, RejectIInv DEF Receive

\* The first read of the epoch keeps it: a refusal comes from an epoch at the target.
LEMMA ReadEpochIInv ==
    ASSUME IInv, NEW r \in Request, ReadEpoch(r)
    PROVE  IInv'
  <1>1. TypeOK'
    BY DEF ReadEpoch, IInv, TypeOK, Label, Answer, Goto, Write, AnswerForce
  <1>2. LoopInv(r)' /\ AnswerInv(r)'
    BY AnswersDiffer
    DEF ReadEpoch, AlreadyReached, IInv, TypeOK, LoopInv, AnswerInv, Succeeded, Refused,
        Goto, Write, AnswerForce
  <1>3. ASSUME NEW s \in Request \ {r} PROVE LoopInv(s)' /\ AnswerInv(s)'
    BY Frame DEF ReadEpoch, IInv, TypeOK, Goto, Write, AnswerForce
  <1>4. QED
    BY <1>1, <1>2, <1>3 DEF IInv

\* So does a force: it is counted, and late only if another request was faster.
LEMMA ForceSucceedsIInv ==
    ASSUME IInv, NEW r \in Request, ForceSucceeds(r)
    PROVE  IInv'
  <1>1. TypeOK'
    BY DEF ForceSucceeds, IInv, TypeOK, Label, Goto
  <1>2. LoopInv(r)' /\ AnswerInv(r)'
    BY AnswersDiffer
    DEF ForceSucceeds, IInv, TypeOK, LoopInv, AnswerInv, Succeeded, Refused, Goto
  <1>3. ASSUME NEW s \in Request \ {r} PROVE LoopInv(s)' /\ AnswerInv(s)'
    BY Frame DEF ForceSucceeds, IInv, TypeOK, Goto
  <1>4. QED
    BY <1>1, <1>2, <1>3 DEF IInv

\* So does a force that fails, whatever it did to the epoch before.
LEMMA ForceFailsIInv ==
    ASSUME IInv, NEW r \in Request, ForceFails(r)
    PROVE  IInv'
  <1>1. TypeOK'
    BY DEF ForceFails, IInv, TypeOK, Label, Answer, Goto, Write, AnswerForce
  <1>2. LoopInv(r)' /\ AnswerInv(r)'
    BY AnswersDiffer
    DEF ForceFails, IInv, TypeOK, LoopInv, AnswerInv, Succeeded, Refused,
        Goto, Write, AnswerForce
  <1>3. ASSUME NEW s \in Request \ {r} PROVE LoopInv(s)' /\ AnswerInv(s)'
    BY Frame DEF ForceFails, IInv, TypeOK, Goto, Write, AnswerForce
  <1>4. QED
    BY <1>1, <1>2, <1>3 DEF IInv

\* So does the read at the end of the loop: success comes from an epoch at the target.
LEMMA RereadEpochIInv ==
    ASSUME IInv, NEW r \in Request, RereadEpoch(r)
    PROVE  IInv'
  <1>1. TypeOK'
    BY DEF RereadEpoch, Observed, IInv, TypeOK, Label, Answer, Goto, Write, AnswerForce
  <1>2. LoopInv(r)' /\ AnswerInv(r)'
    BY AnswersDiffer
    DEF RereadEpoch, Observed, NotReached, IInv, TypeOK, LoopInv, AnswerInv, Succeeded,
        Refused, Goto, Write, AnswerForce
  <1>3. ASSUME NEW s \in Request \ {r} PROVE LoopInv(s)' /\ AnswerInv(s)'
    BY Frame DEF RereadEpoch, IInv, TypeOK, Goto, Write, AnswerForce
  <1>4. QED
    BY <1>1, <1>2, <1>3 DEF IInv

\* So does the force of a request without a target.
LEMMA ForceNextIInv ==
    ASSUME IInv, NEW r \in Request, ForceNext(r)
    PROVE  IInv'
  <1>1. TypeOK'
    <2>1. epoch' \in Nat
      BY DEF ForceNext, IInv, TypeOK, AnswerForce, Write, Goto
    <2>2. base' \in [Request -> Nat] /\ forced' \in [Request -> Nat]
      BY DEF ForceNext, IInv, TypeOK, AnswerForce, Write, Goto
    <2>3. pc' \in [Request -> Label] /\ answer' \in [Request -> Answer]
      BY DEF ForceNext, IInv, TypeOK, Label, Answer, Goto, Write, AnswerForce
    <2>4. QED
      BY <2>1, <2>2, <2>3 DEF ForceNext, IInv, TypeOK
  <1>2. LoopInv(r)' /\ AnswerInv(r)'
    BY AnswersDiffer
    DEF ForceNext, IInv, TypeOK, LoopInv, AnswerInv, Succeeded, Refused,
        Goto, Write, AnswerForce
  <1>3. ASSUME NEW s \in Request \ {r} PROVE LoopInv(s)' /\ AnswerInv(s)'
    BY Frame DEF ForceNext, IInv, TypeOK, Goto, Write, AnswerForce
  <1>4. QED
    BY <1>1, <1>2, <1>3 DEF IInv

\* So does the generation of blocks up to an epoch.
LEMMA GenerateUntilIInv ==
    ASSUME IInv, NEW r \in Request, GenerateUntil(r)
    PROVE  IInv'
  <1>0. epoch' \in Nat /\ epoch' >= epoch
    BY ModulusAssumption DEF GenerateUntil, IInv, TypeOK, Later, AnswerUntil, Write, Goto
  <1>1. TypeOK'
    BY <1>0 DEF GenerateUntil, IInv, TypeOK, Label, Answer, Goto, Write, AnswerUntil
  <1>2. LoopInv(r)' /\ AnswerInv(r)'
    BY <1>0, AnswersDiffer
    DEF GenerateUntil, IInv, TypeOK, LoopInv, AnswerInv, Succeeded, Refused,
        Goto, Write, AnswerUntil
  <1>3. ASSUME NEW s \in Request \ {r} PROVE LoopInv(s)' /\ AnswerInv(s)'
    BY <1>0, Frame DEF GenerateUntil, IInv, TypeOK, Goto, Write, AnswerUntil
  <1>4. QED
    BY <1>1, <1>2, <1>3 DEF IInv

\* An epoch that others start keeps it: the epoch only grows.
LEMMA OtherEpochStartIInv ==
    ASSUME IInv, OtherEpochStart
    PROVE  IInv'
  <1>1. TypeOK'
    BY EpochAssumption DEF OtherEpochStart, IInv, TypeOK
  <1>2. ASSUME NEW s \in Request PROVE LoopInv(s)' /\ AnswerInv(s)'
    BY Frame DEF OtherEpochStart, IInv, TypeOK
  <1>3. QED
    BY <1>1, <1>2 DEF IInv

\* Steps that change nothing keep the invariant.
LEMMA StutterIInv ==
    ASSUME IInv, UNCHANGED vars
    PROVE  IInv'
  <1>1. TypeOK'
    BY DEF IInv, TypeOK, vars
  <1>2. ASSUME NEW s \in Request PROVE LoopInv(s)' /\ AnswerInv(s)'
    BY Frame DEF IInv, TypeOK, vars
  <1>3. QED
    BY <1>1, <1>2 DEF IInv

--------------------------------------------------------------------------------
\* The inductive invariant: in every reachable state the loop of each request
\* knows what it needs for the answer it will give.
THEOREM Invariance == Spec => []IInv
  <1>1. IInv /\ [Next]_vars => IInv'
    <2> SUFFICES ASSUME IInv, [Next]_vars PROVE IInv'
      OBVIOUS
    <2>1. ASSUME NEW r \in Request, Receive(r) PROVE IInv'
      BY <2>1, ReceiveIInv
    <2>2. ASSUME NEW r \in Request, Serve(r) PROVE IInv'
      BY <2>2, ReadEpochIInv, ForceSucceedsIInv, ForceFailsIInv, RereadEpochIInv,
         ForceNextIInv, GenerateUntilIInv DEF Serve
    <2>3. CASE OtherEpochStart
      BY <2>3, OtherEpochStartIInv
    <2>4. CASE AllAnswered
      BY <2>4, StutterIInv DEF AllAnswered
    <2>5. CASE UNCHANGED vars
      BY <2>5, StutterIInv
    <2>6. QED
      BY <2>1, <2>2, <2>3, <2>4, <2>5 DEF Next
  <1>2. QED
    BY InitIInv, <1>1, PTL DEF Spec

\* Every variable keeps to its type; the targets stay within 32 bits.
THEOREM TypeCorrect == Spec => []TypeOK
  <1>1. IInv => TypeOK
    BY DEF IInv
  <1>2. QED
    BY Invariance, <1>1, PTL

\* uint32 and int32 are the identity on the numbers that fit.
LEMMA ConversionsKeep ==
    ASSUME NEW n \in Nat
    PROVE  /\ n < Modulus => ToUint32(n) = n
           /\ 2 * n < Modulus => ToInt32(n) = n
  <1>1. ASSUME n < Modulus PROVE n % Modulus = n
    BY <1>1, ModulusAssumption
  <1>2. QED
    BY <1>1, ModulusAssumption DEF ToUint32, ToInt32

\* The target of a request is set once, from the number it carries.
LEMMA CarriedStep ==
    ASSUME IInv, NEW s \in Request, Carried(s), [Next]_vars
    PROVE  Carried(s)'
  <1> USE DEF IInv, TypeOK
  <1>1. CASE pc'[s] = pc[s] /\ UNCHANGED <<endpoint[s], sent[s], target[s]>>
    BY <1>1 DEF Carried, Fits
  <1>2. ASSUME NEW r \in Request, NEW e \in {"force", "until"}, Reject(r, e)
        PROVE  Carried(s)'
    <2>1. CASE r = s
      BY <1>2, <2>1, ModulusAssumption DEF Reject, Goto, Write, Carried, Fits
    <2>2. CASE r # s
      BY <1>1, <1>2, <2>2 DEF Reject, Goto, Write
    <2>3. QED
      BY <2>1, <2>2
  <1>3. ASSUME NEW r \in Request, NEW q \in Query, ReceiveForce(r, q)
        PROVE  Carried(s)'
    <2>1. CASE r = s
      <3> DEFINE n == Parsed(q)
      <3>1. n \in Int /\ sent'[s] = n /\ target'[s] = ToUint32(n) /\ endpoint'[s] = "force"
        BY <1>3, <2>1, NumberAssumption DEF ReceiveForce, Query, Parsed
      <3>2. pc'[s] # "new"
        BY <1>3, <2>1 DEF ReceiveForce, Goto
      <3>3. n >= 0 /\ n < Modulus => target'[s] = n
        BY <3>1, ConversionsKeep
      <3>4. QED
        BY <3>1, <3>2, <3>3 DEF Carried, Fits
    <2>2. CASE r # s
      BY <1>1, <1>3, <2>2 DEF ReceiveForce, Goto
    <2>3. QED
      BY <2>1, <2>2
  <1>4. ASSUME NEW r \in Request, NEW n \in Number, ReceiveUntil(r, n)
        PROVE  Carried(s)'
    <2>1. CASE r = s
      <3>1. n \in Int /\ sent'[s] = n /\ target'[s] = ToInt32(n) /\ endpoint'[s] = "until"
        BY <1>4, <2>1, NumberAssumption DEF ReceiveUntil
      <3>2. pc'[s] # "new"
        BY <1>4, <2>1 DEF ReceiveUntil, Goto
      <3>3. n >= 0 /\ 2 * n < Modulus => target'[s] = n
        BY <3>1, ConversionsKeep
      <3>4. QED
        BY <3>1, <3>2, <3>3 DEF Carried, Fits
    <2>2. CASE r # s
      BY <1>1, <1>4, <2>2 DEF ReceiveUntil, Goto
    <2>3. QED
      BY <2>1, <2>2
  <1>5. ASSUME NEW r \in Request, Serve(r) PROVE Carried(s)'
    <2>1. UNCHANGED <<endpoint, sent, target>>
      BY <1>5 DEF Serve, ReadEpoch, ForceSucceeds, ForceFails, RereadEpoch, ForceNext,
                  GenerateUntil
    <2>2. pc'[s] = "new" => pc[s] = "new"
      BY <1>5 DEF Serve, ReadEpoch, ForceSucceeds, ForceFails, RereadEpoch, ForceNext,
                  GenerateUntil, AnswerForce, AnswerUntil, Write, Goto
    <2>3. QED
      BY <2>1, <2>2 DEF Carried, Fits
  <1>6. CASE OtherEpochStart \/ AllAnswered \/ UNCHANGED vars
    BY <1>1, <1>6 DEF OtherEpochStart, AllAnswered, vars
  <1>7. QED
    BY <1>2, <1>3, <1>4, <1>5, <1>6 DEF Next, Receive

\* A success or a refusal is only given when the chain has reached the target,
\* which is the number the client sent as long as it fits.
THEOREM ReachedWhenAnswered == Spec => []EpochReached
  <1> DEFINE AllCarried == \A r \in Request : Carried(r)
  <1>1. Init => AllCarried
    BY DEF Init, Carried
  <1>2. IInv /\ AllCarried /\ [Next]_vars => AllCarried'
    BY CarriedStep
  <1>3. IInv /\ AllCarried => EpochReached
    <2> SUFFICES ASSUME IInv, AllCarried, NEW r \in Request, Succeeded(r) \/ Refused(r)
                 PROVE  epoch >= target[r] /\ (Fits(r) => epoch >= sent[r])
      BY DEF EpochReached
    <2>1. epoch >= target[r]
      BY DEF IInv, AnswerInv
    <2>2. Fits(r) => epoch >= sent[r]
      BY <2>1 DEF IInv, TypeOK, Carried
    <2>3. QED
      BY <2>1, <2>2
  <1>4. QED
    BY Invariance, <1>1, <1>2, <1>3, PTL DEF Spec

\* Racing requests push the chain past a target by one epoch each at most.
THEOREM OvershootBounded == Spec => []AtMostOneLateForce
  <1>1. IInv => AtMostOneLateForce
    BY DEF IInv, LoopInv, AtMostOneLateForce
  <1>2. QED
    BY Invariance, <1>1, PTL

\* A request forces no more epochs than it lacked when it read the epoch first.
THEOREM DistanceRespected == Spec => []ForcesWithinDistance
  <1>1. IInv => ForcesWithinDistance
    BY DEF IInv, AnswerInv, ForcesWithinDistance
  <1>2. QED
    BY Invariance, <1>1, PTL

--------------------------------------------------------------------------------
\* How a request stands, before and after a step.
LEMMA VerdictIs ==
    ASSUME NEW r \in Request
    PROVE  /\ pc[r] = "new" => Verdict(r) = "idle"
           /\ pc[r] \notin {"new", "done"} => Verdict(r) = "pending"
           /\ pc[r] = "done" /\ Succeeded(r) => Verdict(r) = "reached"
           /\ pc[r] = "done" /\ Refused(r) => Verdict(r) = "refused"
           /\ pc[r] = "done" /\ ~Succeeded(r) /\ ~Refused(r) => Verdict(r) = "failed"
  BY AnswersDiffer DEF Verdict, Succeeded, Refused

\* The same of the state after a step.
LEMMA VerdictIsNext ==
    ASSUME NEW r \in Request
    PROVE  /\ pc'[r] = "new" => Verdict(r)' = "idle"
           /\ pc'[r] \notin {"new", "done"} => Verdict(r)' = "pending"
           /\ pc'[r] = "done" /\ answer'[r] = <<"success">> => Verdict(r)' = "reached"
           /\ pc'[r] = "done" /\ answer'[r] = <<"lower", "success">>
              => Verdict(r)' = "refused"
           /\ /\ pc'[r] = "done"
              /\ answer'[r] \notin {<<"success">>, <<"lower", "success">>}
              => Verdict(r)' = "failed"
  BY AnswersDiffer DEF Verdict, Succeeded, Refused

\* A step that leaves a request where it is leaves its verdict.
LEMMA VerdictSame ==
    ASSUME NEW r \in Request, pc'[r] = pc[r], answer'[r] = answer[r]
    PROVE  Verdict(r)' = Verdict(r)
  BY DEF Verdict, Succeeded, Refused

\* The step that answers a request is the one that decides it.
LEMMA Decides ==
    ASSUME NEW r \in Request, NEW v \in {"reached", "refused", "failed"},
           pc[r] # "done", pc[r] = "new" => v = "failed", Verdict(r)' = v,
           epoch' >= epoch, v \in {"reached", "refused"} => epoch' >= target[r],
           UNCHANGED target,
           \A s \in Request \ {r} : pc'[s] = pc[s] /\ answer'[s] = answer[s]
    PROVE  Service!Next
  <1> DEFINE verdict == [s \in Request |-> Verdict(s)]
  <1>1. verdict[r] = "pending" \/ (verdict[r] = "idle" /\ v = "failed")
    BY VerdictIs
  <1>2. verdict' = [verdict EXCEPT ![r] = v]
    <2>1. \A s \in Request \ {r} : Verdict(s)' = Verdict(s)
      BY VerdictSame
    <2>2. QED
      BY <2>1
  <1>3. Service!Decide(r, v)
    BY <1>1, <1>2 DEF Service!Decide
  <1>4. QED
    BY <1>3 DEF Service!Next

\* A step after which every request stands as before advances the epoch, or is none.
LEMMA Advances ==
    ASSUME \A s \in Request : Verdict(s)' = Verdict(s), UNCHANGED target,
           epoch' > epoch \/ epoch' = epoch
    PROVE  [Service!Next]_Service!vars
  <1>1. [s \in Request |-> Verdict(s)]' = [s \in Request |-> Verdict(s)]
    OBVIOUS
  <1>2. CASE epoch' > epoch
    BY <1>1, <1>2 DEF Service!Next, Service!Advance
  <1>3. CASE epoch' = epoch
    BY <1>1, <1>3 DEF Service!vars
  <1>4. QED
    BY <1>2, <1>3

\* A request that is received asks for its goal, or fails at once.
LEMMA ReceiveServes ==
    ASSUME IInv, IInv', NEW r \in Request, Receive(r)
    PROVE  Service!Next
  <1>1. ASSUME NEW e \in {"force", "until"}, Reject(r, e)
        PROVE  Service!Next
    <2>1. /\ pc[r] = "new" /\ pc'[r] = "done"
          /\ answer'[r] \in {<<"invalid">>, <<"invalid", "invalid">>}
          /\ \A s \in Request \ {r} : pc'[s] = pc[s] /\ answer'[s] = answer[s]
          /\ UNCHANGED <<epoch, target>>
      BY <1>1 DEF Reject, Write, Goto, IInv, TypeOK
    <2>2. Verdict(r)' = "failed"
      BY <2>1, VerdictIsNext, AnswersDiffer
    <2>3. epoch' >= epoch
      BY <2>1 DEF IInv, TypeOK
    <2>4. QED
      BY <2>1, <2>2, <2>3, Decides
  <1>2. ASSUME pc[r] = "new", pc'[r] \in {"next", "read", "until"}, UNCHANGED <<epoch, answer>>,
               \A s \in Request \ {r} : pc'[s] = pc[s] /\ target'[s] = target[s]
        PROVE  Service!Next
    <2> DEFINE verdict == [s \in Request |-> Verdict(s)]
    <2>1. verdict[r] = "idle" /\ Verdict(r)' = "pending"
      BY <1>2, VerdictIs, VerdictIsNext
    <2>2. \A s \in Request \ {r} : Verdict(s)' = Verdict(s)
      BY <1>2, VerdictSame
    <2>3. verdict' = [verdict EXCEPT ![r] = "pending"]
      BY <2>1, <2>2
    <2>4. target' \in [Request -> Int]
      BY ModulusAssumption DEF IInv, TypeOK
    <2>5. Service!Ask(r)
      BY <1>2, <2>1, <2>3, <2>4 DEF Service!Ask
    <2>6. QED
      BY <2>5 DEF Service!Next
  <1>3. ASSUME NEW q \in Query, ReceiveForce(r, q) PROVE Service!Next
    BY <1>2, <1>3 DEF ReceiveForce, Goto, IInv, TypeOK
  <1>4. ASSUME NEW n \in Number, ReceiveUntil(r, n) PROVE Service!Next
    BY <1>2, <1>4 DEF ReceiveUntil, Goto, IInv, TypeOK
  <1>5. QED
    BY <1>1, <1>3, <1>4 DEF Receive

\* A step of a request decides it, or advances the chain.
LEMMA ServeServes ==
    ASSUME IInv, NEW r \in Request, Serve(r)
    PROVE  [Service!Next]_Service!vars
  <1>0. /\ epoch \in Nat /\ target[r] \in Int
        /\ pc[r] \in {"read", "force", "reread", "next", "until"}
    <2>1. epoch \in Nat /\ target[r] \in Int
      BY ModulusAssumption DEF IInv, TypeOK
    <2>2. pc[r] \in {"read", "force", "reread", "next", "until"}
      BY DEF Serve, ReadEpoch, ForceSucceeds, ForceFails, RereadEpoch, ForceNext,
             GenerateUntil
    <2>3. QED
      BY <2>1, <2>2
  <1>1. /\ UNCHANGED target
        /\ \A s \in Request \ {r} : pc'[s] = pc[s] /\ answer'[s] = answer[s]
    BY DEF IInv, TypeOK, Serve, ReadEpoch, ForceSucceeds, ForceFails, RereadEpoch, ForceNext,
           GenerateUntil, AnswerForce, AnswerUntil, Write, Goto
  <1>2. epoch' \in Nat /\ epoch' >= epoch
    <2>1. \/ epoch' = epoch \/ epoch' = epoch + 1
          \/ epoch' \in epoch .. Later(epoch + 1, target[r])
      BY DEF Serve, ReadEpoch, ForceSucceeds, ForceFails, RereadEpoch, ForceNext,
             GenerateUntil
    <2>2. QED
      BY <1>0, <2>1 DEF Later
  <1>3. \/ pc'[r] \notin {"new", "done"}
        \/ /\ pc'[r] = "done"
           /\ \/ answer'[r] = <<"success">> /\ epoch' >= target[r]
              \/ answer'[r] = <<"lower", "success">> /\ epoch' >= target[r]
              \/ answer'[r] \in {<<"failed", "success">>, <<"failed">>}
    <2> USE DEF IInv, TypeOK, AnswerForce, AnswerUntil, Write, Goto
    <2>1. CASE ReadEpoch(r)
      BY <1>0, <2>1 DEF ReadEpoch, AlreadyReached
    <2>2. CASE ForceSucceeds(r)
      BY <1>0, <2>2 DEF ForceSucceeds
    <2>3. CASE ForceFails(r)
      BY <1>0, <2>3 DEF ForceFails
    <2>4. CASE RereadEpoch(r)
      BY <1>0, <2>4 DEF RereadEpoch, NotReached, Observed
    <2>5. CASE ForceNext(r)
      <3>1. target[r] = 0
        BY <2>5 DEF ForceNext, LoopInv
      <3>2. pc'[r] = "done" /\ answer'[r] \in {<<"success">>, <<"failed", "success">>}
        BY <2>5 DEF ForceNext
      <3>3. QED
        BY <1>2, <3>1, <3>2
    <2>6. CASE GenerateUntil(r)
      BY <1>0, <2>6 DEF GenerateUntil
    <2>7. QED
      BY <2>1, <2>2, <2>3, <2>4, <2>5, <2>6 DEF Serve
  <1>4. CASE pc'[r] \notin {"new", "done"}
    <2>1. Verdict(r)' = Verdict(r)
      BY <1>0, <1>4, VerdictIs, VerdictIsNext
    <2>2. \A s \in Request : Verdict(s)' = Verdict(s)
      BY <1>1, <2>1, VerdictSame
    <2>3. QED
      BY <1>0, <1>1, <1>2, <2>2, Advances
  <1>5. CASE pc'[r] = "done" /\ answer'[r] = <<"success">> /\ epoch' >= target[r]
    BY <1>0, <1>1, <1>2, <1>5, VerdictIsNext, Decides
  <1>6. CASE pc'[r] = "done" /\ answer'[r] = <<"lower", "success">> /\ epoch' >= target[r]
    BY <1>0, <1>1, <1>2, <1>6, VerdictIsNext, Decides
  <1>7. CASE pc'[r] = "done" /\ answer'[r] \in {<<"failed", "success">>, <<"failed">>}
    <2>1. Verdict(r)' = "failed"
      BY <1>7, VerdictIsNext, AnswersDiffer
    <2>2. QED
      BY <1>0, <1>1, <1>2, <2>1, Decides
  <1>8. QED
    BY <1>3, <1>4, <1>5, <1>6, <1>7

\* The two endpoints, step by step, keep the promise of EpochService: a goal is
\* declared reached or refused only at an epoch at or behind it, once, and the
\* epoch never goes back.
THEOREM ServiceImplemented == Spec => ServiceKept
  <1>1. Init => Service!Init
    <2> SUFFICES ASSUME Init PROVE Service!Init
      OBVIOUS
    <2>1. \A r \in Request : Verdict(r) = "idle"
      BY VerdictIs DEF Init
    <2>2. QED
      BY <2>1 DEF Init, Service!Init
  <1>2. IInv /\ IInv' /\ [Next]_vars => [Service!Next]_Service!vars
    <2> SUFFICES ASSUME IInv, IInv', [Next]_vars PROVE [Service!Next]_Service!vars
      OBVIOUS
    <2>1. ASSUME NEW r \in Request, Receive(r) PROVE [Service!Next]_Service!vars
      BY <2>1, ReceiveServes
    <2>2. ASSUME NEW r \in Request, Serve(r) PROVE [Service!Next]_Service!vars
      BY <2>2, ServeServes
    <2>3. ASSUME UNCHANGED <<pc, answer, target>>, epoch' = epoch + 1 \/ epoch' = epoch
          PROVE  [Service!Next]_Service!vars
      <3>1. \A s \in Request : Verdict(s)' = Verdict(s)
        BY <2>3, VerdictSame
      <3>2. epoch' > epoch \/ epoch' = epoch
        BY <2>3 DEF IInv, TypeOK
      <3>3. QED
        BY <2>3, <3>1, <3>2, Advances
    <2>4. CASE OtherEpochStart \/ AllAnswered \/ UNCHANGED vars
      BY <2>3, <2>4 DEF OtherEpochStart, AllAnswered, vars
    <2>5. QED
      BY <2>1, <2>2, <2>4 DEF Next
  <1>3. QED
    BY Invariance, <1>1, <1>2, PTL DEF Spec, ServiceKept, Service!Safety

--------------------------------------------------------------------------------
\* What Behind returns: a number that falls as the epoch rises.
LEMMA BehindFalls ==
    ASSUME NEW r \in Request, target[r] \in Int, NEW e \in Int, NEW f \in Int, e <= f
    PROVE  /\ Behind(r, e) \in Nat /\ Behind(r, f) \in Nat
           /\ Behind(r, f) <= Behind(r, e)
           /\ e < f /\ e < target[r] => Behind(r, f) + 2 <= Behind(r, e)
  BY DEF Behind

\* A step of a request moves it on, leaves the others where they are, and never
\* moves the epoch back.
LEMMA Moves ==
    ASSUME IInv, NEW r \in Request, Serve(r)
    PROVE  /\ pc[r] \in {"read", "force", "reread", "next", "until"} /\ pc'[r] # pc[r]
           /\ UNCHANGED target /\ target[r] \in Int
           /\ epoch \in Nat /\ epoch' \in Nat /\ epoch' >= epoch
           /\ \A s \in Request \ {r} : pc'[s] = pc[s] /\ current'[s] = current[s]
                                       /\ answer'[s] = answer[s]
  <1>1. target[r] \in Int /\ epoch \in Nat
    BY ModulusAssumption DEF IInv, TypeOK
  <1>2. epoch' \in Nat /\ epoch' >= epoch
    <2>1. \/ epoch' = epoch \/ epoch' = epoch + 1
          \/ epoch' \in epoch .. Later(epoch + 1, target[r])
      BY DEF Serve, ReadEpoch, ForceSucceeds, ForceFails, RereadEpoch, ForceNext,
             GenerateUntil
    <2>2. QED
      BY <1>1, <2>1 DEF Later
  <1>3. QED
    BY <1>1, <1>2
    DEF IInv, TypeOK, Serve, ReadEpoch, ForceSucceeds, ForceFails, RereadEpoch, ForceNext,
        GenerateUntil, AnswerForce, AnswerUntil, Write, Goto

\* A request that is received moves neither the chain nor the others.
LEMMA ReceiveMoves ==
    ASSUME IInv, NEW r \in Request, Receive(r)
    PROVE  /\ pc[r] = "new" /\ UNCHANGED <<epoch, current>>
           /\ \A s \in Request \ {r} :
                  pc'[s] = pc[s] /\ target'[s] = target[s] /\ answer'[s] = answer[s]
  BY DEF IInv, TypeOK, Receive, Reject, ReceiveForce, ReceiveUntil, Write, Goto

\* A step of a request brings it nearer to its end: a force moves the epoch beyond
\* the one the request has read, and whatever else moved it helps.
LEMMA ServeCounts ==
    ASSUME IInv, NEW r \in Request, Serve(r)
    PROVE  0 <= StepsLeft(r)' /\ StepsLeft(r)' < StepsLeft(r)
  <1>1. /\ target[r] \in Int /\ target'[r] = target[r]
        /\ epoch \in Nat /\ epoch' \in Nat /\ epoch' >= epoch /\ current[r] \in Nat
    BY Moves DEF IInv, TypeOK
  <1>2. /\ Behind(r, epoch) \in Nat /\ Behind(r, epoch') <= Behind(r, epoch)
        /\ Behind(r, epoch') \in Nat /\ Behind(r, current[r]) \in Nat
        /\ \A e : Behind(r, e)' = Behind(r, e')
    BY <1>1, BehindFalls DEF Behind
  <1>3. CASE pc'[r] = "done"
    <2>1. StepsLeft(r)' = 0
      BY <1>3 DEF StepsLeft
    <2>2. StepsLeft(r) > 0
      BY <1>1, <1>2, Moves DEF StepsLeft
    <2>3. QED
      BY <2>1, <2>2
  <1>4. CASE ForceSucceeds(r)
    <2>1. /\ pc[r] = "force" /\ pc'[r] = "reread" /\ epoch' = epoch + 1
          /\ current[r] < target[r] /\ current[r] <= epoch
      BY <1>4 DEF ForceSucceeds, IInv, TypeOK, LoopInv, Goto
    <2>2. Behind(r, epoch') + 2 <= Behind(r, current[r])
      BY <1>1, <2>1, BehindFalls
    <2>3. StepsLeft(r) = Behind(r, current[r]) + 1
      BY <2>1 DEF StepsLeft
    <2>4. StepsLeft(r)' = Behind(r, epoch') + 2
      BY <1>1, <2>1 DEF StepsLeft, Behind
    <2>5. QED
      BY <1>2, <2>2, <2>3, <2>4
  <1>5. CASE (ReadEpoch(r) \/ RereadEpoch(r)) /\ pc'[r] # "done"
    <2>1. /\ pc[r] \in {"read", "reread"} /\ pc'[r] = "force" /\ epoch' = epoch
          /\ current'[r] = epoch
      BY <1>5 DEF ReadEpoch, RereadEpoch, Observed, AnswerForce, Write, IInv, TypeOK, Goto
    <2>2. StepsLeft(r) = Behind(r, epoch) + 2
      BY <2>1 DEF StepsLeft
    <2>3. StepsLeft(r)' = Behind(r, epoch) + 1
      BY <1>1, <2>1 DEF StepsLeft, Behind
    <2>4. QED
      BY <1>2, <2>2, <2>3
  <1>6. CASE ForceFails(r) \/ ForceNext(r) \/ GenerateUntil(r)
    <2>1. pc'[r] = "done"
      BY <1>6 DEF ForceFails, ForceNext, GenerateUntil, AnswerForce, AnswerUntil, Write, Goto,
                  IInv, TypeOK
    <2>2. QED
      BY <1>3, <2>1
  <1>7. QED
    BY <1>3, <1>4, <1>5, <1>6 DEF Serve

\* The variant of the loop of ForceChangeOfEpoch: with the fairness of Serve it is
\* why every request is answered.
THEOREM StepsCounted == Spec => EveryStepCounts
  <1>1. IInv /\ [Next]_vars => [\A r \in Request : StepCounts(r)]_vars
    <2> SUFFICES ASSUME IInv, [Next]_vars, NEW s \in Request PROVE StepCounts(s)
      OBVIOUS
    <2>0. ASSUME UNCHANGED <<pc[s], target[s], current[s]>>, epoch' \in Nat, epoch' >= epoch
          PROVE  StepCounts(s)
      <3>1. epoch \in Nat /\ current[s] \in Nat /\ target[s] \in Int
        BY ModulusAssumption DEF IInv, TypeOK
      <3>2. /\ Behind(s, epoch') <= Behind(s, epoch) /\ Behind(s, epoch) \in Nat
            /\ Behind(s, epoch') \in Nat /\ Behind(s, current[s]) \in Nat
        BY <2>0, <3>1, BehindFalls
      <3>3. CASE pc[s] = "force"
        BY <2>0, <3>2, <3>3 DEF StepCounts, StepsLeft, Behind
      <3>4. CASE pc[s] \in {"done", "next", "until"}
        BY <2>0, <3>4 DEF StepCounts, StepsLeft
      <3>5. CASE pc[s] \in {"read", "reread"}
        <4>1. StepsLeft(s) = Behind(s, epoch) + 2
          BY <3>5 DEF StepsLeft
        <4>2. StepsLeft(s)' = Behind(s, epoch') + 2
          BY <2>0, <3>5 DEF StepsLeft, Behind
        <4>3. QED
          BY <2>0, <3>2, <4>1, <4>2 DEF StepCounts
      <3>6. QED
        BY <3>3, <3>4, <3>5 DEF StepCounts, IInv, TypeOK, Label
    <2>1. ASSUME NEW r \in Request, Receive(r) PROVE StepCounts(s)
      <3>1. epoch' \in Nat /\ epoch' >= epoch
        BY <2>1, ReceiveMoves DEF IInv, TypeOK
      <3>2. QED
        BY <2>0, <2>1, <3>1, ReceiveMoves DEF StepCounts
    <2>2. ASSUME NEW r \in Request, Serve(r) PROVE StepCounts(s)
      <3>1. CASE r = s
        BY <2>2, <3>1, ServeCounts, Moves DEF StepCounts
      <3>2. CASE r # s
        BY <2>0, <2>2, <3>2, Moves
      <3>3. QED
        BY <3>1, <3>2
    <2>3. CASE OtherEpochStart
      BY <2>0, <2>3 DEF OtherEpochStart, IInv, TypeOK
    <2>4. CASE AllAnswered \/ UNCHANGED vars
      BY <2>0, <2>4 DEF AllAnswered, vars, IInv, TypeOK
    <2>5. QED
      BY <2>1, <2>2, <2>3, <2>4 DEF Next
  <1>2. QED
    BY Invariance, <1>1, PTL DEF Spec, EveryStepCounts

--------------------------------------------------------------------------------
\* How far a request that is alone has moved the chain, at each of its points.
AloneInv(r) ==
    /\ pc[r] \in {"new", "read", "next", "until"} => epoch = InitialEpoch
    /\ pc[r] = "force" => epoch < target[r] /\ epoch = current[r]
    /\ pc[r] = "reread" => epoch <= target[r]
    /\ pc[r] \in {"force", "reread"} => target[r] > InitialEpoch
    /\ epoch <= Later(InitialEpoch + 1, target[r])
    /\ Succeeded(r) /\ target[r] > InitialEpoch => epoch = target[r]
    /\ Refused(r) => epoch = InitialEpoch

\* A step of a request keeps what it knows of the chain.
LEMMA AloneServe ==
    ASSUME IInv, NEW r \in Request, AloneInv(r), Serve(r)
    PROVE  AloneInv(r)'
  <1>1. /\ target[r] \in Int /\ target'[r] = target[r] /\ epoch \in Nat
        /\ InitialEpoch \in Nat /\ answer[r] = <<>>
    BY Moves, EpochAssumption DEF IInv, LoopInv
  <1> USE DEF IInv, TypeOK, AloneInv, Later, Succeeded, Refused, AnswerForce, AnswerUntil,
              Write, Goto
  <1>2. CASE ReadEpoch(r)
    <2>1. /\ epoch' = epoch /\ epoch = InitialEpoch /\ current'[r] = epoch
          /\ \/ epoch >= target[r] /\ pc'[r] = "done" /\ answer'[r] = <<"lower", "success">>
             \/ epoch < target[r] /\ pc'[r] = "force" /\ answer'[r] = <<>>
      BY <1>1, <1>2 DEF ReadEpoch, AlreadyReached
    <2>2. QED
      BY <1>1, <2>1, AnswersDiffer
  <1>3. CASE ForceSucceeds(r)
    BY <1>1, <1>3, AnswersDiffer DEF ForceSucceeds
  <1>4. CASE ForceFails(r)
    BY <1>1, <1>4, AnswersDiffer DEF ForceFails
  <1>5. CASE RereadEpoch(r)
    <2>1. /\ epoch' = epoch /\ epoch <= target[r] /\ target[r] > InitialEpoch
          /\ current'[r] = epoch
          /\ \/ epoch >= target[r] /\ pc'[r] = "done" /\ answer'[r] = <<"success">>
             \/ epoch < target[r] /\ pc'[r] = "force" /\ answer'[r] = <<>>
      BY <1>1, <1>5 DEF RereadEpoch, Observed, NotReached
    <2>2. CASE pc'[r] = "done"
      BY <1>1, <2>1, <2>2, AnswersDiffer
    <2>3. CASE pc'[r] = "force"
      BY <1>1, <2>1, <2>3, AnswersDiffer
    <2>4. QED
      BY <2>1, <2>2, <2>3
  <1>6. CASE ForceNext(r)
    <2>1. target[r] = 0
      BY <1>6 DEF ForceNext, LoopInv
    <2>2. /\ epoch = InitialEpoch /\ epoch' \in {epoch, epoch + 1} /\ pc'[r] = "done"
          /\ answer'[r] \in {<<"success">>, <<"failed", "success">>}
      BY <1>6 DEF ForceNext
    <2>3. QED
      BY <1>1, <2>1, <2>2, AnswersDiffer
  <1>7. CASE GenerateUntil(r)
    <2>1. /\ epoch = InitialEpoch /\ epoch' \in epoch .. Later(epoch + 1, target[r])
          /\ pc'[r] = "done"
          /\ \/ answer'[r] = <<"success">> /\ epoch' >= target[r]
             \/ answer'[r] = <<"failed">>
      BY <1>7 DEF GenerateUntil
    <2>2. QED
      BY <1>1, <2>1, AnswersDiffer
  <1>8. QED
    BY <1>2, <1>3, <1>4, <1>5, <1>6, <1>7 DEF Serve

\* So does its arrival.
LEMMA AloneReceive ==
    ASSUME IInv, IInv', NEW r \in Request, AloneInv(r), Receive(r)
    PROVE  AloneInv(r)'
  <1>1. /\ epoch' = epoch /\ epoch = InitialEpoch /\ InitialEpoch \in Nat
        /\ target'[r] \in Int
    BY ReceiveMoves, EpochAssumption, ModulusAssumption DEF AloneInv, IInv, TypeOK
  <1>2. /\ answer'[r] \in {<<>>, <<"invalid">>, <<"invalid", "invalid">>}
        /\ pc'[r] \in {"done", "next", "read", "until"}
    BY DEF Receive, Reject, ReceiveForce, ReceiveUntil, Write, Goto, IInv, TypeOK, LoopInv
  <1>3. answer'[r] # <<"success">> /\ answer'[r] # <<"lower", "success">>
    BY <1>2, AnswersDiffer
  <1>4. QED
    BY <1>1, <1>2, <1>3 DEF AloneInv, Later, Succeeded, Refused

\* What another request does keeps it too, unless it moves the chain.
LEMMA AloneFrame ==
    ASSUME IInv, NEW s \in Request, NEW r \in Request \ {s}, Receive(r) \/ Serve(r),
           Alone(s)', Alone(s) => AloneInv(s)
    PROVE  AloneInv(s)'
  <1>1. pc'[r] \in {"new", "read", "next", "until"}
    BY DEF Alone
  <1>2. ~Serve(r)
    BY <1>1 DEF Serve, ReadEpoch, ForceSucceeds, ForceFails, RereadEpoch, ForceNext,
                GenerateUntil, AnswerForce, AnswerUntil, Write, Goto, IInv, TypeOK
  <1>3. Receive(r)
    BY <1>2
  <1>4. /\ pc[r] = "new" /\ UNCHANGED <<epoch, current>>
        /\ \A q \in Request \ {r} :
               pc'[q] = pc[q] /\ target'[q] = target[q] /\ answer'[q] = answer[q]
    BY <1>3, ReceiveMoves
  <1>5. others' = others
    BY <1>3 DEF Receive, Reject, ReceiveForce, ReceiveUntil
  <1>6. Alone(s)
    BY <1>4, <1>5 DEF Alone
  <1>7. QED
    BY <1>4, <1>6 DEF AloneInv, Succeeded, Refused

\* A request was alone before its step if it is after it.
LEMMA AloneBefore ==
    ASSUME IInv, NEW s \in Request, Receive(s) \/ Serve(s), Alone(s)'
    PROVE  Alone(s)
  <1>1. others' = others
    BY DEF Receive, Reject, ReceiveForce, ReceiveUntil, Serve, ReadEpoch, ForceSucceeds,
           ForceFails, RereadEpoch, ForceNext, GenerateUntil
  <1>2. \A q \in Request \ {s} : pc'[q] = pc[q]
    BY Moves, ReceiveMoves
  <1>3. QED
    BY <1>1, <1>2 DEF Alone

\* As long as nobody else moves the chain the endpoints do exactly what they are
\* asked for, and no more.
THEOREM ExactAlone == Spec => []ExactWhenAlone
  <1> DEFINE AllAlone == \A r \in Request : Alone(r) => AloneInv(r)
  <1>1. Init => AllAlone
    <2>1. ASSUME Init, NEW r \in Request PROVE AloneInv(r)
      <3>1. /\ pc[r] = "new" /\ epoch = InitialEpoch /\ target[r] = 0 /\ answer[r] = <<>>
            /\ InitialEpoch \in Nat
        BY <2>1, EpochAssumption DEF Init
      <3>2. QED
        BY <3>1, AnswersDiffer DEF AloneInv, Later, Succeeded, Refused
    <2>2. QED
      BY <2>1
  <1>2. IInv /\ IInv' /\ AllAlone /\ [Next]_vars => AllAlone'
    <2> SUFFICES ASSUME IInv, IInv', AllAlone, [Next]_vars, NEW s \in Request, Alone(s)'
                 PROVE  AloneInv(s)'
      OBVIOUS
    <2>1. ASSUME NEW r \in Request, Receive(r) \/ Serve(r) PROVE AloneInv(s)'
      <3>1. CASE r = s
        BY <2>1, <3>1, AloneBefore, AloneReceive, AloneServe
      <3>2. CASE r # s
        BY <2>1, <3>2, AloneFrame
      <3>3. QED
        BY <3>1, <3>2
    <2>2. CASE OtherEpochStart
      BY <2>2 DEF OtherEpochStart, Alone, IInv, TypeOK
    <2>3. CASE AllAnswered \/ UNCHANGED vars
      BY <2>3 DEF AllAnswered, vars, Alone, AloneInv, Succeeded, Refused
    <2>4. QED
      BY <2>1, <2>2, <2>3 DEF Next
  <1>3. AllAlone => ExactWhenAlone
    BY DEF ExactWhenAlone, AloneInv
  <1>4. QED
    BY Invariance, <1>1, <1>2, <1>3, PTL DEF Spec
===============================================================================
