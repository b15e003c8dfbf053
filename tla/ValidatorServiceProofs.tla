------------------------- MODULE ValidatorServiceProofs ------------------------
(* Theorems about ValidatorService, for all sets of requests, lists of keys,      *)
(* shards and interfaces.                                                         *)
EXTENDS ValidatorService, SequenceTheorems, TLAPS

\* What the proxy's copy is worth to a reset that was answered with success: the
\* refresh under way when it was answered does not count.
ResetInv(r) ==
    Answered(r, "reset", "success") =>
        /\ nodeCache >= since[r]
        /\ refreshes[r] >= 1 /\ updating => fetched >= since[r]
        /\ refreshes[r] >= 2 => proxyCache >= since[r]

RequestInv(r) ==
    /\ since[r] <= height
    /\ pc[r] = "new" => /\ answer[r] = "none" /\ response[r] = {}
                        /\ decoded[r] = 0 /\ num[r] = 0
    /\ answer[r] = "none" => added[r] = {} /\ refreshes[r] = 0
    /\ \A i \in 1 .. decoded[r] : batch[r][i] \in Key
    /\ pc[r] = "generate" /\ answer[r] = "none" => num[r] >= 1
    /\ KeysAdded(r) /\ RefusedAddsNone(r) /\ ObserversComplete(r) /\ GeneratedAsAsked(r)
    /\ ResetInv(r)

IInv == TypeOK /\ \A r \in Request : RequestInv(r)

--------------------------------------------------------------------------------
\* Clients send integers.
LEMMA NumIsInt ==
    ASSUME TypeOK, NEW r \in Request
    PROVE  num[r] \in Int
  <1>1. num[r] \in Number \/ num[r] = 0
    BY DEF TypeOK
  <1>2. CASE num[r] \in Number
    BY <1>2, HeightAssumption
  <1>3. CASE num[r] = 0
    BY <1>3
  <1>4. QED
    BY <1>1, <1>2, <1>3

\* Other requests, blocks and refreshes of the node keep what is known of a
\* request: the height, the keys and the node's statistics never go back.
LEMMA Frame ==
    ASSUME TypeOK, NEW s \in Request, RequestInv(s),
           height' \in Nat, height' >= height, keys \subseteq keys',
           nodeCache' \in Nat, nodeCache' >= nodeCache, UNCHANGED cacheVars,
           pc'[s] = pc[s], batch'[s] = batch[s], decoded'[s] = decoded[s], num'[s] = num[s],
           response'[s] = response[s], answer'[s] = answer[s], added'[s] = added[s],
           since'[s] = since[s], refreshes'[s] = refreshes[s]
    PROVE  RequestInv(s)'
  <1> USE DEF cacheVars
  <1>1. /\ since[s] \in Nat /\ height \in Nat /\ nodeCache \in Nat /\ num[s] \in Int
    BY NumIsInt, HeightAssumption DEF TypeOK
  <1>2. KeysAdded(s)' /\ RefusedAddsNone(s)' /\ ObserversComplete(s)'
    BY DEF RequestInv, KeysAdded, RefusedAddsNone, ObserversComplete, Answered, Elements
  <1>3. GeneratedAsAsked(s)'
    BY <1>1 DEF RequestInv, GeneratedAsAsked, Answered
  <1>4. ResetInv(s)'
    BY <1>1 DEF RequestInv, ResetInv, Answered
  <1>5. QED
    BY <1>1, <1>2, <1>3, <1>4 DEF RequestInv

\* The invariant holds before the first request arrives.
LEMMA InitIInv == Init => IInv
  <1> SUFFICES ASSUME Init PROVE IInv
    OBVIOUS
  <1>1. TypeOK
    <2>1. /\ height = 0 /\ keys = {} /\ interfaces \in Interface /\ nodeCache = 0
          /\ fetched = 0 /\ proxyCache = 0 /\ updating \in BOOLEAN
      BY DEF Init
    <2>2. /\ pc \in [Request -> {"new", "keys", "reset", "observers", "generate", "wallets"}]
          /\ batch \in [Request -> Batch \cup {<<>>}]
          /\ response \in [Request -> SUBSET Shard]
          /\ answer \in [Request -> {"none", "refused", "success", "failed"}]
          /\ added \in [Request -> SUBSET Key]
      BY DEF Init
    <2>3. /\ decoded \in [Request -> Nat]
          /\ \A r \in Request : decoded[r] <= Len(batch[r])
      BY DEF Init
    <2>4. /\ num \in [Request -> Number \cup {0}]
          /\ since \in [Request -> 0 .. MaxHeight] /\ refreshes \in [Request -> 0 .. 2]
      BY HeightAssumption DEF Init
    <2>5. QED
      BY <2>1, <2>2, <2>3, <2>4, HeightAssumption DEF TypeOK
  <1>2. ASSUME NEW r \in Request PROVE RequestInv(r)
    BY DEF Init, RequestInv, KeysAdded, RefusedAddsNone, ObserversComplete, GeneratedAsAsked,
           ResetInv, Answered
  <1>3. QED
    BY <1>1, <1>2 DEF IInv

\* A request that arrives keeps it, accepted or refused.
LEMMA ReceiveIInv ==
    ASSUME IInv, NEW r \in Request, Receive(r)
    PROVE  IInv'
  <1> USE DEF Receive, ReceiveKeys, ReceiveReset, ReceiveObservers, ReceiveGenerate,
              InitialWallets, Arrive, Goto, KeepHeight, Positive, chainVars, cacheVars, localVars
  <1>0. TypeOK /\ RequestInv(r) /\ pc[r] = "new"
    BY DEF IInv
  <1>1. /\ UNCHANGED <<height, keys, interfaces, nodeCache, fetched, proxyCache, updating,
                       added, refreshes, decoded, response>>
        /\ \E l \in {"keys", "reset", "observers", "generate", "wallets"} :
               pc' = [pc EXCEPT ![r] = l]
        /\ since' = since \/ since' = [since EXCEPT ![r] = height]
        /\ batch' = batch \/ \E b \in Batch : batch' = [batch EXCEPT ![r] = b]
        /\ num' = num \/ \E n \in Number : num' = [num EXCEPT ![r] = n]
        /\ answer' = answer \/ \E a \in {"refused", "success"} : answer' = [answer EXCEPT ![r] = a]
    OBVIOUS
  <1>2. TypeOK'
    <2>1. pc' \in [Request -> {"new", "keys", "reset", "observers", "generate", "wallets"}]
      BY <1>0, <1>1 DEF TypeOK
    <2>2. since' \in [Request -> 0 .. MaxHeight]
      BY <1>0, <1>1, HeightAssumption DEF TypeOK
    <2>3. batch' \in [Request -> Batch \cup {<<>>}]
      BY <1>0, <1>1 DEF TypeOK
    <2>7. num' \in [Request -> Number \cup {0}]
      <3>1. num \in [Request -> Number \cup {0}]
        BY <1>0 DEF TypeOK
      <3>2. CASE num' = num
        BY <3>1, <3>2
      <3>3. ASSUME NEW n \in Number, num' = [num EXCEPT ![r] = n]
            PROVE  num' \in [Request -> Number \cup {0}]
        BY <3>1, <3>3, Zenon
      <3>4. QED
        BY <1>1, <3>2, <3>3
    <2>4. answer' \in [Request -> {"none", "refused", "success", "failed"}]
      BY <1>0, <1>1 DEF TypeOK
    <2>5. \A s \in Request : decoded'[s] <= Len(batch'[s])
      <3>1. ASSUME NEW s \in Request, s # r PROVE decoded'[s] <= Len(batch'[s])
        BY <1>0, <1>1, <3>1 DEF TypeOK
      <3>2. decoded'[r] = 0
        BY <1>0, <1>1 DEF RequestInv
      <3>3. batch'[r] \in Seq(Key \cup Malformed)
        BY <2>3, KeyAssumption, EmptySeq
      <3>4. Len(batch'[r]) \in Nat
        BY <3>3, LenProperties
      <3>5. QED
        BY <3>1, <3>2, <3>4
    <2>6. QED
      BY <1>0, <1>1, <2>1, <2>2, <2>3, <2>4, <2>5, <2>7 DEF TypeOK
  <1>3. RequestInv(r)'
    <2>1. /\ height \in Nat /\ since[r] \in Nat /\ num[r] = 0
          /\ answer[r] = "none" /\ added[r] = {} /\ refreshes[r] = 0
          /\ response[r] = {} /\ decoded[r] = 0 /\ since[r] <= height
      BY <1>0, HeightAssumption DEF RequestInv, TypeOK
    <2>2. /\ since'[r] \in {since[r], height}
          /\ answer'[r] \in {"none", "refused", "success"}
          /\ answer'[r] = "success" => pc'[r] = "wallets"
      BY <1>0, <2>1 DEF TypeOK
    <2>4. pc'[r] = "generate" => /\ answer'[r] = "none" => num'[r] >= 1
                                 /\ answer'[r] = "refused" => num'[r] < 1
      <3>1. ASSUME pc'[r] = "generate" PROVE ReceiveGenerate(r)
        BY <1>0, <3>1 DEF TypeOK
      <3>2. CASE ReceiveGenerate(r)
        <4>1. ASSUME NEW n \in Number, num' = [num EXCEPT ![r] = n],
                     \/ n > 0 /\ UNCHANGED answer
                     \/ ~(n > 0) /\ answer' = [answer EXCEPT ![r] = "refused"]
              PROVE  /\ answer'[r] = "none" => num'[r] >= 1
                     /\ answer'[r] = "refused" => num'[r] < 1
          <5>1. num'[r] = n
            BY <1>0, <4>1, Zenon DEF TypeOK
          <5>2. n \in Int
            BY HeightAssumption
          <5>3. \/ n > 0 /\ answer'[r] = "none"
                \/ ~(n > 0) /\ answer'[r] = "refused"
            BY <1>0, <2>1, <4>1, Zenon DEF TypeOK
          <5>4. QED
            BY <5>1, <5>2, <5>3
        <4>2. ASSUME answer' = [answer EXCEPT ![r] = "refused"], num' = num
              PROVE  /\ answer'[r] = "none" => num'[r] >= 1
                     /\ answer'[r] = "refused" => num'[r] < 1
          <5>1. answer'[r] = "refused"
            BY <1>0, <4>2, Zenon DEF TypeOK
          <5>2. num'[r] = 0
            BY <2>1, <4>2, Zenon
          <5>3. QED
            BY <5>1, <5>2
        <4>3. \/ \E n \in Number :
                     /\ num' = [num EXCEPT ![r] = n]
                     /\ \/ n > 0 /\ UNCHANGED answer
                        \/ ~(n > 0) /\ answer' = [answer EXCEPT ![r] = "refused"]
              \/ answer' = [answer EXCEPT ![r] = "refused"] /\ num' = num
          BY <3>2, Zenon
        <4> HIDE DEF Receive, ReceiveKeys, ReceiveReset, ReceiveObservers, ReceiveGenerate,
                     InitialWallets, Arrive, Goto, KeepHeight
        <4>4. CASE \E n \in Number :
                     /\ num' = [num EXCEPT ![r] = n]
                     /\ \/ n > 0 /\ UNCHANGED answer
                        \/ ~(n > 0) /\ answer' = [answer EXCEPT ![r] = "refused"]
          BY <4>1, <4>4
        <4>5. CASE answer' = [answer EXCEPT ![r] = "refused"] /\ num' = num
          BY <4>2, <4>5
        <4>6. QED
          BY <4>3, <4>4, <4>5
      <3>3. QED
        BY <3>1, <3>2
    <2>5. /\ pc'[r] \in {"keys", "reset", "observers", "generate", "wallets"}
          /\ height' = height /\ added'[r] = {} /\ refreshes'[r] = 0
          /\ response'[r] = {} /\ decoded'[r] = 0
      BY <1>0, <1>1, <2>1 DEF TypeOK
    <2>6. since'[r] <= height' /\ \A i \in 1 .. decoded'[r] : batch'[r][i] \in Key
      BY <2>1, <2>2, <2>5
    <2>7. /\ KeysAdded(r)' /\ RefusedAddsNone(r)' /\ ObserversComplete(r)' /\ ResetInv(r)'
      BY <2>2, <2>5
      DEF KeysAdded, RefusedAddsNone, ObserversComplete, ResetInv, Answered
    <2>8. GeneratedAsAsked(r)'
      BY <2>2, <2>4, <2>5 DEF GeneratedAsAsked, Answered
    <2>3. QED
      <3> HIDE DEF Receive, ReceiveKeys, ReceiveReset, ReceiveObservers, ReceiveGenerate,
                   InitialWallets, Arrive, Goto, KeepHeight
      <3>1. QED
        BY <2>2, <2>4, <2>5, <2>6, <2>7, <2>8 DEF RequestInv
  <1>4. ASSUME NEW s \in Request \ {r} PROVE RequestInv(s)'
    <2>1. height \in Nat /\ nodeCache \in Nat /\ RequestInv(s)
      BY DEF IInv, TypeOK
    <2>2. /\ pc'[s] = pc[s] /\ batch'[s] = batch[s] /\ num'[s] = num[s]
          /\ answer'[s] = answer[s] /\ since'[s] = since[s]
      BY <1>0, <1>1 DEF TypeOK
    <2>3. QED
      BY <1>0, <1>1, <2>1, <2>2, Frame
  <1>5. QED
    BY <1>2, <1>3, <1>4 DEF IInv

\* A list of keys that has been decoded to its end holds keys only, and so does
\* what the simulator takes from its front.
LEMMA DecodedAreKeys ==
    ASSUME IInv, NEW r \in Request, decoded[r] = Len(batch[r])
    PROVE  /\ Len(batch[r]) \in Nat
           /\ \A n \in 0 .. Len(batch[r]) :
                  /\ Elements(SubSeq(batch[r], 1, n)) \subseteq Key
                  /\ n = Len(batch[r])
                     => Elements(SubSeq(batch[r], 1, n)) = Elements(batch[r])
  <1> DEFINE b == batch[r]
  <1>1. b \in Batch \cup {<<>>} /\ \A i \in 1 .. Len(b) : b[i] \in Key
    BY DEF IInv, TypeOK, RequestInv
  <1>2. b \in Seq(Key \cup Malformed)
    BY <1>1, KeyAssumption, EmptySeq
  <1>3. Len(b) \in Nat /\ DOMAIN b = 1 .. Len(b)
    BY <1>2, LenProperties
  <1> HIDE DEF b
  <1>4. ASSUME NEW n \in 0 .. Len(b)
        PROVE  /\ Elements(SubSeq(b, 1, n)) \subseteq Key
               /\ n = Len(b) => Elements(SubSeq(b, 1, n)) = Elements(b)
    <2>1. 1 .. n \subseteq 1 .. Len(b)
      BY <1>3
    <2>2. /\ SubSeq(b, 1, n) \in Seq(Key \cup Malformed)
          /\ Len(SubSeq(b, 1, n)) = n
          /\ \A i \in 1 .. n : SubSeq(b, 1, n)[i] = b[i]
      <3>1. Len(SubSeq(b, 1, n)) = IF 1 <= n THEN n - 1 + 1 ELSE 0
        BY <1>2, <2>1, SubSeqProperties
      <3>2. \A i \in 1 .. n - 1 + 1 : SubSeq(b, 1, n)[i] = b[1 + i - 1]
        BY <1>2, <2>1, SubSeqProperties
      <3>3. QED
        BY <1>2, <1>3, <2>1, <3>1, <3>2, SubSeqProperties
    <2>3. DOMAIN SubSeq(b, 1, n) = 1 .. n
      BY <2>2, LenProperties
    <2>4. QED
      BY <1>1, <1>3, <2>1, <2>2, <2>3 DEF Elements, b
  <1>5. QED
    BY <1>3, <1>4 DEF b

\* What every step of a request may change, and how far.
LEMMA ServeFrame ==
    ASSUME IInv, NEW r \in Request, Serve(r)
    PROVE  /\ UNCHANGED <<interfaces, cacheVars, pc, batch, num, since, refreshes>>
           /\ height' \in 0 .. MaxHeight /\ height' >= height
           /\ keys \subseteq keys' /\ keys' \subseteq Key
           /\ nodeCache' \in 0 .. height' /\ nodeCache' >= nodeCache
           /\ \/ decoded' = decoded
              \/ decoded[r] < Len(batch[r]) /\ decoded' = [decoded EXCEPT ![r] = @ + 1]
           /\ \E R \in SUBSET Shard : response' = [response EXCEPT ![r] = R]
           /\ \E a \in {"none", "refused", "success", "failed"} :
                  answer' = [answer EXCEPT ![r] = a]
           /\ \E K \in SUBSET Key : added' = [added EXCEPT ![r] = K]
  <1> USE DEF At, Respond, chainVars, cacheVars, localVars
  <1>0. /\ TypeOK /\ RequestInv(r)
        /\ height \in 0 .. MaxHeight /\ nodeCache \in 0 .. height /\ MaxHeight \in Nat
        /\ keys \subseteq Key
    BY HeightAssumption DEF IInv, TypeOK
  <1> DEFINE Resp(f) == \E R \in SUBSET Shard : f = [response EXCEPT ![r] = R]
             Ans(f) == \E a \in {"none", "refused", "success", "failed"} :
                           f = [answer EXCEPT ![r] = a]
             Add(f) == \E K \in SUBSET Key : f = [added EXCEPT ![r] = K]
  <1>1. /\ Resp(response) /\ Ans(answer) /\ Add(added)
        /\ Ans([answer EXCEPT ![r] = "refused"])
        /\ Ans([answer EXCEPT ![r] = "success"])
        /\ Ans([answer EXCEPT ![r] = "failed"])
    <2>1. response[r] \in SUBSET Shard /\ response = [response EXCEPT ![r] = response[r]]
      BY <1>0 DEF TypeOK
    <2>2. /\ answer[r] \in {"none", "refused", "success", "failed"}
          /\ answer = [answer EXCEPT ![r] = answer[r]]
      BY <1>0 DEF TypeOK
    <2>3. added[r] \in SUBSET Key /\ added = [added EXCEPT ![r] = added[r]]
      BY <1>0 DEF TypeOK
    <2>4. Ans([answer EXCEPT ![r] = "refused"]) /\ Ans([answer EXCEPT ![r] = "success"])
          /\ Ans([answer EXCEPT ![r] = "failed"])
      OBVIOUS
    <2>5. QED
      BY <2>1, <2>2, <2>3, <2>4, Zenon
  <1> HIDE DEF Resp, Ans, Add
  <1> DEFINE Goal == /\ UNCHANGED <<interfaces, cacheVars, pc, batch, num, since, refreshes>>
                     /\ height' \in 0 .. MaxHeight /\ height' >= height
                     /\ keys \subseteq keys' /\ keys' \subseteq Key
                     /\ nodeCache' \in 0 .. height' /\ nodeCache' >= nodeCache
                     /\ \/ decoded' = decoded
                        \/ /\ decoded[r] < Len(batch[r])
                           /\ decoded' = [decoded EXCEPT ![r] = @ + 1]
                     /\ Resp(response') /\ Ans(answer') /\ Add(added')
  <1> SUFFICES Goal
    BY DEF Resp, Ans, Add
  <1>2. CASE Decode(r)
    <2>1. /\ UNCHANGED <<chainVars, cacheVars, pc, batch, num, response, added, since, refreshes>>
          /\ \/ decoded' = decoded
             \/ decoded[r] < Len(batch[r]) /\ decoded' = [decoded EXCEPT ![r] = @ + 1]
          /\ answer' = answer \/ answer' = [answer EXCEPT ![r] = "refused"]
      BY <1>2 DEF Decode
    <2>2. Ans(answer')
      BY <1>1, <2>1, Zenon
    <2>3. Resp(response') /\ Add(added')
      BY <1>1, <2>1, Zenon
    <2>4. QED
      BY <1>0, <2>1, <2>2, <2>3
  <1>3. CASE AddValidatorKeys(r)
    <2>1. /\ decoded[r] = Len(batch[r])
          /\ UNCHANGED <<height, interfaces, nodeCache, cacheVars, pc, localVars, since, refreshes>>
          /\ \E n \in 0 .. Len(batch[r]) :
                 added' = [added EXCEPT ![r] = Elements(SubSeq(batch[r], 1, n))]
          /\ keys' = keys \cup added'[r]
          /\ answer' \in {[answer EXCEPT ![r] = "success"], [answer EXCEPT ![r] = "failed"]}
      BY <1>3 DEF AddValidatorKeys
    <2>2. Add(added')
      BY <2>1, DecodedAreKeys DEF Add
    <2>3. added'[r] \subseteq Key
      BY <1>0, <2>2 DEF TypeOK, Add
    <2>4. Ans(answer') /\ Resp(response')
      BY <1>1, <2>1, Zenon DEF localVars
    <2>5. keys \subseteq keys' /\ keys' \subseteq Key
      BY <1>0, <2>1, <2>3
    <2>6. QED
      BY <1>0, <2>1, <2>2, <2>4, <2>5
  <1>4. CASE ForceReset(r)
    <2>1. /\ UNCHANGED <<height, keys, interfaces, cacheVars, pc, localVars, added, since, refreshes>>
          /\ nodeCache' \in {nodeCache, height}
          /\ answer' \in {[answer EXCEPT ![r] = "success"], [answer EXCEPT ![r] = "failed"]}
      BY <1>4 DEF ForceReset
    <2>2. Ans(answer') /\ Resp(response') /\ Add(added')
      BY <1>1, <2>1, Zenon DEF localVars
    <2>3. QED
      BY <1>0, <2>1, <2>2
  <1>5. ASSUME NEW s \in Shard, Observer(r, s)
        PROVE  /\ UNCHANGED <<chainVars, cacheVars, pc, batch, decoded, num, added, since,
                              refreshes>>
               /\ Resp(response')
               /\ answer' = answer \/ answer' = [answer EXCEPT ![r] = "failed"]
    <2>1. response[r] \in SUBSET Shard
      BY <1>0 DEF TypeOK
    <2>2. QED
      BY <1>5, <2>1 DEF Observer, Resp
  <1>6. CASE \E s \in Shard : Observer(r, s)
    <2>1. PICK s \in Shard : Observer(r, s)
      BY <1>6
    <2>2. /\ UNCHANGED <<chainVars, cacheVars, pc, batch, decoded, num, added, since,
                         refreshes>>
          /\ Resp(response')
          /\ answer' = answer \/ answer' = [answer EXCEPT ![r] = "failed"]
      BY <1>5, <2>1
    <2>3. Ans(answer') /\ Add(added')
      BY <1>1, <2>2, Zenon
    <2>4. QED
      BY <1>0, <2>2, <2>3
  <1>7. CASE AllObservers(r)
    <2>1. /\ UNCHANGED <<chainVars, cacheVars, pc, localVars, added, since, refreshes>>
          /\ answer' = [answer EXCEPT ![r] = "success"]
      BY <1>7 DEF AllObservers
    <2>2. Ans(answer') /\ Resp(response') /\ Add(added')
      BY <1>1, <2>1, Zenon DEF localVars
    <2>3. QED
      BY <1>0, <2>1, <2>2
  <1>8. CASE GenerateBlocks(r)
    <2>1. /\ UNCHANGED <<keys, interfaces, nodeCache, cacheVars, pc, localVars, added, since, refreshes>>
          /\ height + num[r] <= MaxHeight
          /\ \E n \in 0 .. num[r] : height' = height + n
          /\ answer' \in {[answer EXCEPT ![r] = "success"], [answer EXCEPT ![r] = "failed"]}
      BY <1>8 DEF GenerateBlocks
    <2>2. num[r] \in Int
      BY <1>0, NumIsInt
    <2>3. height' \in 0 .. MaxHeight /\ height' >= height
      BY <1>0, <2>1, <2>2
    <2>4. Ans(answer') /\ Resp(response') /\ Add(added')
      BY <1>1, <2>1, Zenon DEF localVars
    <2>5. nodeCache' \in 0 .. height' /\ nodeCache' >= nodeCache
      BY <1>0, <2>1, <2>3
    <2>6. QED
      BY <1>0, <2>1, <2>3, <2>4, <2>5
  <1>9. QED
    BY <1>2, <1>3, <1>4, <1>6, <1>7, <1>8 DEF Serve

\* A step of a request keeps the types and what is known of the other requests.
LEMMA ServeKeeps ==
    ASSUME IInv, NEW r \in Request, Serve(r)
    PROVE  TypeOK' /\ \A s \in Request \ {r} : RequestInv(s)'
  <1> USE DEF cacheVars
  <1>0. /\ TypeOK /\ height \in Nat /\ nodeCache \in Nat /\ MaxHeight \in Nat
        /\ \A s \in Request : RequestInv(s)
    BY HeightAssumption DEF IInv, TypeOK
  <1>1. /\ UNCHANGED <<interfaces, cacheVars, pc, batch, num, since, refreshes>>
        /\ height' \in 0 .. MaxHeight /\ height' >= height
        /\ keys \subseteq keys' /\ keys' \subseteq Key
        /\ nodeCache' \in 0 .. height' /\ nodeCache' >= nodeCache
    BY ServeFrame
  <1>2. /\ \E R \in SUBSET Shard : response' = [response EXCEPT ![r] = R]
        /\ \E a \in {"none", "refused", "success", "failed"} :
               answer' = [answer EXCEPT ![r] = a]
        /\ \E K \in SUBSET Key : added' = [added EXCEPT ![r] = K]
    BY ServeFrame
  <1>3. \/ decoded' = decoded
        \/ decoded[r] < Len(batch[r]) /\ decoded' = [decoded EXCEPT ![r] = @ + 1]
    BY ServeFrame
  <1>4. TypeOK'
    <2>1. /\ response' \in [Request -> SUBSET Shard]
          /\ answer' \in [Request -> {"none", "refused", "success", "failed"}]
          /\ added' \in [Request -> SUBSET Key]
      BY <1>0, <1>2 DEF TypeOK
    <2>2. /\ decoded' \in [Request -> Nat]
          /\ \A s \in Request : decoded'[s] <= Len(batch'[s])
      <3>1. /\ decoded \in [Request -> Nat]
            /\ \A s \in Request : decoded[s] <= Len(batch[s])
        BY <1>0 DEF TypeOK
      <3>2. Len(batch[r]) \in Nat
        <4>1. batch[r] \in Seq(Key \cup Malformed)
          BY <1>0, KeyAssumption, EmptySeq DEF TypeOK
        <4>2. QED
          BY <4>1, LenProperties
      <3>3. CASE decoded' = decoded
        BY <1>1, <3>1, <3>3
      <3>4. CASE /\ decoded[r] < Len(batch[r])
                 /\ decoded' = [decoded EXCEPT ![r] = @ + 1]
        BY <1>1, <3>1, <3>2, <3>4
      <3>5. QED
        BY <1>3, <3>3, <3>4
    <2>3. /\ fetched' \in 0 .. height' /\ proxyCache' \in 0 .. height'
          /\ updating' \in BOOLEAN /\ interfaces' \in Interface
      BY <1>0, <1>1 DEF TypeOK
    <2>4. /\ pc' \in [Request -> {"new", "keys", "reset", "observers", "generate", "wallets"}]
          /\ batch' \in [Request -> Batch \cup {<<>>}]
          /\ num' \in [Request -> Number \cup {0}]
          /\ since' \in [Request -> 0 .. MaxHeight] /\ refreshes' \in [Request -> 0 .. 2]
      BY <1>0, <1>1 DEF TypeOK
    <2>5. QED
      BY <1>1, <2>1, <2>2, <2>3, <2>4 DEF TypeOK
  <1>5. ASSUME NEW s \in Request \ {r} PROVE RequestInv(s)'
    <2>1. /\ response'[s] = response[s] /\ answer'[s] = answer[s] /\ added'[s] = added[s]
      BY <1>0, <1>2 DEF TypeOK
    <2>4. decoded'[s] = decoded[s]
      BY <1>0, <1>3 DEF TypeOK
    <2>2. height' \in Nat /\ nodeCache' \in Nat
      BY <1>0, <1>1
    <2>3. QED
      BY <1>0, <1>1, <2>1, <2>2, <2>4, Frame
  <1>6. QED
    BY <1>4, <1>5

\* A step of a request keeps what is known of it: its answer is true.
LEMMA ServeRequest ==
    ASSUME IInv, NEW r \in Request, Serve(r)
    PROVE  RequestInv(r)'
  <1> USE DEF At, NextText
  <1>0. /\ TypeOK /\ RequestInv(r)
        /\ height \in Nat /\ nodeCache \in Nat /\ since[r] \in Nat /\ num[r] \in Int
        /\ decoded[r] \in Nat
    BY NumIsInt, HeightAssumption DEF IInv, TypeOK
  <1>1. /\ UNCHANGED <<pc, batch, num, since, refreshes>>
        /\ height' \in Nat /\ since[r] <= height' /\ keys \subseteq keys'
    <2>1. height' \in 0 .. MaxHeight /\ height' >= height
      BY ServeFrame
    <2>2. UNCHANGED <<pc, batch, num, since, refreshes>> /\ keys \subseteq keys'
      BY ServeFrame
    <2>3. since[r] <= height
      BY <1>0 DEF RequestInv
    <2>4. height' \in Nat /\ since[r] <= height'
      BY <1>0, <2>1, <2>3, HeightAssumption
    <2>5. QED
      BY <2>2, <2>4
  <1>2. /\ answer[r] = "none" => added[r] = {} /\ refreshes[r] = 0
        /\ \A i \in 1 .. decoded[r] : batch[r][i] \in Key
        /\ pc[r] = "generate" /\ answer[r] = "none" => num[r] >= 1
    BY <1>0 DEF RequestInv
  <1>3. CASE Decode(r)
    <2>1. /\ pc[r] = "keys" /\ added'[r] = {} /\ refreshes'[r] = 0
          /\ answer'[r] \in {"none", "refused"}
      BY <1>0, <1>1, <1>2, <1>3 DEF Decode, Respond, TypeOK
    <2>2. \/ decoded'[r] = decoded[r]
          \/ decoded'[r] = decoded[r] + 1 /\ batch[r][decoded[r] + 1] \in Key
      BY <1>0, <1>3 DEF Decode, TypeOK
    <2>3. \A i \in 1 .. decoded'[r] : batch'[r][i] \in Key
      BY <1>0, <1>1, <1>2, <2>2
    <2>4. QED
      BY <1>1, <2>1, <2>3
      DEF RequestInv, KeysAdded, RefusedAddsNone, ObserversComplete, GeneratedAsAsked,
          ResetInv, Answered
  <1>4. CASE AddValidatorKeys(r)
    <2>1. /\ pc[r] = "keys" /\ refreshes'[r] = 0 /\ UNCHANGED decoded
      BY <1>1, <1>2, <1>4 DEF AddValidatorKeys, localVars
    <2>2. answer'[r] \in {"success", "failed"}
      BY <1>0, <1>4 DEF AddValidatorKeys, Respond, TypeOK
    <2>3. answer'[r] = "success" => Elements(batch[r]) \subseteq keys'
      <3>1. PICK n \in 0 .. Len(batch[r]) :
                /\ added' = [added EXCEPT ![r] = Elements(SubSeq(batch[r], 1, n))]
                /\ keys' = keys \cup added'[r]
                /\ \/ n = Len(batch[r]) /\ Respond(r, "success")
                   \/ Respond(r, "failed")
        BY <1>4 DEF AddValidatorKeys
      <3>2. decoded[r] = Len(batch[r])
        BY <1>4 DEF AddValidatorKeys
      <3>3. answer'[r] = "success" => n = Len(batch[r])
        BY <1>0, <3>1 DEF Respond, TypeOK
      <3>4. added'[r] = Elements(SubSeq(batch[r], 1, n))
        BY <1>0, <3>1 DEF TypeOK
      <3>5. QED
        BY <3>1, <3>2, <3>3, <3>4, DecodedAreKeys
    <2>4. QED
      BY <1>1, <1>2, <2>1, <2>2, <2>3
      DEF RequestInv, KeysAdded, RefusedAddsNone, ObserversComplete, GeneratedAsAsked,
          ResetInv, Answered
  <1>5. CASE ForceReset(r)
    <2>1. /\ pc[r] = "reset" /\ refreshes'[r] = 0 /\ UNCHANGED <<decoded, added, response>>
          /\ added'[r] = {}
      BY <1>1, <1>2, <1>5 DEF ForceReset, localVars
    <2>2. /\ answer'[r] \in {"success", "failed"}
          /\ answer'[r] = "success" => nodeCache' = height
      BY <1>0, <1>5 DEF ForceReset, Respond, TypeOK
    <2>3. answer'[r] = "success" => nodeCache' >= since'[r]
      BY <1>0, <1>1, <2>2 DEF RequestInv
    <2>4. QED
      BY <1>1, <1>2, <2>1, <2>2, <2>3
      DEF RequestInv, KeysAdded, RefusedAddsNone, ObserversComplete, GeneratedAsAsked,
          ResetInv, Answered
  <1>6. ASSUME NEW s \in Shard, Observer(r, s) PROVE RequestInv(r)'
    <2>1. /\ pc[r] = "observers" /\ refreshes'[r] = 0 /\ UNCHANGED <<decoded, added>>
          /\ added'[r] = {}
      BY <1>1, <1>2, <1>6 DEF Observer
    <2>2. /\ answer'[r] \in {"none", "failed"}
          /\ answer'[r] = "failed" => response'[r] = {}
      BY <1>0, <1>6 DEF Observer, Respond, TypeOK
    <2>3. QED
      BY <1>1, <1>2, <2>1, <2>2
      DEF RequestInv, KeysAdded, RefusedAddsNone, ObserversComplete, GeneratedAsAsked,
          ResetInv, Answered
  <1>7. CASE AllObservers(r)
    <2>1. /\ pc[r] = "observers" /\ refreshes'[r] = 0 /\ UNCHANGED <<decoded, added>>
          /\ added'[r] = {} /\ response'[r] = Shard
      BY <1>1, <1>2, <1>7 DEF AllObservers, localVars
    <2>2. answer'[r] = "success"
      BY <1>0, <1>7 DEF AllObservers, Respond, TypeOK
    <2>3. QED
      BY <1>1, <1>2, <2>1, <2>2
      DEF RequestInv, KeysAdded, RefusedAddsNone, ObserversComplete, GeneratedAsAsked,
          ResetInv, Answered
  <1>8. CASE GenerateBlocks(r)
    <2>1. /\ pc[r] = "generate" /\ refreshes'[r] = 0 /\ UNCHANGED <<decoded, added, response>>
          /\ added'[r] = {}
      BY <1>1, <1>2, <1>8 DEF GenerateBlocks, localVars
    <2>2. num[r] >= 1
      BY <1>2, <1>8 DEF GenerateBlocks
    <2>3. /\ answer'[r] \in {"success", "failed"}
          /\ answer'[r] = "success" => height' = height + num[r]
      BY <1>0, <1>8 DEF GenerateBlocks, Respond, TypeOK
    <2>4. answer'[r] = "success" => height' >= since'[r] + num'[r]
      BY <1>0, <1>1, <2>3 DEF RequestInv
    <2>5. QED
      BY <1>1, <1>2, <2>1, <2>2, <2>3, <2>4
      DEF RequestInv, KeysAdded, RefusedAddsNone, ObserversComplete, GeneratedAsAsked,
          ResetInv, Answered
  <1>9. QED
    BY <1>3, <1>4, <1>5, <1>6, <1>7, <1>8 DEF Serve

--------------------------------------------------------------------------------
\* The steps of the chain itself: its height and the node's statistics only grow.
LEMMA ChainIInv ==
    ASSUME IInv, NodeRefresh \/ OtherBlock
    PROVE  IInv'
  <1> USE DEF cacheVars, localVars
  <1>1. /\ TypeOK /\ height \in 0 .. MaxHeight /\ nodeCache \in 0 .. height
        /\ MaxHeight \in Nat
    BY HeightAssumption DEF IInv, TypeOK
  <1>2. /\ UNCHANGED <<keys, interfaces, cacheVars, pc, localVars, answer, added, since,
                       refreshes>>
        /\ \/ nodeCache' = height /\ height' = height
           \/ nodeCache' = nodeCache /\ height' = height + 1 /\ height < MaxHeight
    BY DEF NodeRefresh, OtherBlock
  <1>3. /\ height' \in 0 .. MaxHeight /\ height' >= height
        /\ nodeCache' \in 0 .. height' /\ nodeCache' >= nodeCache
    BY <1>1, <1>2
  <1>4. TypeOK'
    BY <1>1, <1>2, <1>3 DEF TypeOK
  <1>5. ASSUME NEW s \in Request PROVE RequestInv(s)'
    <2>1. RequestInv(s) /\ height' \in Nat /\ nodeCache' \in Nat
      BY <1>1, <1>3 DEF IInv
    <2>2. QED
      BY <1>1, <1>2, <1>3, <2>1, Frame
  <1>6. QED
    BY <1>4, <1>5 DEF IInv

\* The goroutine of the proxy reads what the node has.  What it stores it read
\* before, and the second time that was after the answer of the reset.
LEMMA CacheIInv ==
    ASSUME IInv, Fetch \/ Store
    PROVE  IInv'
  <1> USE DEF chainVars, localVars
  <1>1. /\ TypeOK /\ height \in Nat /\ nodeCache \in 0 .. height /\ fetched \in 0 .. height
        /\ proxyCache \in 0 .. height
        /\ refreshes \in [Request -> 0 .. 2]
    BY HeightAssumption DEF IInv, TypeOK
  <1>2. UNCHANGED <<chainVars, pc, localVars, answer, added, since>>
    BY DEF Fetch, Store
  <1>3. /\ fetched' \in 0 .. height /\ proxyCache' \in 0 .. height /\ updating' \in BOOLEAN
        /\ refreshes' \in [Request -> 0 .. 2]
    <2>1. CASE Fetch
      BY <1>1, <2>1 DEF Fetch
    <2>2. CASE Store
      <3>1. fetched' = 0 /\ proxyCache' = fetched /\ updating' \in BOOLEAN
        BY <2>2 DEF Store
      <3>2. ASSUME NEW s \in Request
            PROVE  (IF pc[s] = "reset" /\ answer[s] # "none" /\ refreshes[s] < 2
                    THEN refreshes[s] + 1 ELSE refreshes[s]) \in 0 .. 2
        <4>1. refreshes[s] \in 0 .. 2
          BY <1>1
        <4>2. QED
          BY <4>1
      <3>3. refreshes' \in [Request -> 0 .. 2]
        BY <2>2, <3>2 DEF Store
      <3>4. QED
        BY <1>1, <3>1, <3>3
    <2>3. QED
      BY <2>1, <2>2
  <1>4. TypeOK'
    BY <1>1, <1>2, <1>3 DEF TypeOK
  <1>5. ASSUME NEW s \in Request PROVE RequestInv(s)'
    <2>1. /\ RequestInv(s) /\ since[s] \in Nat /\ refreshes[s] \in 0 .. 2
          /\ num[s] \in Int
      BY <1>1, NumIsInt, HeightAssumption DEF IInv, TypeOK
    <2>2. \/ refreshes'[s] = refreshes[s]
          \/ /\ Store /\ pc[s] = "reset" /\ answer[s] # "none"
             /\ refreshes'[s] = refreshes[s] + 1
      BY <1>1 DEF Fetch, Store
    <2>3. ResetInv(s)'
      <3>1. ASSUME Answered(s, "reset", "success")
            PROVE  /\ refreshes'[s] >= 1 /\ updating' => fetched' >= since[s]
                   /\ refreshes'[s] >= 2 => proxyCache' >= since[s]
        <4>1. /\ nodeCache >= since[s]
              /\ refreshes[s] >= 1 /\ updating => fetched >= since[s]
              /\ refreshes[s] >= 2 => proxyCache >= since[s]
          BY <2>1, <3>1 DEF RequestInv, ResetInv
        <4>2. CASE Fetch
          BY <4>1, <4>2 DEF Fetch
        <4>3. CASE Store
          <5>1. proxyCache' = fetched /\ ~updating' /\ updating
            BY <4>3 DEF Store
          <5>2. refreshes'[s] >= 2 => refreshes[s] >= 1
            BY <2>1, <2>2
          <5>3. QED
            BY <4>1, <5>1, <5>2
        <4>4. QED
          BY <4>2, <4>3
      <3>2. QED
        BY <1>2, <2>1, <3>1 DEF ResetInv, RequestInv, Answered
    <2>4. /\ KeysAdded(s)' /\ RefusedAddsNone(s)' /\ ObserversComplete(s)'
          /\ GeneratedAsAsked(s)'
      BY <1>2, <2>1
      DEF RequestInv, KeysAdded, RefusedAddsNone, ObserversComplete, GeneratedAsAsked, Answered
    <2>5. answer'[s] = "none" => added'[s] = {} /\ refreshes'[s] = 0
      BY <1>2, <2>1, <2>2 DEF RequestInv
    <2>6. QED
      BY <1>2, <2>1, <2>3, <2>4, <2>5 DEF RequestInv
  <1>6. QED
    BY <1>4, <1>5 DEF IInv

\* The invariant holds in every reachable state.
THEOREM Invariance == Spec => []IInv
  <1>1. Init => IInv
    BY InitIInv
  <1>2. IInv /\ [Next]_vars => IInv'
    <2> SUFFICES ASSUME IInv, [Next]_vars PROVE IInv'
      OBVIOUS
    <2>1. ASSUME NEW r \in Request, Receive(r) PROVE IInv'
      BY <2>1, ReceiveIInv
    <2>2. ASSUME NEW r \in Request, Serve(r) PROVE IInv'
      BY <2>2, ServeKeeps, ServeRequest DEF IInv
    <2>3. CASE Fetch \/ Store
      BY <2>3, CacheIInv
    <2>4. CASE NodeRefresh \/ OtherBlock
      BY <2>4, ChainIInv
    <2>5. CASE UNCHANGED vars
      BY <2>5 DEF vars, chainVars, cacheVars, localVars, IInv, TypeOK, RequestInv, KeysAdded,
                  RefusedAddsNone, ObserversComplete, GeneratedAsAsked, ResetInv, Answered
    <2>6. QED
      BY <2>1, <2>2, <2>3, <2>4, <2>5 DEF Next
  <1>3. QED
    BY <1>1, <1>2, PTL DEF Spec

\* Every variable holds a value the code can give it, for all sets of requests.
THEOREM TypeCorrect == Spec => []TypeOK
  <1>1. IInv => TypeOK
    BY DEF IInv
  <1>2. QED
    BY <1>1, Invariance, PTL

\* An answer says what has happened, all of it or none, however many requests
\* there are, in any order of their steps.
THEOREM AnswersTrue == Spec => []AnswersAreTrue
  <1>1. IInv => AnswersAreTrue
    BY DEF IInv, RequestInv, AnswersAreTrue
  <1>2. QED
    BY <1>1, Invariance, PTL

\* After the second refresh at the latest the proxy shows what a reset was asked
\* for: the refresh under way at the answer was the only one that began before it.
THEOREM FreshAfterTwo == Spec => []FreshAfterTwoRefreshes
  <1>1. IInv => FreshAfterTwoRefreshes
    BY DEF IInv, RequestInv, ResetInv, FreshAfterTwoRefreshes
  <1>2. QED
    BY <1>1, Invariance, PTL

===============================================================================
