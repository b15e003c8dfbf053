---------------------------- MODULE ValidatorService ---------------------------
(* The endpoints that pass a client's wish on to the chain in one call: add-keys, *)
(* force-reset-validator-statistics, observers and generate-blocks.  The          *)
(* statistics a client reads afterwards come from the proxy, which keeps a copy   *)
(* of the node's copy: creator.CreateProxy gives its processor a cache of its own *)
(* and starts the goroutine that refreshes it.                                    *)
EXTENDS Integers, Sequences, FiniteSets

CONSTANTS
    Request,    \* the HTTP requests; each is served once
    Key,        \* the private keys of validators
    Malformed,  \* texts that are not the base64 of a hex string
    Batch,      \* lists of texts a client may send to add-keys
    Number,     \* the integers a client may send to generate-blocks
    Shard,      \* the shards, the metachain among them
    NoPort,     \* the interface of a node that no port can be read from
    Interface,  \* what GetRestAPIInterfaces may answer: an interface per shard
    MaxHeight   \* bound: blocks generated

ASSUME KeyAssumption == Key \cap Malformed = {} /\ Batch \subseteq Seq(Key \cup Malformed)
ASSUME HeightAssumption == Number \subseteq Int /\ MaxHeight \in Nat

VARIABLES
    height,     \* blocks generated so far: what fresh statistics are about
    keys,       \* the keys the nodes sign for
    interfaces, \* GetRestAPIInterfaces
    nodeCache,  \* the height of the statistics the node keeps
    fetched,    \* ... that the goroutine of the proxy has read, and not stored
    proxyCache, \* ... that the proxy answers with
    updating,   \* the goroutine of the proxy is between reading and storing
    pc,         \* where the goroutine of each request is
    batch,      \* the keys an add-keys request sent
    decoded,    \* how many of them have been decoded
    num,        \* the blocks a generate-blocks request asked for
    response,   \* the shards in the answer of an observers request
    answer,     \* what the handler responded
    added,      \* history: the keys the chain took from each request
    since,      \* history: the height when a reset or generate-blocks arrived
    refreshes   \* history: what the proxy stored since a reset was answered, up to 2

chainVars == <<height, keys, interfaces, nodeCache>>
cacheVars == <<fetched, proxyCache, updating>>
localVars == <<batch, decoded, num, response>>
vars == <<chainVars, cacheVars, pc, localVars, answer, added, since, refreshes>>

Elements(s) == {s[i] : i \in DOMAIN s}

Init ==
    /\ height = 0 /\ keys = {} /\ interfaces \in Interface
    /\ nodeCache = 0 /\ fetched = 0 /\ proxyCache = 0 /\ updating = FALSE
    /\ pc = [r \in Request |-> "new"]
    /\ batch = [r \in Request |-> <<>>] /\ decoded = [r \in Request |-> 0]
    /\ num = [r \in Request |-> 0] /\ response = [r \in Request |-> {}]
    /\ answer = [r \in Request |-> "none"]
    /\ added = [r \in Request |-> {}] /\ since = [r \in Request |-> 0]
    /\ refreshes = [r \in Request |-> 0]

Goto(r, label) == pc' = [pc EXCEPT ![r] = label]

\* The handler answers at the label where its only call ends: pc keeps the label
\* of the endpoint, for the properties.
Respond(r, a) == answer' = [answer EXCEPT ![r] = a] /\ UNCHANGED pc

At(r, label) == pc[r] = label /\ answer[r] = "none"

Arrive(r) == pc[r] = "new" /\ UNCHANGED <<chainVars, cacheVars, added, refreshes>>

KeepHeight(r) == since' = [since EXCEPT ![r] = height]

--------------------------------------------------------------------------------
\* POST /simulator/add-keys, whose body may be no list of keys.
ReceiveKeys(r) ==
    /\ Arrive(r)
    /\ Goto(r, "keys")
    /\ \/ batch' \in {[batch EXCEPT ![r] = b] : b \in Batch} /\ UNCHANGED answer
       \/ answer' = [answer EXCEPT ![r] = "refused"] /\ UNCHANGED batch
    /\ UNCHANGED <<decoded, num, response, since>>

NextText(r) == batch[r][decoded[r] + 1]

\* A defect: the errors of the decoding are not looked at.
IgnoreErrors(r) ==
    /\ At(r, "keys")
    /\ decoded[r] < Len(batch[r])
    /\ decoded' = [decoded EXCEPT ![r] = @ + 1]
    /\ UNCHANGED <<chainVars, cacheVars, pc, batch, num, response, answer, added, since,
                   refreshes>>

\* A defect: each key is handed over as soon as it is decoded.
DecodeAndAdd(r) ==
    /\ At(r, "keys")
    /\ decoded[r] < Len(batch[r])
    /\ \/ /\ NextText(r) \in Key
          /\ decoded' = [decoded EXCEPT ![r] = @ + 1]
          /\ keys' = keys \cup {NextText(r)}
          /\ added' = [added EXCEPT ![r] = @ \cup {NextText(r)}]
          /\ UNCHANGED <<pc, answer>>
       \/ NextText(r) \in Malformed /\ Respond(r, "refused") /\ UNCHANGED <<decoded, keys, added>>
    /\ UNCHANGED <<height, interfaces, nodeCache, cacheVars, batch, num, response, since,
                   refreshes>>

\* One turn of the loop of AddValidatorKeys: the first text that cannot be decoded
\* ends the request.
Decode(r) ==
    /\ At(r, "keys")
    /\ decoded[r] < Len(batch[r])
    /\ \/ /\ NextText(r) \in Key
          /\ decoded' = [decoded EXCEPT ![r] = @ + 1]
          /\ UNCHANGED <<pc, answer>>
       \/ NextText(r) \in Malformed /\ Respond(r, "refused") /\ UNCHANGED decoded
    /\ UNCHANGED <<chainVars, cacheVars, batch, num, response, added, since, refreshes>>

\* The call of the simulator, with all the keys; an error leaves the first few.
AddValidatorKeys(r) ==
    /\ At(r, "keys")
    /\ decoded[r] = Len(batch[r])
    /\ \E n \in 0 .. Len(batch[r]) :
           /\ added' = [added EXCEPT ![r] = Elements(SubSeq(batch[r], 1, n))]
           /\ keys' = keys \cup added'[r]
           /\ \/ n = Len(batch[r]) /\ Respond(r, "success")
              \/ Respond(r, "failed")
    /\ UNCHANGED <<height, interfaces, nodeCache, cacheVars, localVars, since, refreshes>>

--------------------------------------------------------------------------------
\* POST /simulator/force-reset-validator-statistics
ReceiveReset(r) ==
    /\ Arrive(r)
    /\ Goto(r, "reset")
    /\ KeepHeight(r)
    /\ UNCHANGED <<localVars, answer>>

\* A defect: the handler does not look at the error.
ResetUnchecked(r) ==
    /\ At(r, "reset")
    /\ nodeCache' \in {nodeCache, height}
    /\ Respond(r, "success")
    /\ UNCHANGED <<height, keys, interfaces, cacheVars, localVars, added, since, refreshes>>

\* The node takes its statistics anew, or answers an error.
ForceReset(r) ==
    /\ At(r, "reset")
    /\ \/ nodeCache' = height /\ Respond(r, "success")
       \/ nodeCache' \in {nodeCache, height} /\ Respond(r, "failed")
    /\ UNCHANGED <<height, keys, interfaces, cacheVars, localVars, added, since, refreshes>>

--------------------------------------------------------------------------------
\* GET /simulator/observers
ReceiveObservers(r) ==
    /\ Arrive(r)
    /\ Goto(r, "observers")
    /\ UNCHANGED <<localVars, answer, since>>

\* One turn of the loop over the map, whose order is arbitrary: an interface with
\* no port to read ends the request, and drops what has been gathered.
Observer(r, s) ==
    /\ At(r, "observers")
    /\ s \in Shard \ response[r]
    /\ \/ /\ interfaces[s] # NoPort
          /\ response' = [response EXCEPT ![r] = @ \cup {s}]
          /\ UNCHANGED <<pc, answer>>
       \/ /\ interfaces[s] = NoPort
          /\ response' = [response EXCEPT ![r] = {}]
          /\ Respond(r, "failed")
    /\ UNCHANGED <<chainVars, cacheVars, batch, decoded, num, added, since, refreshes>>

AllObservers(r) ==
    /\ At(r, "observers")
    /\ response[r] = Shard
    /\ Respond(r, "success")
    /\ UNCHANGED <<chainVars, cacheVars, localVars, added, since, refreshes>>

--------------------------------------------------------------------------------
Positive(n) == n > 0

\* POST /simulator/generate-blocks/:num: what is no number, and a number the
\* facade does not take, is refused.
ReceiveGenerate(r) ==
    /\ Arrive(r)
    /\ Goto(r, "generate")
    /\ KeepHeight(r)
    /\ \/ \E n \in Number :
              /\ num' = [num EXCEPT ![r] = n]
              /\ \/ Positive(n) /\ UNCHANGED answer
                 \/ ~Positive(n) /\ answer' = [answer EXCEPT ![r] = "refused"]
       \/ answer' = [answer EXCEPT ![r] = "refused"] /\ UNCHANGED num
    /\ UNCHANGED <<batch, decoded, response>>

\* The simulator generates the blocks under its lock, all of them unless it fails.
GenerateBlocks(r) ==
    /\ At(r, "generate")
    /\ height + num[r] <= MaxHeight
    /\ \E n \in 0 .. num[r] :
           /\ height' = height + n
           /\ \/ n = num[r] /\ Respond(r, "success")
              \/ Respond(r, "failed")
    /\ UNCHANGED <<keys, interfaces, nodeCache, cacheVars, localVars, added, since,
                   refreshes>>

\* GET /simulator/initial-wallets answers with what was fixed when the chain was
\* built.
InitialWallets(r) ==
    /\ Arrive(r)
    /\ Goto(r, "wallets")
    /\ answer' = [answer EXCEPT ![r] = "success"]
    /\ UNCHANGED <<localVars, since>>

--------------------------------------------------------------------------------
\* The goroutine StartCacheUpdate has started asks the node for its statistics, ...
Fetch ==
    /\ ~updating
    /\ fetched' = nodeCache
    /\ updating' = TRUE
    /\ UNCHANGED <<height, keys, interfaces, nodeCache, proxyCache, pc, localVars, answer,
                   added, since, refreshes>>

\* ... and stores the answer, which may have been overtaken by a reset.
Store ==
    /\ updating
    /\ proxyCache' = fetched
    /\ fetched' = 0 /\ updating' = FALSE
    /\ refreshes' = [r \in Request |->
                        IF pc[r] = "reset" /\ answer[r] # "none" /\ refreshes[r] < 2
                        THEN refreshes[r] + 1 ELSE refreshes[r]]
    /\ UNCHANGED <<chainVars, pc, localVars, answer, added, since>>

\* The node takes its statistics anew from time to time.
NodeRefresh ==
    /\ nodeCache' = height
    /\ UNCHANGED <<height, keys, interfaces, cacheVars, pc, localVars, answer, added, since,
                   refreshes>>

\* A block of the generator or of another endpoint.
OtherBlock ==
    /\ height < MaxHeight
    /\ height' = height + 1
    /\ UNCHANGED <<keys, interfaces, nodeCache, cacheVars, pc, localVars, answer, added,
                   since, refreshes>>

Receive(r) ==
    \/ ReceiveKeys(r)
    \/ ReceiveReset(r)
    \/ ReceiveObservers(r)
    \/ ReceiveGenerate(r)
    \/ InitialWallets(r)

Serve(r) ==
    \/ Decode(r)
    \/ AddValidatorKeys(r)
    \/ ForceReset(r)
    \/ \E s \in Shard : Observer(r, s)
    \/ AllObservers(r)
    \/ GenerateBlocks(r)

Next ==
    \/ \E r \in Request : Receive(r) \/ Serve(r)
    \/ Fetch
    \/ Store
    \/ NodeRefresh
    \/ OtherBlock

\* Nothing makes clients send requests or the node refresh by itself; a request
\* that has arrived is served, and the goroutine of the proxy goes on.
Spec ==
    /\ Init /\ [][Next]_vars
    /\ \A r \in Request : WF_vars(Serve(r))
    /\ WF_vars(Fetch) /\ WF_vars(Store)

--------------------------------------------------------------------------------
\* The type invariant: every variable holds a value the code can give it.
TypeOK ==
    /\ height \in 0 .. MaxHeight /\ keys \subseteq Key /\ interfaces \in Interface
    /\ nodeCache \in 0 .. height /\ fetched \in 0 .. height /\ proxyCache \in 0 .. height
    /\ updating \in BOOLEAN
    /\ pc \in [Request -> {"new", "keys", "reset", "observers", "generate", "wallets"}]
    /\ batch \in [Request -> Batch \cup {<<>>}]
    /\ decoded \in [Request -> Nat] /\ \A r \in Request : decoded[r] <= Len(batch[r])
    /\ num \in [Request -> Number \cup {0}]
    /\ response \in [Request -> SUBSET Shard]
    /\ answer \in [Request -> {"none", "refused", "success", "failed"}]
    /\ added \in [Request -> SUBSET Key]
    /\ since \in [Request -> 0 .. MaxHeight] /\ refreshes \in [Request -> 0 .. 2]

Answered(r, endpoint, a) == pc[r] = endpoint /\ answer[r] = a

\* add-keys answers success only when the nodes have every key of the list.
KeysAdded(r) == Answered(r, "keys", "success") => Elements(batch[r]) \subseteq keys

\* A list with a text that cannot be decoded has added none of its keys.
RefusedAddsNone(r) == Answered(r, "keys", "refused") => added[r] = {}

\* The observers of all shards, or an error with none of them.
ObserversComplete(r) ==
    /\ Answered(r, "observers", "success") => response[r] = Shard
    /\ Answered(r, "observers", "failed") => response[r] = {}

\* The chain has grown by the number asked for since the request arrived.
GeneratedAsAsked(r) ==
    /\ Answered(r, "generate", "success") => num[r] >= 1 /\ height >= since[r] + num[r]
    /\ Answered(r, "generate", "refused") => num[r] < 1

\* An answer says what has happened, all of it or none: a list of keys or a map of
\* shards is not passed on in part when an element in its middle is bad, whatever
\* stands before and behind it and whoever else adds keys and generates blocks.
AnswersAreTrue ==
    \A r \in Request :
        KeysAdded(r) /\ RefusedAddsNone(r) /\ ObserversComplete(r) /\ GeneratedAsAsked(r)

\* The reset does not touch the proxy's copy, and a refresh that is under way
\* when it is answered may still store what was there before: a client sees the
\* statistics it asked for after the second refresh at the latest.
FreshAfterTwoRefreshes ==
    \A r \in Request :
        Answered(r, "reset", "success") /\ refreshes[r] >= 2 => proxyCache >= since[r]

\* What a reset was asked for reaches the clients of the proxy, though nothing
\* tells the proxy of the reset.
ResetReachesClients ==
    \A r \in Request :
        Answered(r, "reset", "success") ~> proxyCache >= since[r]

================================================================================
