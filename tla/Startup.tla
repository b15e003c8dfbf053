--------------------------------- MODULE Startup -------------------------------
(* What startChainSimulator makes of its arguments and of the files it is given: *)
(* the override files of the nodes, the numbers of validators, and the           *)
(* configuration of the proxy, which is put together from a folder and from the  *)
(* chain that has been built.  Lifecycle has the same statements among the other *)
(* goroutines; this module has their data.                                       *)
EXTENDS Integers, Sequences, FiniteSets

CONSTANTS
    File,         \* the paths of override files
    DefaultFile,  \* nodeOverrideDefaultPath
    DefaultNamed, \* the paths that contain nodeOverrideDefaultFilename
    Argument,     \* values of --node-override-config, split at the commas
    Option,       \* the options of a node, each a file and a path in it
    Value,        \* their values
    Refused,      \* the values OverrideConfigValues cannot assign
    Own,          \* what the folder of the node says
    Content,      \* what an override file may hold: a list of overrides, or
    Unreadable,   \* ... nothing LoadTomlFile can read
    Number,       \* the numbers of validators a user may ask for
    Modulus,      \* 2^32
    Shard,        \* the shards, the metachain among them
    Port,         \* the ports of this machine
    NodePort,     \* where the node of each shard serves its API
    FileObserver, \* the observers in config.toml of the proxy's folder
    FilePort,     \* the ports that may be in it
    Wallet,       \* the initial wallets of the chain
    FolderKey,    \* other keys
    OldPem        \* the walletKey.pem that may be in the folder, or nothing

Override == [option : Option, value : Value]

ASSUME FileAssumption ==
    /\ DefaultFile \in DefaultNamed /\ DefaultNamed \subseteq File
    /\ Argument \subseteq Seq(File)
ASSUME ContentAssumption ==
    /\ Unreadable \notin Seq(Override)
    /\ Content \subseteq Seq(Override) \cup {Unreadable}
    /\ Own \in [Option -> Value] /\ Refused \subseteq Value
ASSUME NumberAssumption == Number \subseteq Int /\ Modulus \in Nat \ {0, 1}
ASSUME PortAssumption ==
    /\ Port \subseteq Nat \ {0} /\ NodePort \in [Shard -> Port]
    /\ FilePort \subseteq Nat
ASSUME PemAssumption == OldPem \subseteq Seq(FolderKey) /\ FolderKey \cap Wallet = {}

VARIABLES
    main,       \* the next thing startChainSimulator does
    argument,   \* the value of the flag
    disk,       \* what each override file holds
    files,      \* what determineOverrideConfigFiles made of the flag
    read,       \* how many of them ReadAll has read
    merged,     \* mergedConfigs.OverridableConfigTomlValues
    given,      \* the numbers of validators the user asked for
    passed,     \* ... as they are in ArgsChainSimulator
    config,     \* the configuration the nodes are built with
    applied,    \* how many overrides OverrideConfigValues has assigned
    alterConfigsError,
    pem,        \* the blocks of walletKey.pem in the copied folder
    oldPem,     \* history: ... when the folder had just been copied
    written,    \* the wallets generatePemFromInitialAddress has written
    observers,  \* the observers in the configuration of the proxy
    serverPort, \* GeneralSettings.ServerPort
    proxyURL    \* the port in the URL that is announced

overrideVars == <<argument, disk, files, read, merged, config, applied, alterConfigsError>>
numberVars == <<given, passed>>
proxyVars == <<pem, oldPem, written, observers, serverPort, proxyURL>>
vars == <<main, overrideVars, numberVars, proxyVars>>

\* The four flags with a number of validators, and the least that is accepted.
Group == {"shard", "waitingShard", "meta", "waitingMeta"}
Required == {"shard", "meta"}

Init ==
    /\ main = "files"
    /\ argument \in Argument
    /\ disk \in [File -> Content]
    /\ files = <<>> /\ read = 0 /\ merged = <<>>
    /\ given = [g \in Group |-> 0] /\ passed = [g \in Group |-> 0]
    /\ config = Own /\ applied = 0 /\ alterConfigsError = FALSE
    /\ pem = <<>> /\ oldPem = <<>> /\ written = <<>> /\ observers = {}
    /\ serverPort = 0 /\ proxyURL = 0

--------------------------------------------------------------------------------
\* The override files.

NamesDefault(list) == \E k \in DOMAIN list : list[k] \in DefaultNamed

\* A defect: the default file is read last.
DefaultLast(list) == IF NamesDefault(list) THEN list ELSE Append(list, DefaultFile)

\* The default file goes before the files of the user, unless one is named like it.
WithDefault(list) == IF NamesDefault(list) THEN list ELSE <<DefaultFile>> \o list

DetermineOverrideConfigFiles ==
    /\ main = "files"
    /\ files' = WithDefault(argument)
    /\ main' = "read"
    /\ UNCHANGED <<argument, disk, read, merged, config, applied, alterConfigsError,
                   numberVars, proxyVars>>

\* One turn of the loop of ReadAll, which gives up at the first error.
ReadFile ==
    /\ main = "read"
    /\ read < Len(files)
    /\ read' = read + 1
    /\ \/ /\ disk[files[read']] # Unreadable
          /\ merged' = merged \o disk[files[read']]
          /\ UNCHANGED main
       \/ /\ disk[files[read']] = Unreadable
          /\ merged' = <<>>
          /\ main' = "failed"
    /\ UNCHANGED <<argument, disk, files, config, applied, alterConfigsError, numberVars,
                   proxyVars>>

\* ReadAll returns; the logger and the fetching of the folders follow, which may
\* fail or, with fetch-configs-and-close, be all there is to do.
FetchConfigs ==
    /\ main = "read"
    /\ read = Len(files)
    /\ main' \in {"numbers", "failed", "closed"}
    /\ UNCHANGED <<overrideVars, numberVars, proxyVars>>

--------------------------------------------------------------------------------
\* The numbers of validators and the chain.

\* A defect: no validator at all is accepted.
Nonnegative(n, g) == n >= 0

Accepted(n, g) == IF g \in Required THEN n >= 1 ELSE n >= 0

\* A defect: the number is passed as it is.
WithoutConversion(n) == n

ToUint32(n) == n % Modulus

\* The four checks, each with its error, the temporary directory and the
\* conversions in ArgsChainSimulator.
CheckNumbers ==
    /\ main = "numbers"
    /\ given' \in [Group -> Number]
    /\ \/ /\ \A g \in Group : Accepted(given'[g], g)
          /\ passed' = [g \in Group |-> ToUint32(given'[g])]
          /\ main' \in {"alter", "failed"}
       \/ /\ \E g \in Group : ~Accepted(given'[g], g)
          /\ main' = "failed"
          /\ UNCHANGED passed
    /\ UNCHANGED <<overrideVars, proxyVars>>

\* NewChainSimulator calls AlterConfigsFunction: OverrideConfigValues assigns the
\* overrides in their order and stops at the first it cannot assign.
ApplyOverride ==
    /\ main = "alter"
    /\ applied < Len(merged)
    /\ LET o == merged[applied + 1] IN
           \/ /\ o.value \notin Refused
              /\ config' = [config EXCEPT ![o.option] = o.value]
              /\ applied' = applied + 1
              /\ UNCHANGED <<main, alterConfigsError>>
           \/ /\ o.value \in Refused
              /\ alterConfigsError' = TRUE
              /\ main' = "build"
              /\ UNCHANGED <<config, applied>>
    /\ UNCHANGED <<argument, disk, files, read, merged, numberVars, proxyVars>>

AllApplied ==
    /\ main = "alter"
    /\ applied = Len(merged)
    /\ main' = "build"
    /\ UNCHANGED <<overrideVars, numberVars, proxyVars>>

\* NewChainSimulator goes on with whatever the function left, and may fail itself.
BuildChain ==
    /\ main = "build"
    /\ main' \in {"built", "failed"}
    /\ UNCHANGED <<overrideVars, numberVars, proxyVars>>

\* A defect: only the error of NewChainSimulator is looked at.
TrustTheChain ==
    /\ main = "built"
    /\ main' = "ready"
    /\ UNCHANGED <<overrideVars, numberVars, proxyVars>>

\* The error of the function is looked at when the chain is there.
CheckAlterError ==
    /\ main = "built"
    /\ main' = IF alterConfigsError THEN "failed" ELSE "ready"
    /\ UNCHANGED <<overrideVars, numberVars, proxyVars>>

\* The accounts, the first block and the generator: see Lifecycle.
PrepareChain ==
    /\ main = "ready"
    /\ main' \in {"copy", "failed"}
    /\ UNCHANGED <<overrideVars, numberVars, proxyVars>>

--------------------------------------------------------------------------------
\* The configuration of the proxy.

Observers == {[shard |-> s, port |-> NodePort[s]] : s \in Shard}

\* A defect: the observers of this chain are added to those of the file.
AddObservers == observers \cup Observers

\* The list is made anew.
ReplaceObservers == Observers

\* cp -r: the folder comes with a config.toml of its own and, maybe, with keys.
CopyFolder ==
    /\ main = "copy"
    /\ \/ main' = "failed" /\ UNCHANGED <<pem, oldPem>>
       \/ /\ main' = "load"
          /\ pem' \in OldPem
          /\ oldPem' = pem'
    /\ UNCHANGED <<overrideVars, numberVars, written, observers, serverPort, proxyURL>>

\* LoadTomlFile: the configuration is that of the folder, whatever chain it is for.
LoadConfig ==
    /\ main = "load"
    /\ \/ main' = "failed" /\ UNCHANGED <<observers, serverPort>>
       \/ /\ main' = "adapt"
          /\ observers' = FileObserver
          /\ serverPort' \in FilePort
    /\ UNCHANGED <<overrideVars, numberVars, pem, oldPem, written, proxyURL>>

\* The port, which main has not given to CreateProxyConfigs, and the observers are
\* replaced; then the file of the wallets is opened, and not truncated.
AdaptConfig ==
    /\ main = "adapt"
    /\ serverPort' = 0
    /\ observers' = ReplaceObservers
    /\ main' \in {"pem", "failed"}
    /\ UNCHANGED <<overrideVars, numberVars, pem, oldPem, written, proxyURL>>

WrittenAll == \A w \in Wallet : \E i \in DOMAIN written : written[i] = w

\* A defect: blocks go behind what the file holds.
AppendBlock(w) == Append(pem, w)

\* The next block replaces what is at its place.
WriteBlock(w) ==
    LET n == Len(written) + 1 IN
        [i \in 1 .. (IF n > Len(pem) THEN n ELSE Len(pem)) |-> IF i = n THEN w ELSE pem[i]]

\* One turn of the loop of generatePemFromInitialAddress, which goes through a
\* map, in any order.
WriteWallet ==
    /\ main = "pem"
    /\ ~WrittenAll
    /\ \/ /\ \E w \in Wallet : /\ \A i \in DOMAIN written : written[i] # w
                               /\ pem' = WriteBlock(w)
                               /\ written' = Append(written, w)
          /\ UNCHANGED main
       \/ main' = "failed" /\ UNCHANGED <<pem, written>>
    /\ UNCHANGED <<overrideVars, numberVars, oldPem, observers, serverPort, proxyURL>>

\* RestApiInterface(0): a port nobody listens on, the nodes included.
FreePort == {p \in Port : \A s \in Shard : NodePort[s] # p}

\* The port of the proxy is that of the configuration, or one that is free.
ChoosePort ==
    /\ main = "pem"
    /\ WrittenAll
    /\ \E configured \in Port \cup {0} :
           \/ configured # 0 /\ proxyURL' = configured
           \/ configured = 0 /\ proxyURL' \in FreePort
    /\ serverPort' = proxyURL'
    /\ main' = "create"
    /\ UNCHANGED <<overrideVars, numberVars, pem, oldPem, written, observers>>

\* CreateProxy, the facade, the endpoints and Start.
CreateProxy ==
    /\ main = "create"
    /\ main' \in {"started", "failed"}
    /\ UNCHANGED <<overrideVars, numberVars, proxyVars>>

Step ==
    \/ DetermineOverrideConfigFiles
    \/ ReadFile
    \/ FetchConfigs
    \/ CheckNumbers
    \/ ApplyOverride
    \/ AllApplied
    \/ BuildChain
    \/ CheckAlterError
    \/ PrepareChain
    \/ CopyFolder
    \/ LoadConfig
    \/ AdaptConfig
    \/ WriteWallet
    \/ ChoosePort
    \/ CreateProxy

Over == main \in {"failed", "closed", "started"} /\ UNCHANGED vars

Next == Step \/ Over

Spec == Init /\ [][Next]_vars

--------------------------------------------------------------------------------
\* main takes the chain for its own.
ChainInUse == main \in {"ready", "copy", "load", "adapt", "pem", "create", "started"}

Overrides(o, list) == \E i \in DOMAIN list : list[i].option = o

\* v is what the last override of o in the list says.
LastSays(o, v, list) ==
    \E i \in DOMAIN list :
        /\ list[i].option = o /\ list[i].value = v
        /\ \A j \in DOMAIN list : j > i => list[j].option # o

\* The type invariant: every variable holds a value the code can give it.
TypeOK ==
    /\ main \in {"files", "read", "numbers", "alter", "build", "built", "ready", "copy",
                 "load", "adapt", "pem", "create", "started", "closed", "failed"}
    /\ argument \in Argument /\ disk \in [File -> Content]
    /\ files \in Seq(File) /\ read \in 0 .. Len(files)
    /\ merged \in Seq(Override) /\ applied \in 0 .. Len(merged)
    /\ config \in [Option -> Value] /\ alterConfigsError \in BOOLEAN
    /\ given \in [Group -> Number \cup {0}] /\ passed \in [Group -> 0 .. Modulus - 1]
    /\ pem \in Seq(FolderKey \cup Wallet) /\ oldPem \in Seq(FolderKey)
    /\ written \in Seq(Wallet)
    /\ observers \subseteq FileObserver \cup Observers
    /\ serverPort \in Port \cup FilePort \cup {0} /\ proxyURL \in Port \cup {0}

\* A chain that main goes on with has, for every option, what the last file of
\* the user that mentions it says; what none of them mentions comes from the
\* default file, unless the user replaced it, and the rest from the node's folder.
LastFileWins ==
    ChainInUse =>
        \A o \in Option :
            \/ \E k \in DOMAIN argument :
                   /\ LastSays(o, config[o], disk[argument[k]])
                   /\ \A l \in DOMAIN argument : l > k => ~Overrides(o, disk[argument[l]])
            \/ /\ \A k \in DOMAIN argument : ~Overrides(o, disk[argument[k]])
               /\ \/ ~NamesDefault(argument) /\ LastSays(o, config[o], disk[DefaultFile])
                  \/ /\ NamesDefault(argument) \/ ~Overrides(o, disk[DefaultFile])
                     /\ config[o] = Own[o]

\* No error of the files is lost on the way: main goes on with the chain only if
\* each file could be read and each override in it assigned, although the error of
\* OverrideConfigValues cannot stop NewChainSimulator.
NoOverrideLost ==
    ChainInUse =>
        \A f \in {argument[k] : k \in DOMAIN argument}
                 \cup (IF NamesDefault(argument) THEN {} ELSE {DefaultFile}) :
            /\ disk[f] # Unreadable
            /\ \A i \in DOMAIN disk[f] : disk[f][i].value \notin Refused

\* The numbers are checked as integers and passed with 32 bits: what passes the
\* checks is passed on as it is, as long as it fits; only a number that does not
\* fit can leave a shard without the validators it requires.
ValidatorsAsAsked ==
    ChainInUse =>
        \A g \in Group :
            /\ given[g] < Modulus => passed[g] = given[g]
            /\ g \in Required /\ passed[g] = 0 => given[g] >= Modulus

\* The configuration is loaded from a folder that was made for another chain: by the
\* time the proxy is created with it none of that chain's observers is left, each
\* node of this one is there, and the port is the one that is announced, although
\* CreateProxyConfigs has set it to zero and main sets it afterwards.
ProxyServesThisChain ==
    main \in {"create", "started"} =>
        /\ observers = Observers
        /\ serverPort = proxyURL /\ serverPort # 0

\* The file the faucet is given begins with the initial wallets, each once.  Behind
\* them are the keys of the folder's own file, if that was longer: the file is
\* written over and not truncated, and whatever is in it the faucet takes.
PemHasWallets ==
    main \in {"create", "started"} =>
        /\ \A w \in Wallet : \E i \in DOMAIN pem : pem[i] = w
        /\ \A i, j \in DOMAIN pem : i < j /\ pem[j] \in Wallet => pem[i] \in Wallet \ {pem[j]}
        /\ \A i \in DOMAIN pem : pem[i] \in Wallet \/ (i \in DOMAIN oldPem /\ pem[i] = oldPem[i])
        /\ DOMAIN oldPem \subseteq DOMAIN pem

--------------------------------------------------------------------------------
\* What the repository's test of the faucet expects.

\* faucet.sh asks the faucet for tokens, generates a block and expects to have them:
\* so each key the faucet may pay with must be one the new chain has given a balance
\* to, which are the initial wallets alone.
FaucetIsFunded == main = "started" => \A i \in DOMAIN pem : pem[i] \in Wallet

===============================================================================
