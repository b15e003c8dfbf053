------------------------------ MODULE ConfigsFetcher ---------------------------
(* The start of a process fetches the configuration folders of the node and of    *)
(* the proxy, unless they exist: it clones a repository into a directory that all *)
(* processes of the machine share, checks a version out, copies the folder file   *)
(* by file and removes the clone.  Several processes may be started in one        *)
(* directory; each may fail or be killed at every step, and be started again.     *)
EXTENDS Integers, FiniteSets

CONSTANTS
    Process,   \* the processes started in one working directory
    File,      \* the files of a configuration folder
    Version,   \* Version[p]: the version process p was built with
    Head,      \* what a fresh clone has checked out
    Partial,   \* the content of what is being written
    None,      \* the content of what does not exist
    Unseen,    \* the folders os.Stat may fail on though it is not that they are absent
    MaxRuns    \* bound: how often a process is started again

ASSUME ContentsAssumption ==
    /\ Head # Partial /\ Head # None /\ Partial # None
    /\ \A p \in Process : Version[p] \notin {Head, Partial, None}
ASSUME FolderAssumption == None \notin {"node", "proxy"}
ASSUME FileAssumption == IsFiniteSet(File)
ASSUME RunsAssumption == MaxRuns \in Nat

VARIABLES
    repoOf,     \* the repository cloned into <temporary directory>/repo
    repoAt,     \* what is checked out there
    made,       \* the configuration folders that exist
    content,    \* the version each file of each folder was copied from
    pc,         \* what each process does next
    dir,        \* the folder it is concerned with
    left,       \* the files it has not copied yet
    file,       \* the file it is writing
    runs,       \* how often it has been started again
    broken      \* history: the folders whose copy was broken off

vars == <<repoOf, repoAt, made, content, pc, dir, left, file, runs, broken>>

Folder == {"node", "proxy"}

Init ==
    /\ repoOf = None
    /\ repoAt = None
    /\ made = {}
    /\ content = [d \in Folder |-> [f \in File |-> None]]
    /\ pc = [p \in Process |-> "start"]
    /\ dir = [p \in Process |-> "node"]
    /\ left = [p \in Process |-> {}]
    /\ file = [p \in Process |-> None]
    /\ runs = [p \in Process |-> 0]
    /\ broken = {}

Goto(p, label) == pc' = [pc EXCEPT ![p] = label]

Fetch(p, d) == dir' = [dir EXCEPT ![p] = d] /\ Goto(p, "stat")

Copying(p) == pc[p] \in {"copy", "write"}

\* The process holds the clone.
Holds(p) == pc[p] \in {"cloning", "checkout", "mkdir", "copy", "write"}

\* An error that is returned to main, or the end of the process: whatever is on
\* the disk stays there, the clone included.
BrokenBy(p) == IF Copying(p) THEN broken \cup {dir[p]} ELSE broken

Abort(p, label) ==
    /\ Goto(p, label)
    /\ broken' = BrokenBy(p)
    /\ UNCHANGED <<repoOf, repoAt, made, content, dir, left, file, runs>>

--------------------------------------------------------------------------------
\* fetchConfigs: nothing is fetched with the flag skip-configs-download.
Begin(p) ==
    /\ pc[p] = "start"
    /\ \/ Fetch(p, "node")
       \/ Goto(p, "skipped") /\ UNCHANGED dir
    /\ UNCHANGED <<repoOf, repoAt, made, content, left, file, runs, broken>>

\* The node's folder comes first, then the proxy's, then the simulator is started
\* or, with fetch-configs-and-close, the process ends well.
NextFolder(p) ==
    \/ dir[p] = "node" /\ Fetch(p, "proxy")
    \/ dir[p] = "proxy" /\ Goto(p, "ready") /\ UNCHANGED dir

\* Any error of os.Stat but that the folder does not exist is taken as its existing.
FolderExists(d) ==
    {exists \in BOOLEAN : IF exists THEN d \in made \cup Unseen ELSE d \notin made}

\* A folder that is there is taken as it is.
Stat(p) ==
    /\ pc[p] = "stat"
    /\ \/ TRUE \in FolderExists(dir[p]) /\ NextFolder(p)
       \/ FALSE \in FolderExists(dir[p]) /\ Goto(p, "clone") /\ UNCHANGED dir
    /\ UNCHANGED <<repoOf, repoAt, made, content, left, file, runs, broken>>

DirectoryFree == repoOf = None

\* git clone refuses a directory that exists; otherwise it creates it.
BeginClone(p) ==
    /\ pc[p] = "clone"
    /\ DirectoryFree
    /\ repoOf' = dir[p]
    /\ repoAt' = Partial
    /\ Goto(p, "cloning")
    /\ UNCHANGED <<made, content, dir, left, file, runs, broken>>

\* A defect: the process tries again until the directory is free.
RetryClone(p) ==
    /\ pc[p] = "clone"
    /\ ~DirectoryFree
    /\ Fetch(p, dir[p])
    /\ UNCHANGED <<repoOf, repoAt, made, content, left, file, runs, broken>>

\* A defect: the directory is removed on the way out, whoever has made it.
RefuseAndRemove(p) ==
    /\ pc[p] = "clone"
    /\ ~DirectoryFree
    /\ repoOf' = None
    /\ repoAt' = None
    /\ Goto(p, "failed")
    /\ UNCHANGED <<made, content, dir, left, file, runs, broken>>

RefuseClone(p) == pc[p] = "clone" /\ ~DirectoryFree /\ Abort(p, "failed")

EndClone(p) ==
    /\ pc[p] = "cloning"
    /\ repoAt' = Head
    /\ Goto(p, "checkout")
    /\ UNCHANGED <<repoOf, made, content, dir, left, file, runs, broken>>

\* git removes what it has cloned so far, when it fails and when a signal ends it.
GitGivesUp(p, label) ==
    /\ pc[p] = "cloning"
    /\ repoOf' = None
    /\ repoAt' = None
    /\ Goto(p, label)
    /\ UNCHANGED <<made, content, dir, left, file, runs, broken>>

FailClone(p) == GitGivesUp(p, "failed")

\* A defect: the version is not checked out.
StayAtHead(p) == Head

CheckedOut(p) == Version[p]

Checkout(p) ==
    /\ pc[p] = "checkout"
    /\ repoAt' = CheckedOut(p)
    /\ Goto(p, "mkdir")
    /\ UNCHANGED <<repoOf, made, content, dir, left, file, runs, broken>>

\* A defect: the folder is listed as one of its files.
FolderAmongFiles == File \cup {"folder"}

ToCopy == File

\* copyFolderWithAllFiles creates the folder before its files.
MakeFolder(p) ==
    /\ pc[p] = "mkdir"
    /\ made' = made \cup {dir[p]}
    /\ left' = [left EXCEPT ![p] = ToCopy]
    /\ Goto(p, "copy")
    /\ UNCHANGED <<repoOf, repoAt, content, dir, file, runs, broken>>

\* os.Create empties the file, which may have had a content before.
CreateFile(p) ==
    /\ pc[p] = "copy"
    /\ \E f \in left[p] :
           /\ file' = [file EXCEPT ![p] = f]
           /\ left' = [left EXCEPT ![p] = @ \ {f}]
           /\ content' = [content EXCEPT ![dir[p]][f] = Partial]
    /\ Goto(p, "write")
    /\ UNCHANGED <<repoOf, repoAt, made, dir, runs, broken>>

WriteFile(p) ==
    /\ pc[p] = "write"
    /\ content' = [content EXCEPT ![dir[p]][file[p]] = repoAt]
    /\ Goto(p, "copy")
    /\ UNCHANGED <<repoOf, repoAt, made, dir, left, file, runs, broken>>

\* A defect: the walk may end before its last file.
EndedEarly(p) == TRUE

AllCopied(p) == left[p] = {}

\* os.RemoveAll; the folder is whole.
RemoveClone(p) ==
    /\ pc[p] = "copy"
    /\ AllCopied(p)
    /\ repoOf' = None
    /\ repoAt' = None
    /\ broken' = broken \ {dir[p]}
    /\ NextFolder(p)
    /\ UNCHANGED <<made, content, left, file, runs>>

\* Checkout, or one of the operations on files, returns an error.
Fail(p) == pc[p] \in {"checkout", "mkdir", "copy", "write"} /\ Abort(p, "failed")

Work(p) ==
    \/ Begin(p)
    \/ Stat(p)
    \/ BeginClone(p)
    \/ RefuseClone(p)
    \/ EndClone(p)
    \/ FailClone(p)
    \/ Checkout(p)
    \/ MakeFolder(p)
    \/ CreateFile(p)
    \/ WriteFile(p)
    \/ RemoveClone(p)
    \/ Fail(p)

\* The process is killed in the middle of a fetch; the signal may reach git as well.
Kill(p) ==
    \/ (pc[p] \in {"stat", "clone"} \/ Holds(p)) /\ Abort(p, "killed")
    \/ GitGivesUp(p, "killed")

\* The user starts it again.
Restart(p) ==
    /\ pc[p] \in {"failed", "killed"}
    /\ runs[p] < MaxRuns
    /\ runs' = [runs EXCEPT ![p] = @ + 1]
    /\ Goto(p, "start")
    /\ UNCHANGED <<repoOf, repoAt, made, content, dir, left, file, broken>>

Over(p) == pc[p] \in {"ready", "skipped", "failed", "killed"}

AllOver == (\A p \in Process : Over(p)) /\ UNCHANGED vars

Next ==
    \/ \E p \in Process : Work(p) \/ Kill(p) \/ Restart(p)
    \/ AllOver

Fairness == \A p \in Process : WF_vars(Work(p))

Spec == Init /\ [][Next]_vars /\ Fairness

--------------------------------------------------------------------------------
Whole(d) == \A f \in File : content[d][f] \notin {None, Partial}

\* The type invariant: every variable holds a value the code can give it.
TypeOK ==
    /\ repoOf \in Folder \cup {None}
    /\ repoAt \in {Version[p] : p \in Process} \cup {Head, Partial, None}
    /\ made \in SUBSET Folder
    /\ content \in [Folder -> [File -> {Version[p] : p \in Process} \cup {Head, Partial, None}]]
    /\ pc \in [Process -> {"start", "stat", "clone", "cloning", "checkout", "mkdir",
                           "copy", "write", "ready", "skipped", "failed", "killed"}]
    /\ dir \in [Process -> Folder]
    /\ left \in [Process -> SUBSET File]
    /\ file \in [Process -> File \cup {None}]
    /\ runs \in [Process -> 0 .. MaxRuns]
    /\ broken \in SUBSET Folder

\* The directory of the clone serves as a lock: only one process at a time is
\* between its clone and its removal, and the clone is of the repository it needs.
CloneExclusive ==
    \A p \in Process : Holds(p) =>
        /\ repoOf = dir[p]
        /\ \A q \in Process \ {p} : ~Holds(q)

\* A process that has come to the end of its copy has every file of the folder in
\* its own version, whatever an earlier process left there.
CopiedInOneVersion ==
    \A p \in Process : pc[p] = "copy" =>
        \A f \in File \ left[p] : content[dir[p]][f] = Version[p]

\* A folder has all its files, and all of one version, unless it is being copied or a
\* copy of it has been broken off: two processes that both found no folder copy one
\* after the other, so that one may find the other's version in its folder when it has
\* finished, but never some files of each.
OfOneVersion(d) == \E p \in Process : \A f \in File : content[d][f] = Version[p]

MixtureIsExplained ==
    \A d \in made :
        OfOneVersion(d) \/ d \in broken \/ \E p \in Process : Copying(p) /\ dir[p] = d

\* Every start comes to an end, if git does: a directory left over by another process
\* makes the clone fail, and nothing waits for it.
FetchEnds == \A p \in Process : pc[p] = "start" ~> Over(p)

\* The steps a process has before it: those of a folder, from the look whether it
\* exists to the removal of the clone, once or twice.
FolderSteps == 2 * Cardinality(File) + 6

StepsInFolder(p) ==
    CASE pc[p] = "stat" -> FolderSteps
      [] pc[p] = "clone" -> FolderSteps - 1
      [] pc[p] = "cloning" -> FolderSteps - 2
      [] pc[p] = "checkout" -> FolderSteps - 3
      [] pc[p] = "mkdir" -> FolderSteps - 4
      [] pc[p] = "copy" -> 2 * Cardinality(left[p]) + 1
      [] pc[p] = "write" -> 2 * Cardinality(left[p]) + 2
      [] OTHER -> 0

StepsLeft(p) ==
    CASE Over(p) -> 0
      [] pc[p] = "start" -> 2 * FolderSteps + 1
      [] OTHER -> StepsInFolder(p) + (IF dir[p] = "node" THEN FolderSteps ELSE 0)

\* A step counts down if it is the process's own, and changes nothing if not.
StepCounts(p) ==
    ~Over(p) =>
        IF pc'[p] = pc[p] /\ dir'[p] = dir[p]
        THEN StepsLeft(p)' = StepsLeft(p)
        ELSE 0 <= StepsLeft(p)' /\ StepsLeft(p)' < StepsLeft(p)

\* No process ever waits for another, and none repeats what another has spoiled:
\* each of its steps brings it nearer to its end, and no step of another process
\* takes it away from it.
EveryStepCounts == [][\A p \in Process : StepCounts(p)]_vars

--------------------------------------------------------------------------------
\* What the directory of the clone is used as (CloneLock).
Lock == INSTANCE CloneLock WITH
    taken <- repoOf # None, holder <- {p \in Process : Holds(p)}

\* The directory is taken only when it is free, given back only by the process that
\* has made it, and left by one that fails or is killed.
LockKept == Lock!Spec

--------------------------------------------------------------------------------
\* Usage of fetch-configs-and-close: "This flag is used to specify to fetch all
\* configs and close the chain simulator after".
ReadyHasAllConfigs ==
    \A p \in Process : pc[p] = "ready" => \A d \in Folder : d \in made /\ Whole(d)

===============================================================================
