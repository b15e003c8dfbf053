-------------------------- MODULE ConfigsFetcherProofs -------------------------
(* Theorems about ConfigsFetcher, for every set of processes, files and versions *)
(* and any number of failures, kills and restarts.                               *)
EXTENDS ConfigsFetcher, FiniteSetTheorems, TLAPS

\* The clone is held by one process at most, and is what that process needs.
HoldInv ==
    \A p \in Process :
        /\ Holds(p) => repoOf = dir[p] /\ \A q \in Process \ {p} : ~Holds(q)
        /\ pc[p] \in {"mkdir", "copy", "write"} => repoAt = Version[p]

\* What the process that copies has copied so far.
CopyInv ==
    \A p \in Process : Copying(p) =>
        /\ dir[p] \in made
        /\ pc[p] = "write" => file[p] \in File \ left[p]
        /\ \A f \in File \ left[p] :
               content[dir[p]][f] = Version[p] \/ (pc[p] = "write" /\ f = file[p])

IInv == TypeOK /\ HoldInv /\ CopyInv /\ MixtureIsExplained

--------------------------------------------------------------------------------
\* The invariant holds when no process has been started.
LEMMA InitIInv == Init => IInv
  BY RunsAssumption
  DEF Init, IInv, TypeOK, HoldInv, CopyInv, MixtureIsExplained, Folder, Holds, Copying

\* A process that leaves the disk alone and does not come to hold the clone keeps
\* the invariant, if it notes a copy it breaks off.
LEMMA QuietStep ==
    ASSUME IInv, TypeOK', NEW p \in Process,
           UNCHANGED <<repoOf, repoAt, made, content>>,
           \A q \in Process \ {p} : /\ pc'[q] = pc[q] /\ dir'[q] = dir[q]
                                    /\ left'[q] = left[q] /\ file'[q] = file[q],
           pc'[p] \in {"start", "stat", "clone", "ready", "skipped", "failed", "killed"},
           broken' = BrokenBy(p)
    PROVE  IInv'
  <1>1. HoldInv'
    BY DEF IInv, HoldInv, Holds
  <1>2. CopyInv'
    BY DEF IInv, CopyInv, Copying
  <1>3. MixtureIsExplained'
    <2> SUFFICES ASSUME NEW d \in made, ~OfOneVersion(d)
                 PROVE  d \in broken' \/ \E q \in Process : Copying(q)' /\ dir'[q] = d
      BY DEF MixtureIsExplained, OfOneVersion
    <2>1. d \in broken \/ \E q \in Process : Copying(q) /\ dir[q] = d
      BY DEF IInv, MixtureIsExplained
    <2>2. QED
      BY <2>1 DEF BrokenBy, Copying
  <1>4. QED
    BY <1>1, <1>2, <1>3 DEF IInv

\* A process that fails or is killed leaves the disk alone.
LEMMA AbortIInv ==
    ASSUME IInv, NEW p \in Process, NEW l \in {"failed", "killed"}, Abort(p, l)
    PROVE  IInv'
  <1>1. TypeOK'
    BY DEF Abort, BrokenBy, Goto, IInv, TypeOK
  <1>2. QED
    BY <1>1, QuietStep DEF Abort, Goto, IInv, TypeOK

\* A start leaves the disk alone.
LEMMA BeginIInv ==
    ASSUME IInv, NEW p \in Process, Begin(p)
    PROVE  IInv'
  <1>1. TypeOK'
    BY DEF Begin, Fetch, Goto, IInv, TypeOK, Folder
  <1>2. broken' = BrokenBy(p)
    BY DEF Begin, BrokenBy, Copying
  <1>3. QED
    BY <1>1, <1>2, QuietStep DEF Begin, Fetch, Goto, IInv, TypeOK

\* So does the look for the folder.
LEMMA StatIInv ==
    ASSUME IInv, NEW p \in Process, Stat(p)
    PROVE  IInv'
  <1>1. TypeOK'
    BY DEF Stat, NextFolder, Fetch, Goto, IInv, TypeOK, Folder
  <1>2. broken' = BrokenBy(p)
    BY DEF Stat, BrokenBy, Copying
  <1>3. QED
    BY <1>1, <1>2, QuietStep DEF Stat, NextFolder, Fetch, Goto, IInv, TypeOK

\* So does the user who starts the process again.
LEMMA RestartIInv ==
    ASSUME IInv, NEW p \in Process, Restart(p)
    PROVE  IInv'
  <1>1. TypeOK'
    BY RunsAssumption DEF Restart, Goto, IInv, TypeOK
  <1>2. broken' = BrokenBy(p)
    BY DEF Restart, BrokenBy, Copying
  <1>3. QED
    BY <1>1, <1>2, QuietStep DEF Restart, Goto, IInv, TypeOK

--------------------------------------------------------------------------------
\* The directory is created by a process that finds nobody holding it.
LEMMA BeginCloneIInv ==
    ASSUME IInv, NEW p \in Process, BeginClone(p)
    PROVE  IInv'
  <1>1. TypeOK'
    BY DEF BeginClone, Goto, IInv, TypeOK
  <1>2. \A q \in Process : ~Holds(q)
    BY FolderAssumption DEF BeginClone, DirectoryFree, IInv, HoldInv, TypeOK, Folder
  <1>3. HoldInv'
    BY <1>2 DEF BeginClone, Goto, IInv, HoldInv, Holds, TypeOK
  <1>4. CopyInv'
    BY DEF BeginClone, Goto, IInv, CopyInv, Copying, TypeOK
  <1>5. MixtureIsExplained'
    BY DEF BeginClone, Goto, IInv, MixtureIsExplained, Copying, OfOneVersion, TypeOK
  <1>6. QED
    BY <1>1, <1>3, <1>4, <1>5 DEF IInv

\* git itself, and the checkout: only the clone changes.
LEMMA CloneIInv ==
    ASSUME IInv, NEW p \in Process,
           EndClone(p) \/ Checkout(p) \/ \E l \in {"failed", "killed"} : GitGivesUp(p, l)
    PROVE  IInv'
  <1>1. TypeOK'
    BY DEF EndClone, GitGivesUp, Checkout, CheckedOut, Goto, IInv, TypeOK
  <1>2. Holds(p) /\ ~Copying(p)
    BY DEF EndClone, GitGivesUp, Checkout, Holds, Copying
  <1>3. HoldInv'
    BY <1>2 DEF EndClone, GitGivesUp, Checkout, CheckedOut, Goto, IInv, HoldInv, Holds, TypeOK
  <1>4. CopyInv'
    BY <1>2 DEF EndClone, GitGivesUp, Checkout, Goto, IInv, CopyInv, Copying, TypeOK
  <1>5. MixtureIsExplained'
    <2>1. UNCHANGED <<made, content, broken, dir>>
      BY DEF EndClone, GitGivesUp, Checkout
    <2>2. \A q \in Process : Copying(q) => Copying(q)'
      BY <1>2 DEF EndClone, GitGivesUp, Checkout, Goto, IInv, TypeOK, Copying
    <2>3. QED
      BY <2>1, <2>2 DEF IInv, MixtureIsExplained, OfOneVersion
  <1>6. QED
    BY <1>1, <1>3, <1>4, <1>5 DEF IInv

\* The new folder is incomplete, and being copied.
LEMMA MakeFolderIInv ==
    ASSUME IInv, NEW p \in Process, MakeFolder(p)
    PROVE  IInv'
  <1>1. TypeOK'
    BY DEF MakeFolder, ToCopy, Goto, IInv, TypeOK
  <1>2. HoldInv'
    BY DEF MakeFolder, Goto, IInv, HoldInv, Holds, TypeOK
  <1>3. CopyInv'
    BY DEF MakeFolder, ToCopy, Goto, IInv, CopyInv, Copying, TypeOK
  <1>4. MixtureIsExplained'
    BY DEF MakeFolder, Goto, IInv, MixtureIsExplained, Copying, OfOneVersion, TypeOK
  <1>5. QED
    BY <1>1, <1>2, <1>3, <1>4 DEF IInv

--------------------------------------------------------------------------------
\* Two folders are never copied into at the same time.
LEMMA OneCopies ==
    ASSUME IInv, NEW p \in Process, Copying(p), NEW q \in Process \ {p}
    PROVE  ~Copying(q)
  BY DEF IInv, HoldInv, Holds, Copying

\* Emptying a file touches no folder but that of its process, which copies it.
LEMMA CreateFileIInv ==
    ASSUME IInv, NEW p \in Process, CreateFile(p)
    PROVE  IInv'
  <1> PICK f \in left[p] : /\ file' = [file EXCEPT ![p] = f]
                           /\ left' = [left EXCEPT ![p] = @ \ {f}]
                           /\ content' = [content EXCEPT ![dir[p]][f] = Partial]
    BY DEF CreateFile
  <1>1. f \in File /\ dir[p] \in Folder /\ TypeOK
    BY DEF IInv, TypeOK
  <1>2. /\ \A d \in Folder \ {dir[p]} : content'[d] = content[d]
        /\ \A g \in File \ {f} : content'[dir[p]][g] = content[dir[p]][g]
        /\ content' \in [Folder -> [File -> {Version[q] : q \in Process} \cup {Head, Partial, None}]]
    BY <1>1 DEF TypeOK
  <1>3. TypeOK'
    BY <1>1, <1>2 DEF CreateFile, Goto, TypeOK
  <1>4. HoldInv'
    BY DEF CreateFile, Goto, IInv, HoldInv, Holds, TypeOK
  <1>5. Copying(p) /\ pc'[p] = "write" /\ dir' = dir /\ made' = made /\ broken' = broken
    BY DEF CreateFile, Goto, Copying, IInv, TypeOK
  <1>6. \A q \in Process \ {p} : ~Copying(q) /\ ~Copying(q)'
    BY <1>5, OneCopies DEF CreateFile, Goto, Copying, IInv, TypeOK
  <1>7. CopyInv'
    <2>1. dir[p] \in made /\ \A g \in File \ left[p] : content[dir[p]][g] = Version[p]
      BY DEF CreateFile, IInv, CopyInv, Copying
    <2>2. left'[p] = left[p] \ {f} /\ file'[p] = f
      BY <1>1 DEF TypeOK
    <2>3. QED
      BY <1>1, <1>2, <1>5, <1>6, <2>1, <2>2 DEF CopyInv
  <1>8. MixtureIsExplained'
    <2> SUFFICES ASSUME NEW d \in made, ~OfOneVersion(d)', d # dir[p]
                 PROVE  d \in broken
      BY <1>5 DEF MixtureIsExplained, Copying
    <2>1. ~OfOneVersion(d)
      BY <1>1, <1>2 DEF OfOneVersion, TypeOK
    <2>2. QED
      BY <1>6, <2>1 DEF IInv, MixtureIsExplained
  <1>9. QED
    BY <1>3, <1>4, <1>7, <1>8 DEF IInv

\* What is written is of the version that is checked out.
LEMMA WriteFileIInv ==
    ASSUME IInv, NEW p \in Process, WriteFile(p)
    PROVE  IInv'
  <1> DEFINE f == file[p]
  <1>1. /\ TypeOK /\ dir[p] \in Folder /\ Copying(p) /\ f \in File \ left[p]
        /\ repoAt = Version[p] /\ pc'[p] = "copy"
        /\ dir' = dir /\ made' = made /\ broken' = broken /\ left' = left
    BY DEF WriteFile, Goto, IInv, TypeOK, HoldInv, CopyInv, Copying
  <1>2. /\ content'[dir[p]][f] = Version[p]
        /\ \A d \in Folder \ {dir[p]} : content'[d] = content[d]
        /\ \A g \in File \ {f} : content'[dir[p]][g] = content[dir[p]][g]
        /\ content' \in [Folder -> [File -> {Version[q] : q \in Process} \cup {Head, Partial, None}]]
    BY <1>1 DEF WriteFile, TypeOK
  <1>3. TypeOK'
    BY <1>1, <1>2 DEF WriteFile, Goto, TypeOK
  <1>4. HoldInv'
    BY DEF WriteFile, Goto, IInv, HoldInv, Holds, TypeOK
  <1>5. \A q \in Process \ {p} : ~Copying(q) /\ ~Copying(q)'
    BY <1>1, OneCopies DEF WriteFile, Goto, Copying, TypeOK
  <1>6. CopyInv'
    <2>1. dir[p] \in made
          /\ \A g \in File \ left[p] : content[dir[p]][g] = Version[p] \/ g = f
      BY <1>1 DEF IInv, CopyInv
    <2>2. QED
      BY <1>1, <1>2, <1>5, <2>1 DEF CopyInv
  <1>7. MixtureIsExplained'
    <2> SUFFICES ASSUME NEW d \in made, ~OfOneVersion(d)', d # dir[p]
                 PROVE  d \in broken
      BY <1>1 DEF MixtureIsExplained, Copying
    <2>1. ~OfOneVersion(d)
      BY <1>1, <1>2 DEF OfOneVersion, TypeOK
    <2>2. QED
      BY <1>1, <1>5, <2>1 DEF IInv, MixtureIsExplained
  <1>8. QED
    BY <1>3, <1>4, <1>6, <1>7 DEF IInv

\* At the end of the copy the folder is of one version, so that nothing is left to explain.
LEMMA RemoveCloneIInv ==
    ASSUME IInv, NEW p \in Process, RemoveClone(p)
    PROVE  IInv'
  <1>1. TypeOK'
    BY DEF RemoveClone, NextFolder, Fetch, Goto, IInv, TypeOK, Folder
  <1>2. /\ TypeOK /\ Copying(p) /\ Holds(p) /\ pc[p] = "copy" /\ left[p] = {}
        /\ pc'[p] \in {"stat", "ready"}
        /\ \A q \in Process \ {p} : pc'[q] = pc[q] /\ dir'[q] = dir[q]
        /\ made' = made /\ content' = content /\ broken' = broken \ {dir[p]}
        /\ left' = left /\ file' = file
    BY DEF RemoveClone, AllCopied, NextFolder, Fetch, Goto, IInv, TypeOK, Copying, Holds
  <1>3. \A q \in Process : ~Holds(q)'
    BY <1>2 DEF IInv, HoldInv, Holds
  <1>4. HoldInv'
    BY <1>3 DEF HoldInv, Holds
  <1>5. CopyInv'
    BY <1>3 DEF CopyInv, Copying, Holds
  <1>6. OfOneVersion(dir[p])
    BY <1>2 DEF IInv, CopyInv, OfOneVersion
  <1>7. MixtureIsExplained'
    <2> SUFFICES ASSUME NEW d \in made, ~OfOneVersion(d)
                 PROVE  d \in broken \ {dir[p]}
      BY <1>2 DEF MixtureIsExplained, OfOneVersion
    <2>1. d # dir[p]
      BY <1>6
    <2>2. \A q \in Process \ {p} : ~Copying(q)
      BY <1>2, OneCopies
    <2>3. QED
      BY <2>1, <2>2 DEF IInv, MixtureIsExplained
  <1>8. QED
    BY <1>1, <1>4, <1>5, <1>7 DEF IInv

\* Steps that change nothing keep the invariant.
LEMMA StutterIInv ==
    ASSUME IInv, UNCHANGED vars
    PROVE  IInv'
  BY DEF IInv, TypeOK, HoldInv, CopyInv, MixtureIsExplained, OfOneVersion, Holds, Copying, vars

--------------------------------------------------------------------------------
\* The inductive invariant: who holds the clone, what has been copied from it, and
\* why a folder may not be of one version.
THEOREM Invariance == Spec => []IInv
  <1>1. IInv /\ [Next]_vars => IInv'
    <2> SUFFICES ASSUME IInv, [Next]_vars PROVE IInv'
      OBVIOUS
    <2>1. ASSUME NEW p \in Process, Work(p) PROVE IInv'
      BY <2>1, BeginIInv, StatIInv, BeginCloneIInv, CloneIInv, MakeFolderIInv,
         CreateFileIInv, WriteFileIInv, RemoveCloneIInv, AbortIInv
      DEF Work, RefuseClone, FailClone, Fail
    <2>2. ASSUME NEW p \in Process, Kill(p) \/ Restart(p) PROVE IInv'
      BY <2>2, AbortIInv, CloneIInv, RestartIInv DEF Kill
    <2>3. CASE AllOver \/ UNCHANGED vars
      BY <2>3, StutterIInv DEF AllOver
    <2>4. QED
      BY <2>1, <2>2, <2>3 DEF Next
  <1>2. QED
    BY InitIInv, <1>1, PTL DEF Spec

\* Every variable keeps to its type.
THEOREM TypeCorrect == Spec => []TypeOK
  <1>1. IInv => TypeOK
    BY DEF IInv
  <1>2. QED
    BY Invariance, <1>1, PTL

\* The directory of the clone excludes all processes but one.
THEOREM DirectoryIsLock == Spec => []CloneExclusive
  <1>1. IInv => CloneExclusive
    BY DEF IInv, HoldInv, CloneExclusive
  <1>2. QED
    BY Invariance, <1>1, PTL

\* What has been copied is of the version of the process that copies.
THEOREM CopyIsOfOneVersion == Spec => []CopiedInOneVersion
  <1>1. IInv => CopiedInOneVersion
    BY DEF IInv, CopyInv, Copying, CopiedInOneVersion
  <1>2. QED
    BY Invariance, <1>1, PTL

\* A folder has its files of one version except during a copy or after a broken one.
THEOREM MixtureExplained == Spec => []MixtureIsExplained
  <1>1. IInv => MixtureIsExplained
    BY DEF IInv
  <1>2. QED
    BY Invariance, <1>1, PTL

--------------------------------------------------------------------------------
\* What a step of a process does to who holds the clone: it is the only step that
\* does, the holder is the only process that touches the folders, and whoever takes
\* the directory finds it free.
LEMMA StepOfOne ==
    ASSUME IInv, NEW p \in Process, Work(p) \/ Kill(p) \/ Restart(p)
    PROVE  /\ \A q \in Process \ {p} : Holds(q)' <=> Holds(q)
           /\ ~Holds(p) => UNCHANGED <<made, content>>
           /\ \/ ~Holds(p) /\ ~Holds(p)' /\ UNCHANGED repoOf
              \/ ~Holds(p) /\ Holds(p)' /\ repoOf = None /\ repoOf' # None
              \/ Holds(p) /\ Holds(p)' /\ UNCHANGED repoOf
              \/ Holds(p) /\ ~Holds(p)' /\ (UNCHANGED repoOf \/ repoOf' = None)
  <1> USE DEF IInv, TypeOK, Holds, Goto, Fetch, NextFolder, Abort
  <1>1. CASE Begin(p) \/ Stat(p) \/ Restart(p)
    BY <1>1 DEF Begin, Stat, Restart
  <1>2. CASE BeginClone(p)
    BY <1>2, FolderAssumption DEF BeginClone, DirectoryFree, Folder
  <1>3. CASE RefuseClone(p) \/ Fail(p) \/ Kill(p)
    BY <1>3 DEF RefuseClone, Fail, Kill, GitGivesUp
  <1>4. CASE EndClone(p) \/ Checkout(p) \/ MakeFolder(p) \/ CreateFile(p) \/ WriteFile(p)
    BY <1>4 DEF EndClone, Checkout, MakeFolder, CreateFile, WriteFile
  <1>5. CASE FailClone(p) \/ RemoveClone(p)
    BY <1>5 DEF FailClone, GitGivesUp, RemoveClone
  <1>6. QED
    BY <1>1, <1>2, <1>3, <1>4, <1>5 DEF Work

\* A process that holds the clone is the only one, and the directory is there.
LEMMA OneHolder ==
    ASSUME IInv, NEW p \in Process, Holds(p)
    PROVE  {q \in Process : Holds(q)} = {p} /\ repoOf # None
  BY FolderAssumption DEF IInv, HoldInv, TypeOK, Folder

\* The directory of the clone is a lock that is taken only when it is free and given
\* back only by its holder; a process that fails with it leaves it taken.
THEOREM LockImplemented == Spec => LockKept
  <1>1. Init => Lock!Init
    BY DEF Init, Lock!Init, Holds
  <1>2. IInv /\ [Next]_vars => [Lock!Next]_Lock!vars
    <2> SUFFICES ASSUME IInv, [Next]_vars PROVE [Lock!Next]_Lock!vars
      OBVIOUS
    <2> DEFINE holder == {q \in Process : Holds(q)}
               after == {q \in Process : Holds(q)'}
    <2>1. ASSUME NEW p \in Process, Work(p) \/ Kill(p) \/ Restart(p)
          PROVE  [Lock!Next]_Lock!vars
      <3>1. \A q \in Process \ {p} : Holds(q)' <=> Holds(q)
        BY <2>1, StepOfOne
      <3>2. CASE (Holds(p)' <=> Holds(p)) /\ UNCHANGED repoOf
        <4>1. after = holder
          BY <3>1, <3>2
        <4>2. QED
          BY <3>2, <4>1 DEF Lock!vars
      <3>3. CASE ~Holds(p) /\ Holds(p)' /\ repoOf = None /\ repoOf' # None
        <4>1. \A q \in Process : ~Holds(q)
          BY <3>3, OneHolder
        <4>2. after = {p}
          BY <3>1, <3>3, <4>1
        <4>3. QED
          BY <3>3, <4>2 DEF Lock!Next, Lock!Acquire
      <3>4. CASE Holds(p) /\ ~Holds(p)' /\ (UNCHANGED repoOf \/ repoOf' = None)
        <4>1. holder = {p} /\ repoOf # None
          BY <3>4, OneHolder
        <4>2. after = {}
          <5>1. \A q \in Process \ {p} : ~Holds(q)
            BY <3>4 DEF IInv, HoldInv
          <5>2. QED
            BY <3>1, <3>4, <5>1
        <4>3. CASE UNCHANGED repoOf
          BY <4>1, <4>2, <4>3 DEF Lock!Next, Lock!Abandon
        <4>4. CASE repoOf' = None
          BY <4>1, <4>2, <4>4 DEF Lock!Next, Lock!Release
        <4>5. QED
          BY <3>4, <4>3, <4>4
      <3>5. QED
        BY <2>1, <3>2, <3>3, <3>4, StepOfOne
    <2>2. CASE AllOver \/ UNCHANGED vars
      BY <2>2 DEF AllOver, vars, Holds, Lock!vars
    <2>3. QED
      BY <2>1, <2>2 DEF Next
  <1>3. QED
    BY Invariance, <1>1, <1>2, PTL DEF Spec, LockKept, Lock!Spec

--------------------------------------------------------------------------------
\* Numbers of files are numbers, and one that is taken out is one less.
LEMMA Files ==
    ASSUME IInv, NEW p \in Process
    PROVE  /\ Cardinality(File) \in Nat /\ Cardinality(left[p]) \in Nat
           /\ \A f \in left[p] : Cardinality(left[p] \ {f}) = Cardinality(left[p]) - 1
  <1>1. left[p] \in SUBSET File
    BY DEF IInv, TypeOK
  <1>2. IsFiniteSet(left[p])
    BY <1>1, FileAssumption, FS_Subset
  <1>3. QED
    BY <1>2, FileAssumption, FS_CardinalityType, FS_RemoveElement

\* A step of a process that is not over leaves the others and counts down.
LEMMA WorkCounts ==
    ASSUME IInv, NEW p \in Process, Work(p) \/ Kill(p), ~Over(p)
    PROVE  0 <= StepsLeft(p)' /\ StepsLeft(p)' < StepsLeft(p)
  <1> DEFINE n == Cardinality(File)
             m == Cardinality(left[p])
             N == Cardinality(left'[p])
             rest == IF dir[p] = "node" THEN FolderSteps ELSE 0
  <1>1. n \in Nat /\ m \in Nat /\ \A f \in left[p] : Cardinality(left[p] \ {f}) = m - 1
    BY Files
  <1>2. FolderSteps = 2 * n + 6 /\ rest \in Nat
    BY <1>1 DEF FolderSteps
  <1> HIDE DEF n, m, N, rest
  <1>3. /\ pc[p] \in {"start", "stat", "clone", "cloning", "checkout", "mkdir", "copy",
                       "write"}
        /\ dir[p] \in Folder
    BY DEF IInv, TypeOK, Over
  <1>4. /\ pc[p] = "start" => StepsLeft(p) = 2 * (2 * n + 6) + 1
        /\ pc[p] = "stat" => StepsLeft(p) = 2 * n + 6 + rest
        /\ pc[p] = "clone" => StepsLeft(p) = 2 * n + 5 + rest
        /\ pc[p] = "cloning" => StepsLeft(p) = 2 * n + 4 + rest
        /\ pc[p] = "checkout" => StepsLeft(p) = 2 * n + 3 + rest
        /\ pc[p] = "mkdir" => StepsLeft(p) = 2 * n + 2 + rest
        /\ pc[p] = "copy" => StepsLeft(p) = 2 * m + 1 + rest
        /\ pc[p] = "write" => StepsLeft(p) = 2 * m + 2 + rest
    BY <1>1, <1>2 DEF StepsLeft, StepsInFolder, Over, m, rest
  <1>5. CASE pc'[p] \in {"ready", "skipped", "failed", "killed"}
    <2>1. StepsLeft(p)' = 0
      BY <1>5 DEF StepsLeft, Over
    <2>2. StepsLeft(p) > 0
      BY <1>1, <1>2, <1>3, <1>4
    <2>3. QED
      BY <2>1, <2>2
  <1>6. ASSUME dir'[p] = dir[p], N \in Nat
        PROVE  /\ pc'[p] = "clone" => StepsLeft(p)' = 2 * n + 5 + rest
               /\ pc'[p] = "cloning" => StepsLeft(p)' = 2 * n + 4 + rest
               /\ pc'[p] = "checkout" => StepsLeft(p)' = 2 * n + 3 + rest
               /\ pc'[p] = "mkdir" => StepsLeft(p)' = 2 * n + 2 + rest
               /\ pc'[p] = "copy" => StepsLeft(p)' = 2 * N + 1 + rest
               /\ pc'[p] = "write" => StepsLeft(p)' = 2 * N + 2 + rest
    BY <1>1, <1>2, <1>6 DEF StepsLeft, StepsInFolder, Over, N, rest, FolderSteps, n
  <1>7. ASSUME pc'[p] = "stat", dir'[p] = "proxy" PROVE StepsLeft(p)' = 2 * n + 6
    BY <1>1, <1>7 DEF StepsLeft, StepsInFolder, Over, FolderSteps, n
  <1>8. ASSUME pc'[p] = "stat", dir'[p] = "node" PROVE StepsLeft(p)' = 2 * (2 * n + 6)
    BY <1>1, <1>8 DEF StepsLeft, StepsInFolder, Over, FolderSteps, n
  <1> USE DEF IInv, TypeOK, Goto, Fetch, NextFolder
  <1>9. CASE Begin(p)
    BY <1>1, <1>4, <1>5, <1>8, <1>9 DEF Begin
  <1>10. CASE Stat(p)
    <2>1. pc[p] = "stat"
      BY <1>10 DEF Stat
    <2>2. CASE dir[p] = "node" /\ pc'[p] = "stat" /\ dir'[p] = "proxy"
      BY <1>1, <1>2, <1>4, <1>7, <2>1, <2>2 DEF rest
    <2>3. CASE pc'[p] = "ready"
      BY <1>5, <2>3
    <2>4. CASE pc'[p] = "clone" /\ UNCHANGED <<dir, left>>
      BY <1>1, <1>2, <1>4, <1>6, <2>1, <2>4 DEF N, m
    <2>5. QED
      BY <1>10, <2>2, <2>3, <2>4 DEF Stat
  <1>11. CASE BeginClone(p) \/ EndClone(p) \/ Checkout(p)
    <2>1. /\ UNCHANGED <<dir, left>>
          /\ \/ pc[p] = "clone" /\ pc'[p] = "cloning"
             \/ pc[p] = "cloning" /\ pc'[p] = "checkout"
             \/ pc[p] = "checkout" /\ pc'[p] = "mkdir"
      BY <1>11 DEF BeginClone, EndClone, Checkout
    <2>2. N \in Nat
      BY <1>1, <2>1 DEF N, m
    <2>3. QED
      BY <1>1, <1>2, <1>4, <1>6, <2>1, <2>2
  <1>12. CASE MakeFolder(p)
    <2>1. pc[p] = "mkdir" /\ pc'[p] = "copy" /\ UNCHANGED dir /\ N = n
      BY <1>12 DEF MakeFolder, ToCopy, N, n
    <2>2. QED
      BY <1>1, <1>2, <1>4, <1>6, <2>1
  <1>13. CASE CreateFile(p)
    <2>1. PICK f \in left[p] : left' = [left EXCEPT ![p] = @ \ {f}]
      BY <1>13 DEF CreateFile
    <2>2. pc[p] = "copy" /\ pc'[p] = "write" /\ UNCHANGED dir /\ N = m - 1
      BY <1>1, <1>13, <2>1 DEF CreateFile, N
    <2>3. N \in Nat
      BY <2>1, Files, <1>1, FileAssumption, FS_Subset, FS_CardinalityType DEF N
    <2>4. QED
      BY <1>1, <1>2, <1>4, <1>6, <2>2, <2>3
  <1>14. CASE WriteFile(p)
    <2>1. pc[p] = "write" /\ pc'[p] = "copy" /\ UNCHANGED <<dir, left>>
      BY <1>14 DEF WriteFile
    <2>2. N = m
      BY <2>1 DEF N, m
    <2>3. QED
      BY <1>1, <1>2, <1>4, <1>6, <2>1, <2>2
  <1>15. CASE RemoveClone(p)
    <2>1. pc[p] = "copy"
      BY <1>15 DEF RemoveClone
    <2>2. CASE dir[p] = "node" /\ pc'[p] = "stat" /\ dir'[p] = "proxy"
      BY <1>1, <1>2, <1>4, <1>7, <2>1, <2>2 DEF rest
    <2>3. CASE pc'[p] = "ready"
      BY <1>5, <2>3
    <2>4. QED
      BY <1>15, <2>2, <2>3 DEF RemoveClone
  <1>16. CASE RefuseClone(p) \/ FailClone(p) \/ Fail(p) \/ Kill(p)
    <2>1. pc'[p] \in {"failed", "killed"}
      BY <1>16 DEF RefuseClone, FailClone, GitGivesUp, Fail, Kill, Abort
    <2>2. QED
      BY <1>5, <2>1
  <1>17. QED
    BY <1>9, <1>10, <1>11, <1>12, <1>13, <1>14, <1>15, <1>16 DEF Work

\* Every step of a process changes where it is, and nothing of the others.
LEMMA Moves ==
    ASSUME IInv, NEW p \in Process, Work(p) \/ Kill(p) \/ Restart(p)
    PROVE  /\ ~(pc'[p] = pc[p] /\ dir'[p] = dir[p])
           /\ \A q \in Process \ {p} :
                  pc'[q] = pc[q] /\ dir'[q] = dir[q] /\ left'[q] = left[q]
  <1> USE DEF IInv, TypeOK, Goto, Fetch, NextFolder, Abort
  <1>1. CASE Work(p)
    BY <1>1 DEF Work, Begin, Stat, BeginClone, RefuseClone, EndClone, FailClone, GitGivesUp,
                Checkout,                MakeFolder, CreateFile, WriteFile, RemoveClone, Fail
  <1>2. CASE Kill(p)
    BY <1>2 DEF Kill, GitGivesUp, Holds
  <1>3. CASE Restart(p)
    BY <1>3 DEF Restart
  <1>4. QED
    BY <1>1, <1>2, <1>3

\* The variant of a start: with the fairness of Work it is why every start comes to
\* an end.
THEOREM StepsCounted == Spec => EveryStepCounts
  <1>1. IInv /\ [Next]_vars => [\A p \in Process : StepCounts(p)]_vars
    <2> SUFFICES ASSUME IInv, [Next]_vars, NEW q \in Process PROVE StepCounts(q)
      OBVIOUS
    <2>1. ASSUME pc'[q] = pc[q], dir'[q] = dir[q], left'[q] = left[q] PROVE StepCounts(q)
      BY <2>1 DEF StepCounts, StepsLeft, StepsInFolder, FolderSteps, Over
    <2>2. ASSUME NEW p \in Process, Work(p) \/ Kill(p) \/ Restart(p) PROVE StepCounts(q)
      <3>1. CASE p # q
        BY <2>1, <2>2, <3>1, Moves
      <3>2. CASE p = q /\ (Work(p) \/ Kill(p))
        BY <3>2, WorkCounts, Moves DEF StepCounts
      <3>3. CASE p = q /\ Restart(p)
        BY <3>3 DEF StepCounts, Restart, Over
      <3>4. QED
        BY <2>2, <3>1, <3>2, <3>3
    <2>3. CASE AllOver \/ UNCHANGED vars
      BY <2>1, <2>3 DEF AllOver, vars
    <2>4. QED
      BY <2>2, <2>3 DEF Next
  <1>2. QED
    BY Invariance, <1>1, PTL DEF Spec, EveryStepCounts
===============================================================================
