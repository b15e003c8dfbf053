------------------------------ MODULE StartupProofs ----------------------------
(* Theorems about Startup, for all override files, arguments, numbers of          *)
(* validators, shards and wallets.                                                *)
EXTENDS Startup, SequenceTheorems, TLAPS

\* The statements of main from one of them on.
FromCreate == {"create", "started"}
FromPem == {"pem"} \cup FromCreate
FromAdapt == {"adapt"} \cup FromPem
FromLoad == {"load"} \cup FromAdapt
FromReady == {"ready", "copy"} \cup FromLoad
FromBuild == {"build", "built"} \cup FromReady
FromAlter == {"alter"} \cup FromBuild
FromNumbers == {"numbers", "closed"} \cup FromAlter
FromRead == {"read"} \cup FromNumbers

\* v is what the last of the first n files that mention o says of it.
FileSays(o, v, content, list, n) ==
    \E k \in 1 .. n : /\ LastSays(o, v, content[list[k]])
                      /\ \A l \in 1 .. n : l > k => ~Overrides(o, content[list[l]])

FileMentions(o, content, list, n) == \E k \in 1 .. n : Overrides(o, content[list[k]])

\* A list of overrides says what the first n files say.
SaysWhatFilesSay(all, content, list, n) ==
    /\ \A k \in 1 .. n : content[list[k]] # Unreadable
    /\ \A k \in 1 .. n : \A i \in DOMAIN content[list[k]] :
           \E j \in DOMAIN all : all[j] = content[list[k]][i]
    /\ \A o \in Option : Overrides(o, all) <=> FileMentions(o, content, list, n)
    /\ \A o \in Option, v \in Value : LastSays(o, v, all) <=> FileSays(o, v, content, list, n)

\* The merged list is that of the files that have been read.
MergeInv ==
    /\ main = "files" => read = 0 /\ merged = <<>>
    /\ main \in FromRead => files = WithDefault(argument)
    /\ main \in FromNumbers => read = Len(files)
    /\ main \in FromRead => SaysWhatFilesSay(merged, disk, files, read)

\* A configuration is that of the folder with the first n overrides assigned.
Assigned(conf, all, n) ==
    /\ \A o \in Option :
           \/ \E i \in 1 .. n : /\ all[i].option = o /\ all[i].value = conf[o]
                                /\ \A j \in 1 .. n : j > i => all[j].option # o
           \/ conf[o] = Own[o] /\ \A i \in 1 .. n : all[i].option # o
    /\ \A i \in 1 .. n : all[i].value \notin Refused

\* The overrides are assigned in their order, all of them unless there is an error.
ApplyInv ==
    /\ main \in {"files", "read", "numbers", "closed"} => applied = 0
    /\ Assigned(config, merged, applied)
    /\ main \in FromBuild /\ ~alterConfigsError => applied = Len(merged)
    /\ main \in FromReady => ~alterConfigsError

NumberInv ==
    main \in FromAlter =>
        \A g \in Group : Accepted(given[g], g) /\ passed[g] = ToUint32(given[g])

\* A file of keys begins with those that have been written; what is behind them is
\* what was there in the old file.
Begins(blocks, first, old) ==
    /\ Len(first) <= Len(blocks)
    /\ \A i \in 1 .. Len(first) : blocks[i] = first[i]
    /\ \A i, j \in 1 .. Len(first) : i # j => first[i] # first[j]
    /\ \A i \in 1 .. Len(blocks) : i > Len(first) => i \in 1 .. Len(old) /\ blocks[i] = old[i]
    /\ Len(old) <= Len(blocks)

PemInv ==
    /\ main \notin FromPem \cup {"failed"} => written = <<>>
    /\ main \in FromLoad => Begins(pem, written, oldPem)
    /\ main \in FromCreate => WrittenAll

ProxyInv ==
    /\ main \in FromPem => observers = Observers
    /\ main \in FromCreate => serverPort = proxyURL /\ serverPort # 0

IInv == TypeOK /\ MergeInv /\ ApplyInv /\ NumberInv /\ PemInv /\ ProxyInv

--------------------------------------------------------------------------------
\* Of two lists one behind the other, the second has the last word.
LEMMA ConcatSays ==
    ASSUME NEW s \in Seq(Override), NEW t \in Seq(Override), NEW o, NEW v
    PROVE  /\ Overrides(o, s \o t) <=> Overrides(o, s) \/ Overrides(o, t)
           /\ LastSays(o, v, s \o t) <=>
                  LastSays(o, v, t) \/ (LastSays(o, v, s) /\ ~Overrides(o, t))
           /\ \A i \in DOMAIN s : \E j \in DOMAIN (s \o t) : (s \o t)[j] = s[i]
           /\ \A i \in DOMAIN t : \E j \in DOMAIN (s \o t) : (s \o t)[j] = t[i]
  <1> DEFINE c == s \o t
             n == Len(s)
             m == Len(t)
  <1>1. /\ n \in Nat /\ m \in Nat
        /\ DOMAIN s = 1 .. n /\ DOMAIN t = 1 .. m /\ DOMAIN c = 1 .. (n + m)
        /\ \A i \in 1 .. n : c[i] = s[i]
        /\ \A i \in 1 .. m : c[n + i] = t[i]
    BY ConcatProperties
  <1>2. \A i \in 1 .. (n + m) : i > n => i - n \in 1 .. m /\ c[i] = t[i - n] /\ i = n + (i - n)
    BY <1>1
  <1>3. \A i \in 1 .. m : n + i \in 1 .. (n + m)
    BY <1>1
  <1>4. \A i \in 1 .. n : i \in 1 .. (n + m)
    BY <1>1
  <1> HIDE DEF c, n, m
  <1>5. Overrides(o, c) <=> Overrides(o, s) \/ Overrides(o, t)
    <2>1. Overrides(o, c) => Overrides(o, s) \/ Overrides(o, t)
      <3> SUFFICES ASSUME NEW i \in 1 .. (n + m), c[i].option = o
                   PROVE  Overrides(o, s) \/ Overrides(o, t)
        BY <1>1 DEF Overrides
      <3>1. CASE i > n
        BY <1>1, <1>2, <3>1 DEF Overrides
      <3>2. CASE ~(i > n)
        BY <1>1, <3>2 DEF Overrides
      <3>3. QED
        BY <3>1, <3>2
    <2>2. Overrides(o, s) => Overrides(o, c)
      BY <1>1, <1>4 DEF Overrides
    <2>3. Overrides(o, t) => Overrides(o, c)
      BY <1>1, <1>3 DEF Overrides
    <2>4. QED
      BY <2>1, <2>2, <2>3
  <1>6. ASSUME LastSays(o, v, c) PROVE LastSays(o, v, t) \/ (LastSays(o, v, s) /\ ~Overrides(o, t))
    <2>1. PICK i \in 1 .. (n + m) :
              /\ c[i].option = o /\ c[i].value = v
              /\ \A j \in 1 .. (n + m) : j > i => c[j].option # o
      BY <1>1, <1>6 DEF LastSays
    <2>2. CASE i > n
      <3>1. i - n \in 1 .. m /\ t[i - n].option = o /\ t[i - n].value = v
        BY <1>2, <2>1, <2>2
      <3>2. \A j \in 1 .. m : j > i - n => t[j].option # o
        BY <1>1, <1>3, <2>1
      <3>3. QED
        BY <1>1, <3>1, <3>2 DEF LastSays
    <2>3. CASE ~(i > n)
      <3>1. i \in 1 .. n /\ s[i].option = o /\ s[i].value = v
        BY <1>1, <2>1, <2>3
      <3>2. \A j \in 1 .. n : j > i => s[j].option # o
        BY <1>1, <1>4, <2>1
      <3>3. \A j \in 1 .. m : t[j].option # o
        BY <1>1, <1>3, <2>1, <2>3
      <3>4. QED
        BY <1>1, <3>1, <3>2, <3>3 DEF LastSays, Overrides
    <2>4. QED
      BY <2>2, <2>3
  <1>7. ASSUME LastSays(o, v, t) PROVE LastSays(o, v, c)
    <2>1. PICK i \in 1 .. m :
              /\ t[i].option = o /\ t[i].value = v
              /\ \A j \in 1 .. m : j > i => t[j].option # o
      BY <1>1, <1>7 DEF LastSays
    <2>2. n + i \in 1 .. (n + m) /\ c[n + i].option = o /\ c[n + i].value = v
      BY <1>1, <1>3, <2>1
    <2>3. \A j \in 1 .. (n + m) : j > n + i => c[j].option # o
      BY <1>1, <1>2, <2>1
    <2>4. QED
      BY <1>1, <2>2, <2>3 DEF LastSays
  <1>8. ASSUME LastSays(o, v, s), ~Overrides(o, t) PROVE LastSays(o, v, c)
    <2>1. PICK i \in 1 .. n :
              /\ s[i].option = o /\ s[i].value = v
              /\ \A j \in 1 .. n : j > i => s[j].option # o
      BY <1>1, <1>8 DEF LastSays
    <2>2. i \in 1 .. (n + m) /\ c[i].option = o /\ c[i].value = v
      BY <1>1, <1>4, <2>1
    <2>3. \A j \in 1 .. (n + m) : j > i => c[j].option # o
      <3>1. \A j \in 1 .. m : t[j].option # o
        BY <1>1, <1>8 DEF Overrides
      <3>2. QED
        BY <1>1, <1>2, <2>1, <3>1
    <2>4. QED
      BY <1>1, <2>2, <2>3 DEF LastSays
  <1>9. QED
    BY <1>1, <1>3, <1>4, <1>5, <1>6, <1>7, <1>8 DEF c

\* One more file that can be read.
LEMMA MergeOne ==
    ASSUME NEW all \in Seq(Override), NEW content, NEW list, NEW n \in Nat,
           content[list[n + 1]] \in Seq(Override),
           SaysWhatFilesSay(all, content, list, n)
    PROVE  SaysWhatFilesSay(all \o content[list[n + 1]], content, list, n + 1)
  <1> DEFINE t == content[list[n + 1]]
             c == all \o t
  <1>1. \A k \in 1 .. (n + 1) : k \in 1 .. n \/ k = n + 1
    OBVIOUS
  <1>2. \A k \in 1 .. n : k \in 1 .. (n + 1) /\ n + 1 > k
    OBVIOUS
  <1>3. n + 1 \in 1 .. (n + 1) /\ (\A l \in 1 .. (n + 1) : ~(l > n + 1))
    OBVIOUS
  <1>4. \A k \in 1 .. (n + 1) : content[list[k]] # Unreadable
    BY <1>1, ContentAssumption DEF SaysWhatFilesSay
  <1>5. \A k \in 1 .. (n + 1) : \A i \in DOMAIN content[list[k]] :
            \E j \in DOMAIN c : c[j] = content[list[k]][i]
    <2>1. \A i \in DOMAIN all : \E j \in DOMAIN c : c[j] = all[i]
      BY ConcatSays
    <2>2. \A i \in DOMAIN t : \E j \in DOMAIN c : c[j] = t[i]
      BY ConcatSays
    <2> HIDE DEF c
    <2>3. ASSUME NEW k \in 1 .. n, NEW i \in DOMAIN content[list[k]]
          PROVE  \E j \in DOMAIN c : c[j] = content[list[k]][i]
      <3>1. PICK h \in DOMAIN all : all[h] = content[list[k]][i]
        BY DEF SaysWhatFilesSay
      <3>2. QED
        BY <2>1, <3>1
    <2>4. QED
      BY <1>1, <2>2, <2>3
  <1>6. ASSUME NEW o \in Option
        PROVE  Overrides(o, c) <=> FileMentions(o, content, list, n + 1)
    <2>1. Overrides(o, c) <=> Overrides(o, all) \/ Overrides(o, t)
      BY ConcatSays
    <2>2. Overrides(o, all) <=> FileMentions(o, content, list, n)
      BY DEF SaysWhatFilesSay
    <2>3. FileMentions(o, content, list, n + 1)
              <=> FileMentions(o, content, list, n) \/ Overrides(o, t)
      BY <1>1, <1>2, <1>3 DEF FileMentions
    <2>4. QED
      BY <2>1, <2>2, <2>3
  <1>7. ASSUME NEW o \in Option, NEW v \in Value
        PROVE  LastSays(o, v, c) <=> FileSays(o, v, content, list, n + 1)
    <2>1. LastSays(o, v, c) <=> LastSays(o, v, t) \/ (LastSays(o, v, all) /\ ~Overrides(o, t))
      BY ConcatSays
    <2>2. LastSays(o, v, all) <=> FileSays(o, v, content, list, n)
      BY DEF SaysWhatFilesSay
    <2>3. LastSays(o, v, t) => FileSays(o, v, content, list, n + 1)
      BY <1>3 DEF FileSays
    <2>4. ASSUME FileSays(o, v, content, list, n), ~Overrides(o, t)
          PROVE  FileSays(o, v, content, list, n + 1)
      BY <1>1, <1>2, <2>4 DEF FileSays
    <2>5. ASSUME FileSays(o, v, content, list, n + 1)
          PROVE  LastSays(o, v, t) \/ (FileSays(o, v, content, list, n) /\ ~Overrides(o, t))
      <3>1. PICK k \in 1 .. (n + 1) :
                /\ LastSays(o, v, content[list[k]])
                /\ \A l \in 1 .. (n + 1) : l > k => ~Overrides(o, content[list[l]])
        BY <2>5 DEF FileSays
      <3>2. CASE k = n + 1
        BY <3>1, <3>2
      <3>3. CASE k \in 1 .. n
        BY <1>2, <1>3, <3>1, <3>3 DEF FileSays
      <3>4. QED
        BY <1>1, <3>2, <3>3
    <2>6. QED
      BY <2>1, <2>2, <2>3, <2>4, <2>5
  <1>8. QED
    BY <1>4, <1>5, <1>6, <1>7 DEF SaysWhatFilesSay

\* One more override that can be assigned.
LEMMA AssignOne ==
    ASSUME NEW conf \in [Option -> Value], NEW all \in Seq(Override), NEW n \in Nat,
           n + 1 \in DOMAIN all, Assigned(conf, all, n), all[n + 1].value \notin Refused
    PROVE  Assigned([conf EXCEPT ![all[n + 1].option] = all[n + 1].value], all, n + 1)
  <1> DEFINE p == all[n + 1].option
             new == [conf EXCEPT ![p] = all[n + 1].value]
  <1>1. p \in Option /\ all[n + 1].value \in Value
    <2>1. n + 1 \in 1 .. Len(all)
      BY LenProperties
    <2>2. all[n + 1] \in Override
      BY <2>1, ElementOfSeq
    <2>3. QED
      BY <2>2 DEF Override
  <1>2. \A k \in 1 .. (n + 1) : k \in 1 .. n \/ k = n + 1
    OBVIOUS
  <1>3. \A k \in 1 .. n : k \in 1 .. (n + 1) /\ n + 1 > k
    OBVIOUS
  <1>4. n + 1 \in 1 .. (n + 1) /\ (\A l \in 1 .. (n + 1) : ~(l > n + 1))
    OBVIOUS
  <1>5. new[p] = all[n + 1].value /\ \A o \in Option \ {p} : new[o] = conf[o]
    BY <1>1
  <1> HIDE DEF new
  <1>6. ASSUME NEW o \in Option
        PROVE  \/ \E i \in 1 .. (n + 1) :
                      /\ all[i].option = o /\ all[i].value = new[o]
                      /\ \A j \in 1 .. (n + 1) : j > i => all[j].option # o
               \/ new[o] = Own[o] /\ \A i \in 1 .. (n + 1) : all[i].option # o
    <2>1. CASE o = p
      BY <1>4, <1>5, <2>1
    <2>2. CASE o # p
      <3>1. new[o] = conf[o] /\ all[n + 1].option # o
        BY <1>5, <2>2
      <3>2. CASE \E i \in 1 .. n : /\ all[i].option = o /\ all[i].value = conf[o]
                                   /\ \A j \in 1 .. n : j > i => all[j].option # o
        BY <1>2, <1>3, <3>1, <3>2
      <3>3. CASE conf[o] = Own[o] /\ \A i \in 1 .. n : all[i].option # o
        BY <1>2, <3>1, <3>3
      <3>4. QED
        BY <3>2, <3>3 DEF Assigned
    <2>3. QED
      BY <2>1, <2>2
  <1>7. \A i \in 1 .. (n + 1) : all[i].value \notin Refused
    BY <1>2 DEF Assigned
  <1>8. QED
    BY <1>6, <1>7 DEF Assigned, new

\* One more wallet, whose block replaces what is at its place.
LEMMA WriteOne ==
    ASSUME NEW w \in Wallet, pem \in Seq(FolderKey \cup Wallet), written \in Seq(Wallet),
           oldPem \in Seq(FolderKey), Begins(pem, written, oldPem),
           \A i \in DOMAIN written : written[i] # w
    PROVE  /\ WriteBlock(w) \in Seq(FolderKey \cup Wallet)
           /\ Begins(WriteBlock(w), Append(written, w), oldPem)
  <1> DEFINE n == Len(written) + 1
             m == IF n > Len(pem) THEN n ELSE Len(pem)
             b == WriteBlock(w)
             a == Append(written, w)
  <1>1. n \in Nat /\ m \in Nat /\ n <= m /\ Len(pem) \in Nat /\ n >= 1
        /\ (m = Len(pem) \/ (m = n /\ Len(pem) = n - 1))
    BY DEF Begins
  <1>2. b = [i \in 1 .. m |-> IF i = n THEN w ELSE pem[i]]
    BY DEF WriteBlock
  <1>3. /\ Len(a) = n /\ a[n] = w
        /\ \A i \in 1 .. (n - 1) : a[i] = written[i]
    OBVIOUS
  <1>4. \A i \in 1 .. m : i # n => i \in 1 .. Len(pem)
    BY <1>1
  <1>5. b \in Seq(FolderKey \cup Wallet) /\ Len(b) = m
    <2>1. \A i \in 1 .. m : (IF i = n THEN w ELSE pem[i]) \in FolderKey \cup Wallet
      BY <1>4
    <2>2. b \in [1 .. m -> FolderKey \cup Wallet]
      BY <1>2, <2>1
    <2>3. b \in Seq(FolderKey \cup Wallet)
      <3> HIDE DEF m, b
      <3>1. m \in Nat
        BY <1>1
      <3>2. \A k \in Nat : [1 .. k -> FolderKey \cup Wallet] \subseteq Seq(FolderKey \cup Wallet)
        BY SeqDef
      <3>3. QED
        BY <2>2, <3>1, <3>2
    <2>4. DOMAIN b = 1 .. m /\ DOMAIN b = 1 .. Len(b) /\ Len(b) \in Nat
      BY <2>2, <2>3, LenProperties
    <2>5. QED
      BY <1>1, <2>3, <2>4
  <1>6. \A i \in 1 .. m : b[i] = IF i = n THEN w ELSE pem[i]
    BY <1>2
  <1>7. /\ DOMAIN written = 1 .. (n - 1)
        /\ \A i \in 1 .. n : i \in 1 .. (n - 1) \/ i = n
        /\ \A i \in 1 .. n : i \in 1 .. m
        /\ \A i \in 1 .. (n - 1) : i # n
    BY <1>1
  <1> HIDE DEF n, m, b, a
  <1>8. \A i \in 1 .. n : b[i] = a[i]
    <2>1. \A i \in 1 .. (n - 1) : pem[i] = written[i]
      BY DEF Begins, n
    <2>2. QED
      BY <1>3, <1>6, <1>7, <2>1
  <1>9. \A i, j \in 1 .. n : i # j => a[i] # a[j]
    <2>1. \A i, j \in 1 .. (n - 1) : i # j => written[i] # written[j]
      BY DEF Begins, n
    <2>2. QED
      BY <1>3, <1>7, <2>1
  <1>10. \A i \in 1 .. m : i > n => i \in 1 .. Len(oldPem) /\ b[i] = oldPem[i]
    <2>1. \A i \in 1 .. m : i > n => i \in 1 .. Len(pem) /\ i > Len(written) /\ b[i] = pem[i]
      BY <1>1, <1>4, <1>6 DEF n
    <2>2. QED
      BY <2>1 DEF Begins
  <1>11. Len(oldPem) <= m
    BY <1>1 DEF Begins
  <1>12. QED
    BY <1>1, <1>3, <1>5, <1>8, <1>9, <1>10, <1>11 DEF Begins, a, b

--------------------------------------------------------------------------------
\* The invariant holds when main begins.
LEMMA InitIInv == Init => IInv
  <1> SUFFICES ASSUME Init PROVE IInv
    OBVIOUS
  <1>1. main = "files" /\ read = 0 /\ merged = <<>> /\ applied = 0 /\ written = <<>>
        /\ config = Own /\ alterConfigsError \in BOOLEAN /\ files = <<>>
    BY DEF Init
  <1>2. TypeOK
    BY <1>1, NumberAssumption, ContentAssumption DEF Init, TypeOK
  <1>3. MergeInv /\ NumberInv /\ PemInv /\ ProxyInv
    BY <1>1 DEF MergeInv, NumberInv, PemInv, ProxyInv, FromRead, FromNumbers, FromAlter,
                FromBuild, FromReady, FromLoad, FromAdapt, FromPem, FromCreate
  <1>4. Assigned(Own, <<>>, 0)
    BY DEF Assigned
  <1>5. ApplyInv
    BY <1>1, <1>4 DEF ApplyInv, FromBuild, FromReady, FromLoad, FromAdapt, FromPem, FromCreate
  <1>6. QED
    BY <1>2, <1>3, <1>5 DEF IInv

\* The files: their list, and one after the other.
LEMMA FilesIInv ==
    ASSUME IInv, DetermineOverrideConfigFiles \/ ReadFile \/ FetchConfigs
    PROVE  IInv'
  <1> USE DEF IInv, FromRead, FromNumbers, FromAlter, FromBuild, FromReady, FromLoad, FromAdapt,
              FromPem, FromCreate
  <1>1. CASE DetermineOverrideConfigFiles
    <2> USE <1>1 DEF DetermineOverrideConfigFiles, overrideVars, numberVars, proxyVars
    <2>1. files' \in Seq(File)
      <3>1. argument \in Seq(File) /\ <<DefaultFile>> \in Seq(File)
        BY FileAssumption DEF TypeOK
      <3>2. <<DefaultFile>> \o argument \in Seq(File)
        BY <3>1, ConcatProperties
      <3>3. QED
        BY <3>1, <3>2 DEF WithDefault
    <2>2. TypeOK'
      <3>1. read' = 0 /\ Len(files') \in Nat /\ main' = "read"
        BY <2>1 DEF MergeInv
      <3>2. QED
        BY <2>1, <3>1 DEF TypeOK
    <2>3. SaysWhatFilesSay(<<>>, disk, files', 0)
      BY DEF SaysWhatFilesSay, FileMentions, FileSays, Overrides, LastSays
    <2>4. MergeInv'
      BY <2>3 DEF MergeInv
    <2>5. ApplyInv' /\ NumberInv' /\ PemInv' /\ ProxyInv'
      BY DEF ApplyInv, NumberInv, PemInv, ProxyInv
    <2>6. QED
      BY <2>2, <2>4, <2>5
  <1>2. CASE ReadFile
    <2> USE <1>2 DEF ReadFile, numberVars, proxyVars
    <2>1. /\ read \in Nat /\ read + 1 \in 1 .. Len(files) /\ files[read + 1] \in File
          /\ read' = read + 1 /\ applied = 0 /\ merged \in Seq(Override)
      BY ElementOfSeq DEF TypeOK, ApplyInv
    <2>2. CASE disk[files[read + 1]] # Unreadable
      <3>1. /\ main' = main /\ merged' = merged \o disk[files[read + 1]]
            /\ disk[files[read + 1]] \in Seq(Override)
        BY <2>1, <2>2, ContentAssumption DEF TypeOK
      <3>2. merged' \in Seq(Override)
        BY <2>1, <3>1, ConcatProperties
      <3>3. TypeOK'
        BY <2>1, <3>1, <3>2 DEF TypeOK
      <3>4. SaysWhatFilesSay(merged', disk, files, read + 1)
        BY <2>1, <3>1, MergeOne DEF MergeInv
      <3>5. MergeInv'
        BY <2>1, <3>1, <3>4 DEF MergeInv
      <3>6. Assigned(config, merged', 0)
        BY <2>1 DEF Assigned, ApplyInv
      <3>7. ApplyInv' /\ NumberInv' /\ PemInv' /\ ProxyInv'
        BY <2>1, <3>1, <3>6 DEF ApplyInv, NumberInv, PemInv, ProxyInv
      <3>8. QED
        BY <3>3, <3>5, <3>7
    <2>3. CASE disk[files[read + 1]] = Unreadable
      <3>1. main' = "failed" /\ merged' = <<>>
        BY <2>1, <2>3
      <3>2. TypeOK'
        BY <2>1, <3>1 DEF TypeOK
      <3>3. Assigned(config, <<>>, 0)
        BY <2>1 DEF Assigned, ApplyInv
      <3>4. QED
        BY <2>1, <3>1, <3>2, <3>3 DEF MergeInv, ApplyInv, NumberInv, PemInv, ProxyInv
    <2>4. QED
      BY <2>2, <2>3
  <1>3. CASE FetchConfigs
    <2> USE <1>3 DEF FetchConfigs, overrideVars, numberVars, proxyVars
    <2>1. TypeOK'
      BY DEF TypeOK
    <2>2. QED
      BY <2>1 DEF MergeInv, ApplyInv, NumberInv, PemInv, ProxyInv
  <1>4. QED
    BY <1>1, <1>2, <1>3

\* The numbers of validators, and the overrides one after the other.
LEMMA ArgumentsIInv ==
    ASSUME IInv, CheckNumbers \/ ApplyOverride \/ AllApplied
    PROVE  IInv'
  <1> USE DEF IInv, FromRead, FromNumbers, FromAlter, FromBuild, FromReady, FromLoad, FromAdapt,
              FromPem, FromCreate
  <1>1. CASE CheckNumbers
    <2> USE <1>1 DEF CheckNumbers, overrideVars, proxyVars
    <2>1. given' \in [Group -> Number]
      OBVIOUS
    <2>2. \A n \in Number : ToUint32(n) \in 0 .. Modulus - 1
      BY NumberAssumption DEF ToUint32
    <2>3. passed' \in [Group -> 0 .. Modulus - 1]
      BY <2>1, <2>2 DEF TypeOK
    <2>4. TypeOK'
      BY <2>1, <2>3 DEF TypeOK
    <2>5. NumberInv'
      BY DEF NumberInv
    <2>6. QED
      BY <2>4, <2>5 DEF MergeInv, ApplyInv, PemInv, ProxyInv
  <1>2. CASE ApplyOverride
    <2> USE <1>2 DEF ApplyOverride, numberVars, proxyVars
    <2>1. /\ applied \in Nat /\ applied + 1 \in 1 .. Len(merged)
          /\ merged \in Seq(Override) /\ applied + 1 \in DOMAIN merged
      BY LenProperties DEF TypeOK
    <2>2. merged[applied + 1].option \in Option /\ merged[applied + 1].value \in Value
      <3>1. merged[applied + 1] \in Override
        BY <2>1, ElementOfSeq
      <3>2. QED
        BY <3>1 DEF Override
    <2>3. CASE merged[applied + 1].value \notin Refused
      <3>1. /\ main' = main /\ applied' = applied + 1 /\ alterConfigsError' = alterConfigsError
            /\ config' = [config EXCEPT ![merged[applied + 1].option] = merged[applied + 1].value]
        BY <2>3
      <3>2. Assigned(config', merged, applied')
        BY <2>1, <2>3, <3>1, AssignOne DEF TypeOK, ApplyInv
      <3>3. TypeOK'
        BY <2>1, <2>2, <3>1 DEF TypeOK
      <3>4. QED
        BY <3>1, <3>2, <3>3 DEF MergeInv, ApplyInv, NumberInv, PemInv, ProxyInv
    <2>4. CASE merged[applied + 1].value \in Refused
      <3>1. main' = "build" /\ alterConfigsError' = TRUE /\ UNCHANGED <<config, applied>>
        BY <2>4
      <3>2. TypeOK'
        BY <3>1 DEF TypeOK
      <3>3. QED
        BY <3>1, <3>2 DEF MergeInv, ApplyInv, NumberInv, PemInv, ProxyInv
    <2>5. QED
      BY <2>3, <2>4
  <1>3. CASE AllApplied
    <2> USE <1>3 DEF AllApplied, overrideVars, numberVars, proxyVars
    <2>1. TypeOK'
      BY DEF TypeOK
    <2>2. QED
      BY <2>1 DEF MergeInv, ApplyInv, NumberInv, PemInv, ProxyInv
  <1>4. QED
    BY <1>1, <1>2, <1>3

\* The statements that only move on, with the error that stops an incomplete chain.
LEMMA ChainIInv ==
    ASSUME IInv, BuildChain \/ CheckAlterError \/ PrepareChain \/ CreateProxy \/ Over
                 \/ UNCHANGED vars
    PROVE  IInv'
  <1> USE DEF IInv, FromRead, FromNumbers, FromAlter, FromBuild, FromReady, FromLoad, FromAdapt,
              FromPem, FromCreate
  <1>1. UNCHANGED <<overrideVars, numberVars, proxyVars>>
    BY DEF BuildChain, CheckAlterError, PrepareChain, CreateProxy, Over, vars
  <1>2. \/ main' = main \/ main' = "failed"
        \/ main = "build" /\ main' = "built"
        \/ main = "built" /\ main' = "ready" /\ ~alterConfigsError
        \/ main = "ready" /\ main' = "copy"
        \/ main = "create" /\ main' = "started"
    BY DEF BuildChain, CheckAlterError, PrepareChain, CreateProxy, Over, vars
  <1> USE <1>1, <1>2 DEF overrideVars, numberVars, proxyVars
  <1>3. TypeOK'
    BY DEF TypeOK
  <1>4. MergeInv'
    BY DEF MergeInv
  <1>5. ApplyInv'
    BY DEF ApplyInv
  <1>6. NumberInv' /\ ProxyInv'
    BY DEF NumberInv, ProxyInv
  <1>7. PemInv'
    BY DEF PemInv, WrittenAll
  <1>8. QED
    BY <1>3, <1>4, <1>5, <1>6, <1>7

\* The configuration of the proxy.
LEMMA ProxyIInv ==
    ASSUME IInv, CopyFolder \/ LoadConfig \/ AdaptConfig \/ WriteWallet \/ ChoosePort
    PROVE  IInv'
  <1> USE DEF IInv, FromRead, FromNumbers, FromAlter, FromBuild, FromReady, FromLoad, FromAdapt,
              FromPem, FromCreate
  <1>1. CASE CopyFolder
    <2> USE <1>1 DEF CopyFolder, overrideVars, numberVars
    <2>1. CASE main' = "failed" /\ UNCHANGED <<pem, oldPem>>
      <3>1. TypeOK'
        BY <2>1 DEF TypeOK
      <3>2. QED
        BY <2>1, <3>1 DEF MergeInv, ApplyInv, NumberInv, PemInv, ProxyInv
    <2>2. CASE main' = "load" /\ pem' \in OldPem /\ oldPem' = pem'
      <3>1. pem' \in Seq(FolderKey) /\ pem' \in Seq(FolderKey \cup Wallet)
        BY <2>2, PemAssumption, SeqMonotonic
      <3>2. written' = <<>>
        BY DEF PemInv
      <3>3. TypeOK'
        BY <2>2, <3>1 DEF TypeOK
      <3>4. Begins(pem', <<>>, oldPem')
        BY <2>2, <3>1 DEF Begins
      <3>5. QED
        BY <2>2, <3>2, <3>3, <3>4 DEF MergeInv, ApplyInv, NumberInv, PemInv, ProxyInv
    <2>3. QED
      BY <2>1, <2>2
  <1>2. CASE LoadConfig \/ AdaptConfig
    <2> USE <1>2 DEF LoadConfig, AdaptConfig, ReplaceObservers, overrideVars, numberVars
    <2>1. TypeOK'
      BY DEF TypeOK
    <2>2. UNCHANGED <<pem, oldPem, written>>
      OBVIOUS
    <2>3. PemInv'
      BY <2>2 DEF PemInv
    <2>4. ProxyInv'
      BY DEF ProxyInv
    <2>5. QED
      BY <2>1, <2>3, <2>4 DEF MergeInv, ApplyInv, NumberInv
  <1>3. CASE WriteWallet
    <2> USE <1>3 DEF WriteWallet, overrideVars, numberVars
    <2>1. CASE main' = "failed" /\ UNCHANGED <<pem, written>>
      <3>1. TypeOK'
        BY <2>1 DEF TypeOK
      <3>2. QED
        BY <2>1, <3>1 DEF MergeInv, ApplyInv, NumberInv, PemInv, ProxyInv
    <2>2. CASE main' = main
      <3>1. PICK w \in Wallet : /\ \A i \in DOMAIN written : written[i] # w
                                /\ pem' = WriteBlock(w)
                                /\ written' = Append(written, w)
        BY <2>2
      <3>2. pem' \in Seq(FolderKey \cup Wallet) /\ Begins(pem', written', oldPem)
        BY <3>1, WriteOne DEF TypeOK, PemInv
      <3>3. TypeOK'
        BY <2>2, <3>1, <3>2 DEF TypeOK
      <3>4. QED
        BY <2>2, <3>2, <3>3 DEF MergeInv, ApplyInv, NumberInv, PemInv, ProxyInv
    <2>3. QED
      BY <2>1, <2>2
  <1>4. CASE ChoosePort
    <2> USE <1>4 DEF ChoosePort, overrideVars, numberVars
    <2>1. proxyURL' \in Port /\ serverPort' = proxyURL'
      BY DEF FreePort
    <2>2. proxyURL' # 0
      BY <2>1, PortAssumption
    <2>3. TypeOK'
      BY <2>1 DEF TypeOK
    <2>4. PemInv'
      BY DEF PemInv, WrittenAll
    <2>5. QED
      BY <2>1, <2>2, <2>3, <2>4 DEF MergeInv, ApplyInv, NumberInv, ProxyInv
  <1>5. QED
    BY <1>1, <1>2, <1>3, <1>4

\* The inductive invariant: at every statement of main what has been read, merged,
\* assigned and written is what the arguments, the files and the chain say.
THEOREM Invariance == Spec => []IInv
  <1>1. IInv /\ [Next]_vars => IInv'
    BY FilesIInv, ArgumentsIInv, ChainIInv, ProxyIInv DEF Next, Step
  <1>2. QED
    BY InitIInv, <1>1, PTL DEF Spec

\* Every variable keeps its range, for every value of the constants.
THEOREM TypeCorrect == Spec => []TypeOK
  <1>1. IInv => TypeOK
    BY DEF IInv
  <1>2. QED
    BY Invariance, <1>1, PTL

--------------------------------------------------------------------------------
\* The default file comes before those of the user, or is not read.
LEMMA DefaultFirst ==
    ASSUME NEW list \in Seq(File)
    PROVE  LET all == WithDefault(list) IN
           /\ NamesDefault(list) => all = list
           /\ ~NamesDefault(list) =>
                  /\ Len(all) = Len(list) + 1 /\ all[1] = DefaultFile
                  /\ \A k \in 1 .. Len(list) : all[k + 1] = list[k]
  <1>1. <<DefaultFile>> \in Seq(File) /\ Len(<<DefaultFile>>) = 1 /\ <<DefaultFile>>[1] = DefaultFile
    BY FileAssumption
  <1>2. /\ Len(<<DefaultFile>> \o list) = Len(list) + 1
        /\ (<<DefaultFile>> \o list)[1] = DefaultFile
        /\ \A k \in 1 .. Len(list) : (<<DefaultFile>> \o list)[k + 1] = list[k]
    BY <1>1, ConcatProperties
  <1>3. QED
    BY <1>2 DEF WithDefault

\* A chain in use was built with every override of every file.
LEMMA InUse ==
    ASSUME IInv, ChainInUse
    PROVE  /\ files = WithDefault(argument) /\ argument \in Seq(File)
           /\ read = Len(files) /\ applied = Len(merged) /\ merged \in Seq(Override)
           /\ SaysWhatFilesSay(merged, disk, files, Len(files))
           /\ Assigned(config, merged, Len(merged))
  BY FileAssumption
  DEF IInv, ChainInUse, TypeOK, MergeInv, ApplyInv, FromRead, FromNumbers, FromAlter, FromBuild,
      FromReady, FromLoad, FromAdapt, FromPem, FromCreate

\* Every option has the value that the last file mentioning it says, the default
\* file coming first.
THEOREM LastFileDecides == Spec => []LastFileWins
  <1>1. ASSUME IInv, ChainInUse, NEW o \in Option
        PROVE  \/ \E k \in DOMAIN argument :
                      /\ LastSays(o, config[o], disk[argument[k]])
                      /\ \A l \in DOMAIN argument : l > k => ~Overrides(o, disk[argument[l]])
               \/ /\ \A k \in DOMAIN argument : ~Overrides(o, disk[argument[k]])
                  /\ \/ ~NamesDefault(argument) /\ LastSays(o, config[o], disk[DefaultFile])
                     \/ /\ NamesDefault(argument) \/ ~Overrides(o, disk[DefaultFile])
                        /\ config[o] = Own[o]
    <2> DEFINE a == Len(argument)
               n == Len(files)
    <2>1. /\ argument \in Seq(File) /\ files = WithDefault(argument)
          /\ merged \in Seq(Override) /\ config[o] \in Value
          /\ SaysWhatFilesSay(merged, disk, files, n)
          /\ Assigned(config, merged, Len(merged))
      BY <1>1, InUse DEF IInv, TypeOK
    <2>2. a \in Nat /\ DOMAIN argument = 1 .. a /\ DOMAIN merged = 1 .. Len(merged)
      BY <2>1, LenProperties
    <2>3. \/ FileSays(o, config[o], disk, files, n)
          \/ config[o] = Own[o] /\ ~FileMentions(o, disk, files, n)
      <3>1. LastSays(o, config[o], merged) \/ (config[o] = Own[o] /\ ~Overrides(o, merged))
        BY <2>1, <2>2 DEF Assigned, LastSays, Overrides
      <3>2. QED
        BY <2>1, <3>1 DEF SaysWhatFilesSay
    <2>4. CASE NamesDefault(argument)
      <3>1. files = argument /\ n = a
        BY <2>1, <2>4, DefaultFirst
      <3>2. QED
        BY <2>2, <2>3, <2>4, <3>1 DEF FileSays, FileMentions
    <2>5. CASE ~NamesDefault(argument)
      <3>1. /\ n = a + 1 /\ files[1] = DefaultFile
            /\ \A k \in 1 .. a : files[k + 1] = argument[k] /\ k + 1 \in 1 .. n /\ k + 1 > 1
            /\ 1 \in 1 .. n
        BY <2>1, <2>2, <2>5, DefaultFirst
      <3>2. \A k \in 1 .. n : k = 1 \/ (k - 1 \in 1 .. a /\ files[k] = argument[k - 1])
        <4>1. ASSUME NEW k \in 1 .. n, k # 1 PROVE k - 1 \in 1 .. a /\ k = (k - 1) + 1
          BY <2>2, <3>1, <4>1
        <4>2. QED
          BY <3>1, <4>1
      <3>3. CASE config[o] = Own[o] /\ ~FileMentions(o, disk, files, n)
        BY <2>2, <2>5, <3>1, <3>3 DEF FileMentions
      <3>4. CASE FileSays(o, config[o], disk, files, n)
        <4>1. PICK k \in 1 .. n : /\ LastSays(o, config[o], disk[files[k]])
                                  /\ \A l \in 1 .. n : l > k => ~Overrides(o, disk[files[l]])
          BY <3>4 DEF FileSays
        <4>2. CASE k = 1
          <5>1. \A l \in 1 .. a : ~Overrides(o, disk[argument[l]])
            BY <3>1, <4>1, <4>2
          <5>2. LastSays(o, config[o], disk[DefaultFile])
            BY <3>1, <4>1, <4>2
          <5>3. QED
            BY <2>2, <2>5, <5>1, <5>2
        <4>3. CASE k # 1
          <5>1. k - 1 \in 1 .. a /\ LastSays(o, config[o], disk[argument[k - 1]])
            BY <3>2, <4>1, <4>3
          <5>2. \A l \in 1 .. a : l > k - 1 => ~Overrides(o, disk[argument[l]])
            <6>1. ASSUME NEW l \in 1 .. a, l > k - 1 PROVE l + 1 > k /\ l + 1 \in 1 .. n
              BY <2>2, <3>1, <6>1
            <6>2. QED
              BY <3>1, <4>1, <6>1
          <5>3. QED
            BY <2>2, <5>1, <5>2
        <4>4. QED
          BY <4>2, <4>3
      <3>5. QED
        BY <2>3, <3>3, <3>4
    <2>6. QED
      BY <2>4, <2>5
  <1>2. IInv => LastFileWins
    BY <1>1 DEF LastFileWins
  <1>3. QED
    BY Invariance, <1>2, PTL

\* No chain is used for which a file could not be read or an override not assigned.
THEOREM OverridesAssigned == Spec => []NoOverrideLost
  <1>1. ASSUME IInv, ChainInUse,
               NEW f \in {argument[k] : k \in DOMAIN argument}
                             \cup (IF NamesDefault(argument) THEN {} ELSE {DefaultFile})
        PROVE  /\ disk[f] # Unreadable
               /\ \A i \in DOMAIN disk[f] : disk[f][i].value \notin Refused
    <2>1. /\ argument \in Seq(File) /\ files = WithDefault(argument)
          /\ merged \in Seq(Override) /\ Len(argument) \in Nat
          /\ DOMAIN argument = 1 .. Len(argument) /\ DOMAIN merged = 1 .. Len(merged)
          /\ SaysWhatFilesSay(merged, disk, files, Len(files))
          /\ Assigned(config, merged, Len(merged))
      BY <1>1, InUse, LenProperties
    <2>2. PICK k \in 1 .. Len(files) : files[k] = f
      <3>1. CASE NamesDefault(argument)
        BY <2>1, <3>1, DefaultFirst
      <3>2. CASE ~NamesDefault(argument)
        <4>1. /\ Len(files) = Len(argument) + 1 /\ files[1] = DefaultFile
              /\ \A k \in 1 .. Len(argument) : files[k + 1] = argument[k]
          BY <2>1, <3>2, DefaultFirst
        <4>2. 1 \in 1 .. Len(files) /\ \A k \in 1 .. Len(argument) : k + 1 \in 1 .. Len(files)
          BY <2>1, <4>1
        <4>3. CASE f = DefaultFile
          BY <4>1, <4>2, <4>3
        <4>4. CASE \E k \in 1 .. Len(argument) : f = argument[k]
          BY <4>1, <4>2, <4>4
        <4>5. QED
          BY <2>1, <4>3, <4>4
      <3>3. QED
        BY <3>1, <3>2
    <2>3. disk[f] # Unreadable
      BY <2>1, <2>2 DEF SaysWhatFilesSay
    <2>4. ASSUME NEW i \in DOMAIN disk[f] PROVE disk[f][i].value \notin Refused
      <3>1. PICK j \in DOMAIN merged : merged[j] = disk[f][i]
        BY <2>1, <2>2 DEF SaysWhatFilesSay
      <3>2. QED
        BY <2>1, <3>1 DEF Assigned
    <2>5. QED
      BY <2>3, <2>4
  <1>2. IInv => NoOverrideLost
    BY <1>1 DEF NoOverrideLost
  <1>3. QED
    BY Invariance, <1>2, PTL

\* A number below 2^32 that passes the checks is passed on as it is.
THEOREM NumbersPassedOn == Spec => []ValidatorsAsAsked
  <1>1. ASSUME IInv, ChainInUse, NEW g \in Group
        PROVE  /\ given[g] < Modulus => passed[g] = given[g]
               /\ g \in Required /\ passed[g] = 0 => given[g] >= Modulus
    <2>1. Accepted(given[g], g) /\ passed[g] = ToUint32(given[g]) /\ given[g] \in Int
      <3>1. given[g] \in Int
        <4>1. given[g] \in Number \/ given[g] = 0
          BY <1>1 DEF IInv, TypeOK
        <4>2. CASE given[g] \in Number
          BY <4>2, NumberAssumption
        <4>3. CASE given[g] = 0
          BY <4>3
        <4>4. QED
          BY <4>1, <4>2, <4>3
      <3>2. Accepted(given[g], g) /\ passed[g] = ToUint32(given[g])
        BY <1>1 DEF IInv, ChainInUse, NumberInv, FromAlter, FromBuild, FromReady, FromLoad,
                    FromAdapt, FromPem, FromCreate
      <3>3. QED
        BY <3>1, <3>2
    <2>2. given[g] >= 0 /\ (g \in Required => given[g] >= 1)
      BY <2>1 DEF Accepted
    <2>3. given[g] < Modulus => given[g] % Modulus = given[g]
      BY <2>1, <2>2, NumberAssumption
    <2>4. QED
      BY <2>1, <2>2, <2>3, NumberAssumption DEF ToUint32
  <1>2. IInv => ValidatorsAsAsked
    BY <1>1 DEF ValidatorsAsAsked
  <1>3. QED
    BY Invariance, <1>2, PTL

\* Whatever observers and port config.toml of the folder came with, the proxy asks the
\* nodes of this chain, all of them, and listens where the URL says.
THEOREM ProxyIsOfThisChain == Spec => []ProxyServesThisChain
  <1>1. IInv => ProxyServesThisChain
    BY DEF IInv, ProxyInv, ProxyServesThisChain, FromPem, FromCreate
  <1>2. QED
    BY Invariance, <1>1, PTL

\* Whatever file of keys the folder came with, the initial wallets are in it, each once
\* and before all others; behind them is what was longer of the old file, and no more.
THEOREM PemIsComplete == Spec => []PemHasWallets
  <1>1. ASSUME IInv, main \in {"create", "started"}
        PROVE  /\ \A w \in Wallet : \E i \in DOMAIN pem : pem[i] = w
               /\ \A i, j \in DOMAIN pem :
                      i < j /\ pem[j] \in Wallet => pem[i] \in Wallet \ {pem[j]}
               /\ \A i \in DOMAIN pem :
                      pem[i] \in Wallet \/ (i \in DOMAIN oldPem /\ pem[i] = oldPem[i])
               /\ DOMAIN oldPem \subseteq DOMAIN pem
    <2> DEFINE n == Len(written)
               m == Len(pem)
               l == Len(oldPem)
    <2>1. /\ n \in Nat /\ m \in Nat /\ l \in Nat
          /\ DOMAIN written = 1 .. n /\ DOMAIN pem = 1 .. m /\ DOMAIN oldPem = 1 .. l
          /\ \A i \in 1 .. n : written[i] \in Wallet
          /\ \A i \in 1 .. l : oldPem[i] \in FolderKey
      BY <1>1, LenProperties, ElementOfSeq DEF IInv, TypeOK
    <2>2. Begins(pem, written, oldPem) /\ WrittenAll
      BY <1>1 DEF IInv, PemInv, FromLoad, FromAdapt, FromPem, FromCreate
    <2>3. /\ n <= m /\ l <= m
          /\ \A i \in 1 .. n : i \in 1 .. m /\ pem[i] = written[i]
          /\ \A i, j \in 1 .. n : i # j => written[i] # written[j]
          /\ \A i \in 1 .. m : i > n => i \in 1 .. l /\ pem[i] = oldPem[i]
      BY <2>1, <2>2 DEF Begins
    <2>4. \A i \in 1 .. m : i \in 1 .. n \/ (i > n /\ pem[i] \notin Wallet)
      BY <2>1, <2>3, PemAssumption
    <2>5. \A w \in Wallet : \E i \in 1 .. m : pem[i] = w
      BY <2>1, <2>2, <2>3 DEF WrittenAll
    <2>6. ASSUME NEW i \in 1 .. m, NEW j \in 1 .. m, i < j, pem[j] \in Wallet
          PROVE  pem[i] \in Wallet \ {pem[j]}
      <3>1. i \in 1 .. n /\ j \in 1 .. n
        BY <2>1, <2>4, <2>6
      <3>2. QED
        BY <2>1, <2>3, <2>6, <3>1
    <2>7. \A i \in 1 .. m : pem[i] \in Wallet \/ (i \in 1 .. l /\ pem[i] = oldPem[i])
      BY <2>1, <2>3, <2>4
    <2>8. 1 .. l \subseteq 1 .. m
      BY <2>1, <2>3
    <2>9. QED
      BY <2>1, <2>5, <2>6, <2>7, <2>8
  <1>2. IInv => PemHasWallets
    BY <1>1 DEF PemHasWallets
  <1>3. QED
    BY Invariance, <1>2, PTL
===============================================================================
