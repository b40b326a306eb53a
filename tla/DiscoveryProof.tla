--------------------------- MODULE DiscoveryProof ---------------------------
(***************************************************************************)
(* Proofs about Discovery, for every tree, every metadata and every order  *)
(* in which the directories are read.                                      *)
(***************************************************************************)
EXTENDS Discovery, SequenceTheorems, FiniteSetTheorems, TLAPS

-----------------------------------------------------------------------------
\* Paths.

LEMMA Cuts ==
  ASSUME NEW p \in Seq(Names), NEW n \in 0..Len(p)
  PROVE  /\ Cut(p, n) \in Seq(Names) /\ Len(Cut(p, n)) = n
         /\ \A i \in 1..n : Cut(p, n)[i] = p[i]
<1>1. \A i \in 1..n : p[i] \in Names
  BY ElementOfSeq, LenProperties
<1>2. /\ SubSeq(p, 1, n) \in Seq(Names)
      /\ Len(SubSeq(p, 1, n)) = IF 1 <= n THEN n - 1 + 1 ELSE 0
      /\ \A i \in 1..(n - 1 + 1) : SubSeq(p, 1, n)[i] = p[1 + i - 1]
  BY <1>1, SubSeqProperties, SMTT(30)
<1> QED  BY <1>2, LenProperties DEF Cut

LEMMA WholeCut ==
  ASSUME NEW p \in Seq(Names)
  PROVE  Cut(p, Len(p)) = p
<1>1. Len(p) \in 0..Len(p)
  BY LenProperties
<1> QED  BY <1>1, Cuts, SeqEqual

LEMMA CutOfCut ==
  ASSUME NEW p \in Seq(Names), NEW n \in 0..Len(p), NEW m \in 0..n
  PROVE  Cut(Cut(p, n), m) = Cut(p, m)
<1>1. Len(p) \in Nat
  BY LenProperties
<1>2. /\ Cut(p, n) \in Seq(Names) /\ Len(Cut(p, n)) = n
      /\ \A i \in 1..n : Cut(p, n)[i] = p[i]
  BY Cuts
<1>3. m \in 0..Len(p) /\ m \in 0..Len(Cut(p, n))
  BY <1>1, <1>2
<1>4. /\ Cut(p, m) \in Seq(Names) /\ Len(Cut(p, m)) = m
      /\ \A i \in 1..m : Cut(p, m)[i] = p[i]
  BY <1>3, Cuts
<1>5. /\ Cut(Cut(p, n), m) \in Seq(Names) /\ Len(Cut(Cut(p, n), m)) = m
      /\ \A i \in 1..m : Cut(Cut(p, n), m)[i] = Cut(p, n)[i]
  BY <1>2, <1>3, Cuts
<1> QED  BY <1>2, <1>4, <1>5, SeqEqual

\* What lies below an entry of a directory lies below the directory.
LEMMA WithinTransitive ==
  ASSUME NEW f \in Seq(Names), NEW e \in Seq(Names), NEW d \in Seq(Names),
         Within(f, e), Within(e, d)
  PROVE  Within(f, d)
<1>1. Len(f) \in Nat /\ Len(e) \in Nat /\ Len(d) \in Nat
  BY LenProperties
<1>2. Len(e) \in 0..Len(f) /\ Len(d) \in 0..Len(e)
  BY <1>1 DEF Within
<1>3. Cut(Cut(f, Len(e)), Len(d)) = Cut(f, Len(d))
  BY <1>2, CutOfCut
<1>4. Cut(f, Len(e)) = e /\ Cut(e, Len(d)) = d /\ Len(d) <= Len(f)
  BY <1>1, <1>2 DEF Within
<1>5. Cut(f, Len(d)) = d
  BY <1>3, <1>4, Zenon
<1> QED  BY <1>4, <1>5 DEF Within

LEMMA ReachedItself ==
  ASSUME NEW d \in Seq(Names)
  PROVE  Reached(d, d)
<1>1. Len(d) \in Nat
  BY LenProperties
<1> QED  BY <1>1, WholeCut DEF Reached, Within

\* An entry that the filter lets pass is reached with its directory.
LEMMA AdmittedReached ==
  ASSUME NEW d \in Tree, NEW r \in Tree, NEW e \in Admitted(d), Reached(d, r)
  PROVE  e \in Tree /\ Reached(e, r)
<1>1. /\ e \in Tree /\ Len(e) = Len(d) + 1 /\ Cut(e, Len(d)) = d
      /\ Kind[e] # "link" /\ e[Len(e)] \notin Omitted \cup Unscanned
  BY DEF Admitted, Name
<1>2. e \in Seq(Names) /\ d \in Seq(Names) /\ r \in Seq(Names)
  BY <1>1, OnDisk
<1>3. Len(e) \in Nat /\ Len(d) \in Nat /\ Len(r) \in Nat
  BY <1>2, LenProperties
<1>4. Within(e, d) /\ Within(d, r)
  BY <1>1, <1>3 DEF Within, Reached
<1>5. Within(e, r)
  BY <1>2, <1>4, WithinTransitive
<1>6. ASSUME NEW n \in (Len(r) + 1)..Len(e)
      PROVE  Kind[Cut(e, n)] # "link" /\ e[n] \notin Omitted \cup Unscanned
  <2>1. CASE n = Len(e)
    BY <1>1, <1>2, <2>1, WholeCut
  <2>2. CASE n # Len(e)
    <3>1. n \in (Len(r) + 1)..Len(d) /\ n \in 0..Len(d) /\ Len(d) \in 0..Len(e)
      BY <1>1, <1>3, <2>2
    <3>2. Cut(e, n) = Cut(d, n)
      BY <1>1, <1>2, <3>1, CutOfCut
    <3>3. e[n] = d[n]
      <4>1. n \in 1..Len(d)
        BY <1>3, <3>1
      <4>2. Cut(e, Len(d))[n] = e[n]
        BY <1>2, <3>1, <4>1, Cuts
      <4> QED  BY <1>1, <4>2
    <3> QED  BY <3>1, <3>2, <3>3 DEF Reached
  <2> QED  BY <2>1, <2>2
<1> QED  BY <1>1, <1>5, <1>6 DEF Reached

\* What is reached below a directory is reached below one of the entries that
\* the filter lets pass.
LEMMA ReachedThroughEntry ==
  ASSUME NEW d \in Tree, NEW f \in Tree, f # d, Reached(f, d)
  PROVE  Kind[d] = "dir" /\ \E e \in Admitted(d) : Reached(f, e)
<1>1. f \in Seq(Names) /\ d \in Seq(Names) /\ Len(f) \in Nat /\ Len(d) \in Nat
  BY OnDisk, LenProperties
<1>2. Len(d) <= Len(f) /\ Cut(f, Len(d)) = d
  BY DEF Reached, Within
<1>3. Len(d) < Len(f)
  BY <1>1, <1>2, WholeCut
<1>4. Kind[d] = "dir"
  BY <1>1, <1>2, <1>3, OnDisk
<1> DEFINE m == Len(d) + 1  e == Cut(f, m)
<1>5. m \in 0..Len(f) /\ m \in 1..m /\ m \in (Len(d) + 1)..Len(f) /\ m \in Nat /\ Len(d) \in 0..m
  BY <1>1, <1>3
<1>6. e \in Tree
  <2>1. CASE m = Len(f)
    BY <1>1, <2>1, WholeCut
  <2>2. CASE m # Len(f)
    <3>1. m \in 0..(Len(f) - 1)
      BY <1>1, <1>5, <2>2
    <3> QED  BY <3>1, OnDisk
  <2> QED  BY <2>1, <2>2
<1>7. e \in Seq(Names) /\ Len(e) = m /\ \A i \in 1..m : e[i] = f[i]
  BY <1>1, <1>5, Cuts
<1>8. Kind[e] # "link" /\ f[m] \notin Omitted \cup Unscanned
  BY <1>5 DEF Reached
<1>9. Cut(e, Len(d)) = d
  <2>1. Cut(e, Len(d)) = Cut(f, Len(d))
    BY <1>1, <1>5, CutOfCut
  <2> QED  BY <1>2, <2>1
<1>10. e[Len(e)] = f[m]
  BY <1>5, <1>7
<1> HIDE DEF e
<1>11. e \in Admitted(d)
  <2>1. Len(e) = Len(d) + 1
    BY <1>7
  <2>2. Name(e) \notin Omitted \cup Unscanned
    BY <1>8, <1>10 DEF Name
  <2> QED  BY <1>6, <1>8, <1>9, <2>1, <2>2 DEF Admitted
<1>12. Within(f, e)
  BY <1>5, <1>7 DEF Within, e
<1>13. ASSUME NEW n \in (Len(e) + 1)..Len(f)
       PROVE  Kind[Cut(f, n)] # "link" /\ f[n] \notin Omitted \cup Unscanned
  <2>1. n \in (Len(d) + 1)..Len(f)
    BY <1>1, <1>7
  <2> QED  BY <2>1 DEF Reached
<1> QED  BY <1>4, <1>11, <1>12, <1>13 DEF Reached

\* The other way round: what is reached below an entry is reached below its
\* directory, and below no other entry of it.
LEMMA ReachedFromEntry ==
  ASSUME NEW d \in Tree, NEW f \in Tree, NEW e \in Admitted(d), Reached(f, e)
  PROVE  Reached(f, d)
<1>1. /\ e \in Tree /\ Len(e) = Len(d) + 1 /\ Cut(e, Len(d)) = d
      /\ Kind[e] # "link" /\ e[Len(e)] \notin Omitted \cup Unscanned
  BY DEF Admitted, Name
<1>2. e \in Seq(Names) /\ d \in Seq(Names) /\ f \in Seq(Names)
  BY <1>1, OnDisk
<1>3. Len(e) \in Nat /\ Len(d) \in Nat /\ Len(f) \in Nat
  BY <1>2, LenProperties
<1>4. Within(e, d) /\ Within(f, e)
  BY <1>1, <1>3 DEF Within, Reached
<1>5. Within(f, d)
  BY <1>2, <1>4, WithinTransitive
<1>6. ASSUME NEW n \in (Len(d) + 1)..Len(f)
      PROVE  Kind[Cut(f, n)] # "link" /\ f[n] \notin Omitted \cup Unscanned
  <2>1. CASE n = Len(e)
    <3>1. n \in 0..Len(f) /\ n \in 1..n
      BY <1>1, <1>3, <2>1
    <3>2. Cut(f, n) = e
      BY <1>4, <2>1 DEF Within
    <3>3. Cut(f, n)[n] = f[n]
      BY <1>2, <3>1, Cuts
    <3> QED  BY <1>1, <2>1, <3>2, <3>3
  <2>2. CASE n # Len(e)
    <3>1. n \in (Len(e) + 1)..Len(f)
      BY <1>1, <1>3, <2>2
    <3> QED  BY <3>1 DEF Reached
  <2> QED  BY <2>1, <2>2
<1> QED  BY <1>5, <1>6 DEF Reached

LEMMA OneEntry ==
  ASSUME NEW d \in Tree, NEW f \in Tree, NEW e \in Admitted(d), NEW b \in Admitted(d),
         Reached(f, e), Reached(f, b)
  PROVE  e = b
BY DEF Admitted, Reached, Within

-----------------------------------------------------------------------------
\* Typing.

Package == [kind : {"production", "development", "drupal", "missing"}, base : Tree,
            targets : Seq(SUBSET Candidates), excluded : SUBSET Tree]

LEMMA PackageTyped ==
  ASSUME TypeOK
  PROVE  /\ Len(packages) \in Nat
         /\ \A k \in 1..Len(packages) :
              /\ Len(packages[k].targets) \in Nat
              /\ Targets(k) \in 0..Len(packages[k].targets)
              /\ \A n \in 1..Len(packages[k].targets) : packages[k].targets[n] \subseteq Candidates
<1>1. packages \in Seq(Package)
  BY ComposerFiles, Zenon DEF TypeOK, Package
<1>2. Len(packages) \in Nat /\ \A k \in 1..Len(packages) : packages[k] \in Package
  BY <1>1, LenProperties, ElementOfSeq
<1>3. ASSUME NEW k \in 1..Len(packages)
      PROVE  /\ Len(packages[k].targets) \in Nat
             /\ Targets(k) \in 0..Len(packages[k].targets)
             /\ \A n \in 1..Len(packages[k].targets) : packages[k].targets[n] \subseteq Candidates
  <2>1. packages[k].targets \in Seq(SUBSET Candidates)
    BY <1>2 DEF Package
  <2>2. /\ Len(packages[k].targets) \in Nat
        /\ \A n \in 1..Len(packages[k].targets) : packages[k].targets[n] \in SUBSET Candidates
    BY <2>1, LenProperties, ElementOfSeq
  <2> QED  BY <2>2 DEF Targets
<1> QED  BY <1>2, <1>3

LEMMA TypingStep ==
  ASSUME TypeOK, Position, [Next]_vars
  PROVE  TypeOK'
<1> USE DEF TypeOK
<1>0. Len(packages) \in Nat
  BY PackageTyped
<1>1. CASE NextPackage
  BY <1>0, <1>1 DEF NextPackage
<1>2. CASE NextTarget
  <2>1. package \in 1..Len(packages) /\ target + 1 \in 1..Len(packages[package].targets)
    BY <1>0, <1>2, PackageTyped DEF NextTarget
  <2> QED  BY <1>2, <2>1, PackageTyped DEF NextTarget
<1>3. CASE SkipCandidate
  BY <1>3 DEF SkipCandidate
<1>4. CASE TakeCandidate
  BY <1>4, OnDisk DEF TakeCandidate, Inside
<1>5. CASE OpenDirectory
  BY <1>5 DEF OpenDirectory, Admitted
<1>6. CASE TakeFile
  BY <1>6 DEF TakeFile
<1>7. CASE DiscoverThrows \/ Discovered \/ Preloaded
  BY <1>7 DEF DiscoverThrows, Discovered, Preloaded, scan
<1>8. CASE Compile
  BY <1>8 DEF Compile, scan
<1>9. CASE Done \/ UNCHANGED vars
  BY <1>9 DEF Done, vars
<1> QED  BY <1>1, <1>2, <1>3, <1>4, <1>5, <1>6, <1>7, <1>8, <1>9 DEF Next

LEMMA InvInit == Init => Inv
<1> SUFFICES ASSUME Init PROVE Inv
  OBVIOUS
<1>1. TypeOK
  <2>1. packages \in Seq(Package)
    BY ComposerFiles, Zenon DEF Init, Package
  <2>2. Len(packages) \in Nat
    BY <2>1, LenProperties
  <2> QED  BY <2>2 DEF Init, TypeOK
<1>2. Position
  BY DEF Init, Position
<1>3. files \subseteq Wanted
  BY DEF Init
<1>4. NothingIsLost
  BY DEF Init, NothingIsLost, Ahead
<1> QED  BY <1>1, <1>2, <1>3, <1>4 DEF Inv

-----------------------------------------------------------------------------
\* Where the walk stands.

\* What is looked for does not depend on the walk.
LEMMA Constant ==
  ASSUME UNCHANGED <<root, packages>>
  PROVE  /\ Wanted' = Wanted
         /\ \A k : Targets(k)' = Targets(k)
         /\ \A k, n, c : Leads(k, n, c)' <=> Leads(k, n, c)
         /\ \A f : Source(f)' <=> Source(f)
         /\ \A k, f : LeftOut(k, f)' <=> LeftOut(k, f)
<1>1. \A k : Targets(k)' = Targets(k)
  BY DEF Targets, Scanned
<1>2. \A c : Inside(c)' <=> Inside(c)
  BY DEF Inside
<1>3. \A k, n, c : Leads(k, n, c)' <=> Leads(k, n, c)
  BY <1>2 DEF Leads
<1>4. \A f : Source(f)' <=> Source(f)
  BY DEF Source
<1>5. \A k, f : LeftOut(k, f)' <=> LeftOut(k, f)
  BY DEF LeftOut
<1>6. Wanted' = Wanted
  BY <1>3, <1>4, <1>5 DEF Wanted
<1> QED  BY <1>1, <1>3, <1>4, <1>5, <1>6

LEMMA AllKeepRoot == [Next]_vars => UNCHANGED <<root, packages>>
  BY DEF Next, NextPackage, NextTarget, SkipCandidate, TakeCandidate, OpenDirectory, TakeFile,
         DiscoverThrows, Discovered, Compile, Preloaded, Done, vars

LEMMA PositionStep ==
  ASSUME TypeOK, Position, [Next]_vars
  PROVE  Position'
<1>0. /\ package \in 0..Len(packages) /\ target \in Nat /\ Len(packages) \in Nat
      /\ left \subseteq Candidates /\ work \subseteq Tree
  BY PackageTyped DEF TypeOK
<1>a. UNCHANGED <<root, packages>>
  BY AllKeepRoot
<1>b. /\ \A k : Targets(k)' = Targets(k)
      /\ \A k, n, c : Leads(k, n, c)' <=> Leads(k, n, c)
  BY <1>a, Constant
<1>c. \A k \in 1..Len(packages) : Targets(k) \in Nat
  BY PackageTyped
<1>1. CASE NextPackage
  <2>1. /\ pc' = "discover" /\ left' = {} /\ work' = {} /\ target' = 0
        /\ package' \in 1..Len(packages) /\ packages' = packages
    BY <1>0, <1>1 DEF NextPackage, PackageDone
  <2>2. Targets(package)' \in Nat
    BY <1>b, <1>c, <2>1 DEF Targets, Scanned
  <2> QED  BY <1>b, <1>c, <2>1, <2>2 DEF Position
<1>2. CASE NextTarget
  <2>1. /\ pc' = "discover" /\ package' = package /\ packages' = packages
        /\ package \in 1..Len(packages)
        /\ work' = {} /\ target' = target + 1 /\ target < Targets(package)
        /\ left' = packages[package].targets[target + 1]
    BY <1>0, <1>2 DEF NextTarget
  <2>2. target' > 0 /\ target' <= Targets(package)
    BY <1>0, <1>c, <2>1
  <2>3. Targets(package)' = Targets(package)
    BY <1>a, <2>1 DEF Targets, Scanned
  <2> QED  BY <2>1, <2>2, <2>3 DEF Position
<1>3. CASE SkipCandidate
  <2>1. /\ pc' = "discover" /\ UNCHANGED <<package, target, packages>>
        /\ left # {} /\ left' \subseteq left /\ work' = {}
    BY <1>3 DEF SkipCandidate
  <2>2. Targets(package)' = Targets(package)
    BY <2>1 DEF Targets, Scanned
  <2> QED  BY <2>1, <2>2 DEF Position
<1>4. CASE TakeCandidate
  <2>1. PICK c \in left : Inside(c) /\ left' = left \ {c} /\ work' = {Realpath[c]}
    BY <1>4 DEF TakeCandidate
  <2>2. /\ pc' = "discover" /\ UNCHANGED <<package, target, packages>>
    BY <1>4 DEF TakeCandidate
  <2>3. /\ package \in 1..Len(packages) /\ target \in 1..Targets(package)
        /\ c \in packages[package].targets[target]
    BY <1>0, <1>c, <2>1 DEF Position
  <2>4. Leads(package, target, c)
    BY <2>1, <2>3 DEF Leads, Targets, Scanned
  <2>5. c \in Candidates /\ Realpath[c] \in Tree /\ Reached(Realpath[c], Realpath[c])
    BY <1>0, <2>1, OnDisk, ReachedItself DEF Inside
  <2>6. \A e \in work' : \E b \in Candidates : Leads(package, target, b) /\ Reached(e, Realpath[b])
    BY <2>1, <2>4, <2>5
  <2>7. \A e \in work' : \E b \in Candidates : Leads(package, target, b)' /\ Reached(e, Realpath[b])
    BY <1>a, <2>2, <2>6 DEF Leads, Inside
  <2>8. Targets(package)' = Targets(package)
    BY <2>2 DEF Targets, Scanned
  <2> QED  BY <2>1, <2>2, <2>3, <2>7, <2>8 DEF Position
<1>5. CASE OpenDirectory
  <2>1. PICK d \in work : Kind[d] = "dir" /\ work' = (work \ {d}) \cup Admitted(d)
    BY <1>5 DEF OpenDirectory
  <2>2. pc' = "discover" /\ UNCHANGED <<package, target, left, packages>>
    BY <1>5 DEF OpenDirectory
  <2>3. package # 0 /\ package' # 0
    BY <2>1, <2>2 DEF Position
  <2>4. \A e \in work' : \E b \in Candidates : Leads(package, target, b) /\ Reached(e, Realpath[b])
    <3> SUFFICES ASSUME NEW e \in work'
                 PROVE  \E b \in Candidates : Leads(package, target, b) /\ Reached(e, Realpath[b])
      OBVIOUS
    <3>1. CASE e \in work
      BY <3>1 DEF Position
    <3>2. CASE e \in Admitted(d)
      <4>1. PICK b \in Candidates : Leads(package, target, b) /\ Reached(d, Realpath[b])
        BY <2>1 DEF Position
      <4>2. Realpath[b] \in Tree
        BY <4>1, OnDisk DEF Leads, Inside
      <4>3. Reached(e, Realpath[b])
        BY <1>0, <3>2, <4>1, <4>2, AdmittedReached
      <4> QED  BY <4>1, <4>3
    <3> QED  BY <2>1, <3>1, <3>2
  <2>5. \A e \in work' : \E b \in Candidates : Leads(package, target, b)' /\ Reached(e, Realpath[b])
    BY <1>a, <2>2, <2>4 DEF Leads, Inside
  <2>6. Targets(package)' = Targets(package)
    BY <2>2 DEF Targets, Scanned
  <2> QED  BY <2>2, <2>3, <2>5, <2>6 DEF Position
<1>6. CASE TakeFile
  <2>1. pc' = "discover" /\ UNCHANGED <<package, target, left, packages>> /\ work' \subseteq work
    BY <1>6 DEF TakeFile
  <2>2. \A e \in work' : \E b \in Candidates : Leads(package, target, b)' /\ Reached(e, Realpath[b])
    BY <1>a, <2>1 DEF Position, Leads, Inside
  <2>3. Targets(package)' = Targets(package)
    BY <2>1 DEF Targets, Scanned
  <2> QED  BY <2>1, <2>2, <2>3 DEF Position
<1>7. CASE ~(\/ NextPackage \/ NextTarget \/ SkipCandidate \/ TakeCandidate \/ OpenDirectory \/ TakeFile)
  <2>1. /\ UNCHANGED <<package, target, left, work, files>>
        /\ pc' \in {"compile", "serving"} =>
             (pc \in {"compile", "serving"} \/ (PackageDone /\ package = Len(packages)))
        /\ pc' = "serving" => files' \subseteq compiled'
    BY <1>7 DEF Next, DiscoverThrows, Discovered, Compile, Preloaded, Done, vars, scan, Position
  <2>2. Targets(package)' = Targets(package)
    BY <1>a, <2>1 DEF Targets, Scanned
  <2>3. \A e \in work' : \E b \in Candidates : Leads(package, target, b)' /\ Reached(e, Realpath[b])
    BY <1>a, <2>1 DEF Position, Leads, Inside
  <2>4. PackageDone' <=> PackageDone
    BY <2>1, <2>2 DEF PackageDone
  <2> QED  BY <1>a, <2>1, <2>2, <2>3, <2>4 DEF Position
<1> QED  BY <1>1, <1>2, <1>3, <1>4, <1>5, <1>6, <1>7
-----------------------------------------------------------------------------
\* What is found.

\* The name rules of the code are those of README.md, but for the root "/".
LEMMA RefusedAsLeftOut ==
  ASSUME root # <<>>, NEW f
  PROVE  Refused(f) <=> LeftOut(package, f)
BY DEF Refused, OmittedBelowRoot, LeftOut

LEMMA FilesWanted ==
  ASSUME Inv, root # <<>>, [Next]_vars
  PROVE  files' \subseteq Wanted'
<1>1. Wanted' = Wanted /\ files \subseteq Wanted
  BY AllKeepRoot, Constant DEF Inv
<1>2. CASE TakeFile
  <2>1. PICK f \in work : files' = files \/ (Source(f) /\ ~Refused(f) /\ files' = files \cup {f})
    BY <1>2 DEF TakeFile
  <2>2. PICK c \in Candidates : Leads(package, target, c) /\ Reached(f, Realpath[c])
    BY DEF Inv, Position
  <2>3. f \in Tree
    BY DEF Inv, TypeOK
  <2>4. ASSUME Source(f), ~Refused(f) PROVE f \in Wanted
    <3>1. ~LeftOut(package, f)
      BY <2>4, RefusedAsLeftOut
    <3>2. /\ package \in 1..Len(packages) /\ target \in 1..Len(packages[package].targets)
          /\ c \in packages[package].targets[target]
      BY <2>2 DEF Leads
    <3> QED  BY <2>2, <2>3, <2>4, <3>1, <3>2 DEF Wanted
  <2> QED  BY <1>1, <2>1, <2>4
<1>3. CASE ~TakeFile
  BY <1>1, <1>3 DEF Next, NextPackage, NextTarget, SkipCandidate, TakeCandidate, OpenDirectory,
         DiscoverThrows, Discovered, Compile, Preloaded, Done, vars
<1> QED  BY <1>2, <1>3

LEMMA NothingGetsLost ==
  ASSUME Inv, root # <<>>, [Next]_vars
  PROVE  NothingIsLost'
<1>0. /\ TypeOK /\ Position /\ NothingIsLost
      /\ package \in 0..Len(packages) /\ target \in Nat /\ Len(packages) \in Nat
      /\ left \subseteq Candidates /\ work \subseteq Tree
  BY PackageTyped DEF Inv, TypeOK
<1>a. /\ packages' = packages
      /\ \A k, n, c : Leads(k, n, c)' <=> Leads(k, n, c)
      /\ \A g : Source(g)' <=> Source(g)
      /\ \A k, g : LeftOut(k, g)' <=> LeftOut(k, g)
  BY AllKeepRoot, Constant
<1> SUFFICES ASSUME NEW f \in Tree, NEW k \in 1..Len(packages),
                    NEW n \in 1..Len(packages[k].targets), NEW c \in packages[k].targets[n],
                    Leads(k, n, c), Reached(f, Realpath[c]), Source(f), ~LeftOut(k, f),
                    f \notin files'
             PROVE  Ahead(f, k, n, c)'
  BY <1>a DEF NothingIsLost
<1>b. files \subseteq files'
  BY DEF Next, NextPackage, NextTarget, SkipCandidate, TakeCandidate, OpenDirectory, TakeFile,
         DiscoverThrows, Discovered, Compile, Preloaded, Done, vars
<1>c. Ahead(f, k, n, c)
  BY <1>0, <1>b DEF NothingIsLost
<1>d. k \in Nat \ {0} /\ n \in Nat \ {0} /\ n <= Targets(k) /\ Inside(c)
  BY <1>0, PackageTyped DEF Leads, Targets, Scanned
<1>1. CASE NextPackage
  <2>1. left = {} /\ work = {} /\ (package > 0 => target = Targets(package))
        /\ package' = package + 1 /\ target' = 0
    BY <1>1 DEF NextPackage, PackageDone
  <2>2. k > package
    BY <1>0, <1>c, <1>d, <2>1 DEF Ahead
  <2> QED  BY <1>0, <1>d, <2>1, <2>2 DEF Ahead
<1>2. CASE NextTarget
  <2>1. left = {} /\ work = {} /\ package' = package /\ target' = target + 1
        /\ left' = packages[package].targets[target + 1]
    BY <1>2 DEF NextTarget
  <2>2. k > package \/ (k = package /\ n > target)
    BY <1>c, <2>1 DEF Ahead
  <2> QED  BY <1>0, <1>d, <2>1, <2>2 DEF Ahead
<1>3. CASE SkipCandidate
  <2>1. PICK b \in left : ~Inside(b) /\ left' = left \ {b}
    BY <1>3 DEF SkipCandidate
  <2>2. UNCHANGED <<package, target, work>>
    BY <1>3 DEF SkipCandidate
  <2>3. b # c
    BY <1>d, <2>1
  <2> QED  BY <1>c, <2>1, <2>2, <2>3 DEF Ahead
<1>4. CASE TakeCandidate
  <2>1. PICK b \in left : left' = left \ {b} /\ work' = {Realpath[b]}
    BY <1>4 DEF TakeCandidate
  <2>2. work = {} /\ UNCHANGED <<package, target>>
    BY <1>4 DEF TakeCandidate
  <2>3. b = c => \E e \in work' : Reached(f, e)
    BY <2>1
  <2> QED  BY <1>c, <2>1, <2>2, <2>3 DEF Ahead
<1>5. CASE OpenDirectory
  <2>1. PICK d \in work : Kind[d] = "dir" /\ work' = (work \ {d}) \cup Admitted(d)
    BY <1>5 DEF OpenDirectory
  <2>2. UNCHANGED <<package, target, left>>
    BY <1>5 DEF OpenDirectory
  <2>3. ASSUME NEW e \in work, Reached(f, e) PROVE \E e2 \in work' : Reached(f, e2)
    <3>1. CASE e # d
      BY <2>1, <2>3, <3>1
    <3>2. CASE e = d
      <4>1. f # d
        BY <2>1 DEF Source
      <4>2. \E e2 \in Admitted(d) : Reached(f, e2)
        BY <1>0, <2>3, <3>2, <4>1, ReachedThroughEntry
      <4> QED  BY <2>1, <4>2
    <3> QED  BY <3>1, <3>2
  <2> QED  BY <1>c, <2>2, <2>3 DEF Ahead
<1>6. CASE TakeFile
  <2>1. PICK d \in work : /\ Kind[d] # "dir" /\ work' = work \ {d}
                          /\ Source(d) /\ ~Refused(d) => d \in files'
    BY <1>6 DEF TakeFile
  <2>2. UNCHANGED <<package, target, left>>
    BY <1>6 DEF TakeFile
  <2>3. ASSUME k = package, NEW e \in work, Reached(f, e) PROVE e \in work'
    <3>1. CASE e = d
      <4>1. f = d
        BY <1>0, <2>1, <2>3, <3>1, ReachedThroughEntry
      <4>2. ~Refused(f)
        BY <2>3, RefusedAsLeftOut
      <4> QED  BY <2>1, <4>1, <4>2
    <3>2. CASE e # d
      BY <2>1, <3>2
    <3> QED  BY <3>1, <3>2
  <2> QED  BY <1>c, <2>2, <2>3 DEF Ahead
<1>7. CASE ~(\/ NextPackage \/ NextTarget \/ SkipCandidate \/ TakeCandidate \/ OpenDirectory \/ TakeFile)
  <2>1. UNCHANGED <<package, target, left, work>>
    BY <1>7 DEF Next, DiscoverThrows, Discovered, Compile, Preloaded, Done, vars, scan
  <2> QED  BY <1>c, <2>1 DEF Ahead
<1> QED  BY <1>1, <1>2, <1>3, <1>4, <1>5, <1>6, <1>7

\* The inductive invariant of discovery.
THEOREM DiscoveryInvariance == Spec => []Inv
<1>1. Init => Inv
  BY InvInit
<1>2. Inv /\ [Next]_vars => Inv'
  <2> SUFFICES ASSUME Inv, [Next]_vars PROVE Inv'
    OBVIOUS
  <2>1. TypeOK' /\ Position'
    BY TypingStep, PositionStep DEF Inv
  <2>2. root' = root
    BY AllKeepRoot
  <2> QED  BY <2>1, <2>2, FilesWanted, NothingGetsLost DEF Inv
<1> QED  BY <1>1, <1>2, PTL DEF Spec

\* The walk keeps its types.
THEOREM DiscoveryTyping == Spec => []TypeOK
<1>1. Inv => TypeOK
  BY DEF Inv
<1> QED  BY <1>1, DiscoveryInvariance, PTL

\* discover finds what it should and nothing else, whatever the tree, its links
\* and the order of its directories are; a server that serves compiled it all.
THEOREM DiscoveryFindsTheWanted == Spec => []PreloadsTheWanted
<1>1. Inv => PreloadsTheWanted
  <2> SUFFICES ASSUME Inv, root # <<>>, pc \in {"compile", "serving"}
               PROVE  files = Wanted /\ (pc = "serving" => compiled = Wanted)
    BY DEF PreloadsTheWanted
  <2>1. /\ left = {} /\ work = {} /\ package = Len(packages)
        /\ package > 0 => target = Targets(package)
        /\ Len(packages) \in Nat
    BY PackageTyped DEF Inv, Position, PackageDone
  <2>2. ASSUME NEW f \in Wanted PROVE f \in files
    <3>1. PICK k \in 1..Len(packages) :
            /\ f \in Tree /\ Source(f) /\ ~LeftOut(k, f)
            /\ \E n \in 1..Len(packages[k].targets) : \E c \in packages[k].targets[n] :
                 Leads(k, n, c) /\ Reached(f, Realpath[c])
      BY <2>2 DEF Wanted
    <3>0. PICK n \in 1..Len(packages[k].targets) :
            \E c \in packages[k].targets[n] : Leads(k, n, c) /\ Reached(f, Realpath[c])
      BY <3>1
    <3>2. PICK c \in packages[k].targets[n] : Leads(k, n, c) /\ Reached(f, Realpath[c])
      BY <3>0
    <3>3. f \in files \/ Ahead(f, k, n, c)
      BY <3>1, <3>2 DEF Inv, NothingIsLost
    <3>4. n <= Targets(k) /\ k \in Nat \ {0} /\ n \in Nat
      BY <2>1, <3>2, PackageTyped DEF Inv, Leads, Targets, Scanned
    <3>5. package \in Nat /\ k <= package
      BY <2>1
    <3>6. k = package => target = Targets(k)
      BY <2>1, <3>4
    <3>7. ~Ahead(f, k, n, c)
      <4>1. Targets(k) \in Nat
        BY PackageTyped DEF Inv
      <4> QED  BY <2>1, <3>4, <3>5, <3>6, <4>1 DEF Ahead
    <3> QED  BY <3>3, <3>7
  <2>3. files = Wanted
    BY <2>2 DEF Inv
  <2> QED  BY <2>3 DEF Inv, TypeOK, Position
<1> QED  BY <1>1, DiscoveryInvariance, PTL

\* No entry outside the application is walked and no file outside it compiled,
\* wherever its targets and links lead.
THEOREM DiscoveryStaysInside == Spec => []NothingOutsideIsWalked
<1>0. Inv => \A f \in files : Within(f, root)
  <2> SUFFICES ASSUME Inv, NEW f \in files PROVE Within(f, root)
    OBVIOUS
  <2>1. f \in Seq(Names) /\ Len(f) \in Nat
    BY OnDisk, LenProperties DEF Inv, TypeOK
  <2>2. CASE root # <<>>
    BY <2>2 DEF Inv, Wanted, Source
  <2>3. CASE root = <<>>
    <3>1. Len(<<>>) = 0 /\ <<>> \in Seq(Names) /\ 0 \in 0..Len(f)
      BY <2>1, EmptySeq, SMT
    <3>2. Cut(f, 0) \in Seq(Names) /\ Len(Cut(f, 0)) = 0
      BY <2>1, <3>1, Cuts
    <3>3. Cut(f, 0) = <<>>
      BY <3>2, EmptySeq
    <3> QED  BY <2>1, <2>3, <3>1, <3>3 DEF Within
  <2> QED  BY <2>2, <2>3
<1>1. Inv => NothingOutsideIsWalked
  <2> SUFFICES ASSUME Inv, NEW e \in work PROVE Within(e, root)
    BY <1>0 DEF NothingOutsideIsWalked
  <2>1. PICK c \in Candidates : Leads(package, target, c) /\ Reached(e, Realpath[c])
    BY DEF Inv, Position
  <2>2. Within(e, Realpath[c]) /\ Within(Realpath[c], root) /\ Realpath[c] \in Tree
    BY <2>1, OnDisk DEF Leads, Inside, Reached
  <2>3. e \in Tree /\ root \in Tree
    BY RootsAreDirectories DEF Inv, TypeOK
  <2>4. e \in Seq(Names) /\ root \in Seq(Names) /\ Realpath[c] \in Seq(Names)
    BY <2>2, <2>3, OnDisk
  <2> QED  BY <2>2, <2>4, WithinTransitive
<1> QED  BY <1>1, DiscoveryInvariance, PTL
-----------------------------------------------------------------------------
\* What is counted.

\* No file is below two entries that wait.
LEMMA ApartStep ==
  ASSUME TypeOK, Apart, [Next]_vars
  PROVE  Apart'
<1>0. work \subseteq Tree
  BY DEF TypeOK
<1>1. CASE OpenDirectory
  <2>1. PICK d \in work : work' = (work \ {d}) \cup Admitted(d)
    BY <1>1 DEF OpenDirectory
  <2>2. d \in Tree
    BY <1>0
  <2> SUFFICES ASSUME NEW f \in Tree, NEW e \in work', NEW b \in work', Reached(f, e), Reached(f, b)
               PROVE  e = b
    BY DEF Apart
  <2>3. ASSUME NEW x \in Admitted(d), NEW y \in work, y # d, Reached(f, x), Reached(f, y)
        PROVE  FALSE
    <3>1. Reached(f, d)
      BY <2>2, <2>3, ReachedFromEntry
    <3> QED  BY <2>3, <3>1 DEF Apart
  <2>4. CASE e \in Admitted(d) /\ b \in Admitted(d)
    BY <2>2, <2>4, OneEntry
  <2>5. CASE e \in work \ {d} /\ b \in work \ {d}
    BY <2>5 DEF Apart
  <2> QED  BY <2>1, <2>3, <2>4, <2>5
<1>2. CASE TakeCandidate
  BY <1>2 DEF TakeCandidate, Apart
<1>3. CASE ~OpenDirectory /\ ~TakeCandidate
  <2>1. work' \subseteq work
    BY <1>3 DEF Next, NextPackage, NextTarget, SkipCandidate, TakeFile, DiscoverThrows,
                Discovered, Compile, Preloaded, Done, vars, scan
  <2> QED  BY <2>1 DEF Apart
<1> QED  BY <1>1, <1>2, <1>3

\* The reports, one by one.
LEMMA ReportsAre ==
  /\ \A r \in Reports : r = <<r[1], r[2], r[3], r[4]>>
  /\ \A k, n, c, f :
       <<k, n, c, f>> \in Reports <=>
         /\ k \in 1..Len(packages) /\ n \in 1..Len(packages[k].targets)
         /\ c \in packages[k].targets[n] /\ Report(k, n, c, f)
<1>1. \A r : r \in Reports <=>
        \E k \in 1..Len(packages) : \E n \in 1..Len(packages[k].targets) :
          \E c \in packages[k].targets[n] : \E f \in Tree \cup {Nowhere} :
            Report(k, n, c, f) /\ r = <<k, n, c, f>>
  <2> DEFINE F(k, n, c) == {<<k, n, c, f>> : f \in {g \in Tree \cup {Nowhere} : Report(k, n, c, g)}}
             C(k, n) == UNION {F(k, n, c) : c \in packages[k].targets[n]}
             N(k) == UNION {C(k, n) : n \in 1..Len(packages[k].targets)}
  <2>1. Reports = UNION {N(k) : k \in 1..Len(packages)}
    BY DEF Reports
  <2>2. \A r, k, n, c : r \in F(k, n, c) <=>
          \E f \in Tree \cup {Nowhere} : Report(k, n, c, f) /\ r = <<k, n, c, f>>
    OBVIOUS
  <2> HIDE DEF F
  <2>3. \A r, k, n : r \in C(k, n) <=> \E c \in packages[k].targets[n] : r \in F(k, n, c)
    OBVIOUS
  <2> HIDE DEF C
  <2>4. \A r, k : r \in N(k) <=> \E n \in 1..Len(packages[k].targets) : r \in C(k, n)
    OBVIOUS
  <2> HIDE DEF N
  <2>5. \A r : r \in Reports <=> \E k \in 1..Len(packages) : r \in N(k)
    BY <2>1
  <2> QED  BY <2>2, <2>3, <2>4, <2>5
<1>2. \A k, n, c, f : Report(k, n, c, f) => f \in Tree \cup {Nowhere}
  BY DEF Report
<1> QED  BY <1>1, <1>2

\* What is reported of a file does not depend on the walk.
LEMMA ReportsConstant ==
  ASSUME UNCHANGED <<root, packages>>
  PROVE  Reports' = Reports
<1>1. \A c : Inside(c)' <=> Inside(c)
  BY DEF Inside
<1>2. \A k, n, c, f : Report(k, n, c, f)' <=> Report(k, n, c, f)
  BY <1>1, Constant DEF Report
<1> QED  BY <1>2 DEF Reports

LEMMA SeenSame ==
  ASSUME UNCHANGED <<root, packages>>, NEW cur, NEW next,
         \A k, n, c, f : <<k, n, c, f>> \in Reports =>
           (Unseen(k, n, c, f, next)' <=> Unseen(k, n, c, f, cur))
  PROVE  Seen(next)' = Seen(cur)
<1>1. Reports' = Reports
  BY ReportsConstant
<1>2. \A r \in Reports : Unseen(r[1], r[2], r[3], r[4], next)' <=> Unseen(r[1], r[2], r[3], r[4], cur)
  BY ReportsAre
<1> QED  BY <1>1, <1>2 DEF Seen

LEMMA SeenOneMore ==
  ASSUME UNCHANGED <<root, packages>>, NEW cur, NEW next, NEW p, NEW t, NEW b, NEW g,
         <<p, t, b, g>> \in Reports,
         Unseen(p, t, b, g, cur), ~Unseen(p, t, b, g, next)',
         \A k, n, c, f : <<k, n, c, f>> \in Reports /\ <<k, n, c, f>> # <<p, t, b, g>> =>
           (Unseen(k, n, c, f, next)' <=> Unseen(k, n, c, f, cur)),
         IsFiniteSet(Seen(cur)), skipped = Cardinality(Seen(cur)), skipped' = skipped + 1
  PROVE  IsFiniteSet(Seen(next)') /\ skipped' = Cardinality(Seen(next)')
<1> DEFINE new == <<p, t, b, g>>
<1>1. Reports' = Reports
  BY ReportsConstant
<1>2. \A r \in Reports : r # new =>
        (Unseen(r[1], r[2], r[3], r[4], next)' <=> Unseen(r[1], r[2], r[3], r[4], cur))
  BY ReportsAre
<1>3. new \in Reports /\ new \notin Seen(cur) /\ ~Unseen(new[1], new[2], new[3], new[4], next)'
  <2>1. new[1] = p /\ new[2] = t /\ new[3] = b /\ new[4] = g
    OBVIOUS
  <2>2. new \in Reports /\ new \notin Seen(cur)
    BY <2>1 DEF Seen
  <2>3. ~Unseen(new[1], new[2], new[3], new[4], next)'
    BY <2>1
  <2> QED  BY <2>2, <2>3
<1> HIDE DEF new
<1>4. Seen(next)' = Seen(cur) \cup {new}
  BY <1>1, <1>2, <1>3 DEF Seen
<1> QED  BY <1>3, <1>4, FS_AddElement

LEMMA CountedInit == Init => Apart /\ CountedOnce
<1> SUFFICES ASSUME Init PROVE Apart /\ CountedOnce
  OBVIOUS
<1>1. Apart /\ Walks(Nowhere)
  BY DEF Init, Apart, Walks
<1>2. Len(packages) \in Nat
  BY InvInit, PackageTyped DEF Inv
<1>3. ASSUME NEW k, NEW n, NEW c, NEW f, <<k, n, c, f>> \in Reports
      PROVE  Unseen(k, n, c, f, Nowhere)
  BY <1>2, <1>3, ReportsAre DEF Init, Unseen
<1>4. Seen(Nowhere) = {}
  BY <1>3, ReportsAre DEF Seen
<1> QED  BY <1>1, <1>4, FS_EmptySet DEF Init, CountedOnce

\* The walk of one step: the same reports are seen, or one more.
LEMMA CountedStep ==
  ASSUME Inv, Apart, CountedOnce, root # <<>>, [Next]_vars
  PROVE  CountedOnce'
<1>0. /\ TypeOK /\ Position
      /\ package \in 0..Len(packages) /\ target \in Nat /\ Len(packages) \in Nat
      /\ left \subseteq Candidates /\ work \subseteq Tree
  BY PackageTyped DEF Inv, TypeOK
<1>a. UNCHANGED <<root, packages>>
  BY AllKeepRoot
<1>b. PICK cur \in Candidates \cup {Nowhere} :
        Walks(cur) /\ IsFiniteSet(Seen(cur)) /\ skipped = Cardinality(Seen(cur))
  BY DEF CountedOnce
<1>c. ASSUME NEW k, NEW n, NEW c, NEW f, <<k, n, c, f>> \in Reports
      PROVE  /\ k \in 1..Len(packages) /\ n \in Nat \ {0} /\ n <= Targets(k)
             /\ c \in packages[k].targets[n] /\ Report(k, n, c, f)
  BY <1>0, <1>c, ReportsAre, PackageTyped DEF Report, Targets, Scanned
<1>d. ASSUME NEW next \in Candidates \cup {Nowhere}, Walks(next)', skipped' = skipped,
             \A k, n, c, f : <<k, n, c, f>> \in Reports =>
               (Unseen(k, n, c, f, next)' <=> Unseen(k, n, c, f, cur))
      PROVE  CountedOnce'
  <2>1. Seen(next)' = Seen(cur)
    BY <1>a, <1>d, SeenSame
  <2> QED  BY <1>b, <1>d, <2>1 DEF CountedOnce
<1>e. ASSUME NEW p, NEW t, NEW b, NEW g, p = package, t = target, <<p, t, b, g>> \in Reports,
             Walks(cur)', skipped' = skipped + 1,
             Unseen(p, t, b, g, cur), ~Unseen(p, t, b, g, cur)',
             \A k, n, c, f : <<k, n, c, f>> \in Reports /\ <<k, n, c, f>> # <<p, t, b, g>> =>
               (Unseen(k, n, c, f, cur)' <=> Unseen(k, n, c, f, cur))
      PROVE  CountedOnce'
  <2>1. IsFiniteSet(Seen(cur)') /\ skipped' = Cardinality(Seen(cur)')
    BY <1>a, <1>b, <1>e, SeenOneMore
  <2> QED  BY <1>e, <2>1 DEF CountedOnce
<1>f. \A k, n, c : Leads(k, n, c)' <=> Leads(k, n, c)
  BY <1>a, Constant
<1>1. CASE NextPackage
  <2>1. left = {} /\ work = {} /\ (package > 0 => target = Targets(package))
        /\ package' = package + 1 /\ target' = 0
        /\ UNCHANGED <<left, work, skipped>>
    BY <1>1 DEF NextPackage, PackageDone
  <2>2. ASSUME NEW k, NEW n, NEW c, NEW f, <<k, n, c, f>> \in Reports
        PROVE  Unseen(k, n, c, f, cur)' <=> Unseen(k, n, c, f, cur)
    <3>1. k \in Nat \ {0} /\ n \in Nat \ {0} /\ n <= Targets(k) /\ Targets(k) \in Nat
      BY <1>0, <1>c, <2>2, PackageTyped
    <3>2. Unseen(k, n, c, f, cur) <=> k > package
      BY <1>0, <2>1, <3>1 DEF Unseen
    <3>3. Unseen(k, n, c, f, cur)' <=> k >= package + 1
      BY <1>0, <2>1, <3>1 DEF Unseen
    <3> QED  BY <1>0, <3>1, <3>2, <3>3
  <2>3. Walks(cur)'
    BY <2>1 DEF Walks
  <2> QED  BY <1>d, <2>1, <2>2, <2>3
<1>2. CASE NextTarget
  <2>1. left = {} /\ work = {} /\ target' = target + 1
        /\ left' = packages[package].targets[target + 1]
        /\ UNCHANGED <<package, work, skipped>>
    BY <1>2 DEF NextTarget
  <2>2. ASSUME NEW k, NEW n, NEW c, NEW f, <<k, n, c, f>> \in Reports
        PROVE  Unseen(k, n, c, f, cur)' <=> Unseen(k, n, c, f, cur)
    <3>1. k \in Nat \ {0} /\ n \in Nat \ {0} /\ c \in packages[k].targets[n]
      BY <1>0, <1>c, <2>2
    <3>2. Unseen(k, n, c, f, cur) <=> k > package \/ (k = package /\ n > target)
      BY <2>1 DEF Unseen
    <3>3. Unseen(k, n, c, f, cur)' <=>
            \/ k > package \/ (k = package /\ n > target + 1)
            \/ (k = package /\ n = target + 1 /\ c \in packages[package].targets[target + 1])
      BY <2>1 DEF Unseen
    <3> QED  BY <1>0, <3>1, <3>2, <3>3
  <2>3. Walks(cur)'
    BY <2>1 DEF Walks
  <2> QED  BY <1>d, <2>1, <2>2, <2>3
<1>3. CASE SkipCandidate
  <2>1. PICK b \in left : ~Inside(b) /\ left' = left \ {b}
    BY <1>3 DEF SkipCandidate
  <2>2. /\ UNCHANGED <<package, target, work>> /\ work = {} /\ skipped' = skipped + 1
    BY <1>3 DEF SkipCandidate
  <2>3. /\ package \in 1..Len(packages) /\ target \in 1..Targets(package)
        /\ b \in packages[package].targets[target]
    BY <1>0, <2>1, PackageTyped DEF Position
  <2>4. PICK p, t : p = package /\ t = target
    OBVIOUS
  <2>5. <<p, t, b, Nowhere>> \in Reports
    <3>1. packages[p].kind = "production" /\ t \in 1..Len(packages[p].targets)
      BY <2>3, <2>4 DEF Targets, Scanned
    <3> QED  BY <2>1, <2>3, <2>4, <3>1, ReportsAre DEF Report
  <2>6. Unseen(p, t, b, Nowhere, cur) /\ ~Unseen(p, t, b, Nowhere, cur)'
    BY <1>0, <2>1, <2>2, <2>4 DEF Unseen
  <2>7. ASSUME NEW k, NEW n, NEW c, NEW f, <<k, n, c, f>> \in Reports,
               <<k, n, c, f>> # <<p, t, b, Nowhere>>
        PROVE  Unseen(k, n, c, f, cur)' <=> Unseen(k, n, c, f, cur)
    <3>1. ~(k = p /\ n = t /\ c = b)
      BY <1>c, <2>1, <2>7 DEF Report
    <3> QED  BY <2>1, <2>2, <2>4, <3>1 DEF Unseen
  <2>8. Walks(cur)'
    BY <2>2 DEF Walks
  <2> QED  BY <1>e, <2>2, <2>4, <2>5, <2>6, <2>7, <2>8
<1>4. CASE TakeCandidate
  <2>1. PICK b \in left : Inside(b) /\ left' = left \ {b} /\ work' = {Realpath[b]}
    BY <1>4 DEF TakeCandidate
  <2>2. work = {} /\ UNCHANGED <<package, target, skipped>>
    BY <1>4 DEF TakeCandidate
  <2>3. /\ package \in 1..Len(packages) /\ target \in 1..Targets(package)
        /\ b \in packages[package].targets[target] /\ b \in Candidates
    BY <1>0, <2>1, PackageTyped DEF Position
  <2>4. Realpath[b] \in Tree /\ Reached(Realpath[b], Realpath[b])
    BY <2>1, <2>3, OnDisk, ReachedItself DEF Inside
  <2>5. Leads(package, target, b)
    BY <2>1, <2>3 DEF Leads, Targets, Scanned
  <2>6. Walks(b)'
    <3>1. Leads(package, target, b)'
      BY <1>a, <2>2, <2>5 DEF Leads, Inside
    <3> QED  BY <2>1, <2>4, <3>1 DEF Walks
  <2>7. ASSUME NEW k, NEW n, NEW c, NEW f, <<k, n, c, f>> \in Reports
        PROVE  Unseen(k, n, c, f, b)' <=> Unseen(k, n, c, f, cur)
    <3>1. c = b => Reached(f, Realpath[b])
      BY <1>c, <2>1, <2>7 DEF Report
    <3>2. Unseen(k, n, c, f, cur) <=>
            k > package \/ (k = package /\ n > target) \/ (k = package /\ n = target /\ c \in left)
      BY <2>2 DEF Unseen
    <3>3. Unseen(k, n, c, f, b)' <=>
            \/ k > package \/ (k = package /\ n > target)
            \/ (k = package /\ n = target /\ c \in left \ {b})
            \/ (k = package /\ n = target /\ c = b /\ Reached(f, Realpath[b]))
      BY <2>1, <2>2 DEF Unseen
    <3> QED  BY <2>1, <3>1, <3>2, <3>3
  <2> QED  BY <1>d, <2>2, <2>3, <2>6, <2>7
<1>5. CASE OpenDirectory
  <2>1. PICK d \in work : Kind[d] = "dir" /\ work' = (work \ {d}) \cup Admitted(d)
    BY <1>5 DEF OpenDirectory
  <2>2. UNCHANGED <<package, target, left, skipped>>
    BY <1>5 DEF OpenDirectory
  <2>3. /\ Leads(package, target, cur) /\ cur \notin left
        /\ \A e \in work : Reached(e, Realpath[cur])
        /\ Inside(cur) /\ cur \in Candidates /\ Realpath[cur] \in Tree /\ d \in Tree
    <3>1. Leads(package, target, cur)
      BY <1>b, <2>1 DEF Walks
    <3>2. cur \in Candidates
      BY <1>0, <3>1, PackageTyped DEF Leads
    <3> QED  BY <1>0, <1>b, <2>1, <3>1, <3>2, OnDisk DEF Walks, Leads, Inside
  <2>4. \A e \in work' : Reached(e, Realpath[cur])
    BY <2>1, <2>3, AdmittedReached
  <2>5. Walks(cur)'
    <3>1. Leads(package, target, cur)'
      BY <1>a, <2>2, <2>3 DEF Leads, Inside
    <3> QED  BY <2>2, <2>3, <2>4, <3>1 DEF Walks
  <2>6. ASSUME NEW f \in Tree, Source(f)
        PROVE  (\E e \in work' : Reached(f, e)) <=> (\E e \in work : Reached(f, e))
    <3>1. f # d
      BY <2>1, <2>6 DEF Source
    <3>2. Reached(f, d) => \E e \in Admitted(d) : Reached(f, e)
      BY <2>3, <3>1, ReachedThroughEntry
    <3>3. \A e \in Admitted(d) : Reached(f, e) => Reached(f, d)
      BY <2>3, ReachedFromEntry
    <3> QED  BY <2>1, <3>2, <3>3
  <2>7. ASSUME NEW k, NEW n, NEW c, NEW f, <<k, n, c, f>> \in Reports
        PROVE  Unseen(k, n, c, f, cur)' <=> Unseen(k, n, c, f, cur)
    <3>1. c = cur => f \in Tree /\ Source(f)
      BY <1>c, <2>3, <2>7 DEF Report
    <3> QED  BY <2>2, <2>6, <3>1 DEF Unseen
  <2> QED  BY <1>d, <2>2, <2>5, <2>7
<1>6. CASE TakeFile
  <2>1. PICK g \in work :
          /\ Kind[g] # "dir" /\ work' = work \ {g}
          /\ \/ Source(g) /\ Refused(g) /\ skipped' = skipped + 1
             \/ ~(Source(g) /\ Refused(g)) /\ skipped' = skipped
    BY <1>6 DEF TakeFile
  <2>2. UNCHANGED <<package, target, left>>
    BY <1>6 DEF TakeFile
  <2>3. /\ Leads(package, target, cur) /\ cur \notin left
        /\ \A e \in work : Reached(e, Realpath[cur])
        /\ Inside(cur) /\ g \in Tree
    BY <1>0, <1>b, <2>1 DEF Walks, Leads
  <2>4. Walks(cur)'
    <3>1. Leads(package, target, cur)'
      BY <1>a, <2>2, <2>3 DEF Leads, Inside
    <3> QED  BY <2>1, <2>2, <2>3, <3>1 DEF Walks
  <2>5. \A f \in Tree : Reached(f, g) => f = g
    BY <2>1, <2>3, ReachedThroughEntry
  <2>6. Reached(g, g) /\ \A e \in work' : ~Reached(g, e)
    <3>1. Reached(g, g)
      BY <2>3, OnDisk, ReachedItself
    <3> QED  BY <2>1, <2>3, <3>1 DEF Apart
  <2>7. \A f \in Tree : f # g =>
          ((\E e \in work' : Reached(f, e)) <=> (\E e \in work : Reached(f, e)))
    BY <2>1, <2>5
  <2>8. PICK p, t : p = package /\ t = target
    OBVIOUS
  <2>9. <<p, t, cur, g>> \in Reports <=> Source(g) /\ Refused(g)
    <3>1. /\ p \in 1..Len(packages) /\ t \in 1..Len(packages[p].targets)
          /\ cur \in packages[p].targets[t] /\ packages[p].kind = "production"
      BY <2>3, <2>8 DEF Leads
    <3>2. Report(p, t, cur, g) <=> Source(g) /\ LeftOut(p, g)
      BY <2>1, <2>3, <3>1 DEF Report
    <3> QED  BY <2>8, <3>1, <3>2, RefusedAsLeftOut, ReportsAre
  <2>10. ASSUME NEW k, NEW n, NEW c, NEW f, <<k, n, c, f>> \in Reports,
                <<k, n, c, f>> # <<p, t, cur, g>>
         PROVE  Unseen(k, n, c, f, cur)' <=> Unseen(k, n, c, f, cur)
    <3>1. c = cur => f \in Tree
      BY <1>c, <2>3, <2>10 DEF Report
    <3>2. k = p /\ n = t /\ c = cur => f # g
      BY <2>10
    <3> QED  BY <2>2, <2>7, <2>8, <3>1, <3>2 DEF Unseen
  <2>11. CASE Source(g) /\ Refused(g)
    <3>1. Unseen(p, t, cur, g, cur) /\ ~Unseen(p, t, cur, g, cur)'
      BY <1>0, <2>1, <2>2, <2>3, <2>6, <2>8 DEF Unseen
    <3> QED  BY <1>e, <2>1, <2>4, <2>8, <2>9, <2>10, <2>11, <3>1
  <2>12. CASE ~(Source(g) /\ Refused(g))
    <3>1. \A k, n, c, f : <<k, n, c, f>> \in Reports => <<k, n, c, f>> # <<p, t, cur, g>>
      BY <2>9, <2>12
    <3>2. \A k, n, c, f : <<k, n, c, f>> \in Reports =>
            (Unseen(k, n, c, f, cur)' <=> Unseen(k, n, c, f, cur))
      BY <2>10, <3>1
    <3> QED  BY <1>d, <2>1, <2>4, <2>12, <3>2
  <2> QED  BY <2>11, <2>12
<1>7. CASE ~(\/ NextPackage \/ NextTarget \/ SkipCandidate \/ TakeCandidate \/ OpenDirectory \/ TakeFile)
  <2>1. UNCHANGED <<package, target, left, work, skipped>>
    BY <1>7 DEF Next, DiscoverThrows, Discovered, Compile, Preloaded, Done, vars, scan
  <2>2. \A k, n, c, f : Unseen(k, n, c, f, cur)' <=> Unseen(k, n, c, f, cur)
    BY <2>1 DEF Unseen
  <2>3. Walks(cur)'
    BY <1>a, <1>b, <2>1 DEF Walks, Leads, Inside
  <2> QED  BY <1>d, <2>1, <2>2, <2>3
<1> QED  BY <1>1, <1>2, <1>3, <1>4, <1>5, <1>6, <1>7

\* The inductive invariant of the count.
THEOREM CountInvariance == Spec => []CountInv
<1>1. Init => Apart /\ (root # <<>> => CountedOnce)
  BY CountedInit
<1>2. /\ Inv /\ Apart /\ (root # <<>> => CountedOnce) /\ [Next]_vars
      => Apart' /\ (root # <<>> => CountedOnce)'
  <2> SUFFICES ASSUME Inv, Apart, root # <<>> => CountedOnce, [Next]_vars
               PROVE  Apart' /\ (root # <<>> => CountedOnce)'
    OBVIOUS
  <2>1. Apart'
    BY ApartStep DEF Inv
  <2>2. root' = root
    BY AllKeepRoot
  <2> QED  BY <2>1, <2>2, CountedStep
<1>3. CountInv <=> Inv /\ Apart /\ (root # <<>> => CountedOnce)
  BY DEF CountInv
<1> QED  BY <1>1, <1>2, <1>3, DiscoveryInvariance, PTL DEF Spec

\* discover: the number of excluded files that it reports is the same in every
\* order, and counts each candidate outside the application and each file left
\* out once for each target that gives it.
THEOREM DiscoveryCounts == Spec => []CountsTheExcluded
<1>1. CountInv => CountsTheExcluded
  <2> SUFFICES ASSUME CountInv, root # <<>>, pc \in {"compile", "serving"}
               PROVE  skipped = Cardinality(Reports)
    BY DEF CountsTheExcluded
  <2>1. /\ left = {} /\ work = {} /\ package = Len(packages)
        /\ package > 0 => target = Targets(package)
        /\ Len(packages) \in Nat
    BY PackageTyped DEF CountInv, Inv, Position, PackageDone
  <2>2. PICK cur \in Candidates \cup {Nowhere} : skipped = Cardinality(Seen(cur))
    BY DEF CountInv, CountedOnce
  <2>3. ASSUME NEW k, NEW n, NEW c, NEW f, <<k, n, c, f>> \in Reports
        PROVE  ~Unseen(k, n, c, f, cur)
    <3>1. /\ k \in 1..Len(packages) /\ n \in 1..Len(packages[k].targets)
          /\ packages[k].kind = "production"
      BY <2>3, ReportsAre DEF Report
    <3>2. n \in Nat /\ n <= Targets(k) /\ Targets(k) \in Nat
      BY <3>1, PackageTyped DEF CountInv, Inv, Targets, Scanned
    <3> QED  BY <2>1, <3>1, <3>2 DEF Unseen
  <2>4. Seen(cur) = Reports
    BY <2>3, ReportsAre DEF Seen
  <2> QED  BY <2>2, <2>4
<1> QED  BY <1>1, CountInvariance, PTL
=============================================================================
