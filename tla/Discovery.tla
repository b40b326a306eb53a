----------------------------- MODULE Discovery -----------------------------
(***************************************************************************)
(* Automatic preloading: discover of preload/discovery.php, which walks    *)
(* the autoload targets of an application, and preload.php, which compiles *)
(* what it finds before the server may serve.                              *)
(*                                                                         *)
(* A path is the sequence of its names, the root of the file system is     *)
(* <<>>.  Tree is what lies on the disk; nothing lies below a link.  What  *)
(* a text means is given by constants: which names end in .php, which      *)
(* directories are passed over, which files the exclusion patterns of a    *)
(* package match, which candidates a glob gives and where realpath leads   *)
(* from them.  glob reads the directories its pattern names and Composer's *)
(* files are read wherever they are; the model begins with the results.    *)
(*                                                                         *)
(* readdir and GLOB_NOSORT promise no order: candidates and entries are    *)
(* taken in any.                                                           *)
(***************************************************************************)
EXTENDS Integers, Sequences, FiniteSets

CONSTANTS
  Names,      (* of files and directories                                   *)
  Tree,       (* the paths on the disk                                      *)
  Kind,       (* "dir", "file", "link" or "other" of each                   *)
  Candidates, (* what globs give: texts of paths, through links or "..";    *)
              (* one text given twice is two, as GLOB_BRACE may             *)
  Realpath,   (* the path each leads to, or Nowhere                         *)
  Nowhere,
  Php,        (* names that end in .php                                     *)
  Omitted,    (* tests, fixtures, modules, themes                           *)
  Unscanned,  (* node_modules, vendor, .git                                 *)
  Cropped,    (* names that are in Omitted without their first letter       *)
  Roots,      (* application roots                                          *)
  Metadata    (* what Composer's files may say: sequences of packages       *)

VARIABLES
  root,      (* the application root                                        *)
  packages,  (* the packages, the application, Drupal's core                *)
  pc,        (* place in preload.php                                        *)
  package,   (* number of the package that is scanned                       *)
  target,    (* number of its autoload target                               *)
  left,      (* candidates of it that are not looked at yet                 *)
  work,      (* entries the iterators still hold                            *)
  files,     (* what discover found                                         *)
  skipped,
  compiled   (* files that are compiled                                     *)

scan == <<package, target, left, work>>

vars == <<root, packages, pc, package, target, left, work, files, skipped, compiled>>

\* The first n names of a path.
Cut(p, n) == SubSeq(p, 1, n)

\* within.
Within(p, d) == Len(d) <= Len(p) /\ Cut(p, Len(d)) = d

Name(p) == p[Len(p)]

ASSUME OnDisk ==
  /\ Tree \subseteq Seq(Names)
  /\ Kind \in [Tree -> {"dir", "file", "link", "other"}]
  /\ \A p \in Tree : \A n \in 0..(Len(p) - 1) : Cut(p, n) \in Tree /\ Kind[Cut(p, n)] = "dir"
  /\ Nowhere \notin Tree
  /\ Realpath \in [Candidates -> Tree \cup {Nowhere}]
  /\ \A c \in Candidates : Realpath[c] # Nowhere => Kind[Realpath[c]] # "link"

ASSUME RootsAreDirectories == Roots \subseteq {p \in Tree : Kind[p] = "dir"}

\* A package of installed.json, the application itself, or Drupal's core: its
\* directory may be missing.
ASSUME ComposerFiles ==
  Metadata \subseteq
    Seq([kind : {"production", "development", "drupal", "missing"}, base : Tree,
         targets : Seq(SUBSET Candidates), excluded : SUBSET Tree])

Init ==
  /\ root \in Roots /\ packages \in Metadata
  /\ pc = "discover" /\ package = 0 /\ target = 0 /\ left = {} /\ work = {}
  /\ files = {} /\ skipped = 0 /\ compiled = {}

-----------------------------------------------------------------------------
\* discover.

\* Mutant: development packages are scanned.
ScannedAll(k) == packages[k].kind # "missing"

Scanned(k) == packages[k].kind = "production"

Targets(k) == IF Scanned(k) THEN Len(packages[k].targets) ELSE 0

\* Mutant: links in a tree are followed.
AdmittedThroughLinks(d) ==
  {Realpath[p] : p \in {q \in Tree : /\ Len(q) = Len(d) + 1 /\ Cut(q, Len(d)) = d
                                     /\ Name(q) \notin Omitted \cup Unscanned}} \ {Nowhere}

\* The entries of d that the filter lets pass.
Admitted(d) ==
  {p \in Tree : /\ Len(p) = Len(d) + 1 /\ Cut(p, Len(d)) = d
                /\ Kind[p] # "link"
                /\ Name(p) \notin Omitted \cup Unscanned}

\* Of the path below the root: substr leaves out strlen(root) + 1 characters,
\* which is one too many if the root is "/".
OmittedBelowRoot(f) ==
  \/ \E n \in (Len(root) + 1)..Len(f) : f[n] \in Omitted /\ (root = <<>> => n > 1)
  \/ root = <<>> /\ Len(f) > 0 /\ f[1] \in Cropped

\* The targets of this package are done.
PackageDone == left = {} /\ work = {} /\ (package > 0 => target = Targets(package))

NextPackage ==
  /\ pc = "discover" /\ PackageDone
  /\ package < Len(packages)
  /\ package' = package + 1 /\ target' = 0
  /\ UNCHANGED <<root, packages, pc, left, work, files, skipped, compiled>>

\* A candidate leads to something, and into the root.
Inside(c) == Realpath[c] # Nowhere /\ Within(Realpath[c], root)

\* glob of the next target gives its candidates, each as often as it does.
NextTarget ==
  /\ pc = "discover" /\ left = {} /\ work = {}
  /\ package > 0 /\ target < Targets(package)
  /\ target' = target + 1
  /\ left' = packages[package].targets[target + 1]
  /\ UNCHANGED <<root, packages, pc, package, work, files, skipped, compiled>>

\* Mutant: a candidate outside the root is not counted.
SkipCandidateUncounted ==
  /\ pc = "discover" /\ work = {}
  /\ \E c \in left : ~Inside(c) /\ left' = left \ {c}
  /\ UNCHANGED <<root, packages, pc, package, target, work, files, skipped, compiled>>

SkipCandidate ==
  /\ pc = "discover" /\ work = {}
  /\ \E c \in left :
       /\ ~Inside(c)
       /\ left' = left \ {c}
  /\ skipped' = skipped + 1
  /\ UNCHANGED <<root, packages, pc, package, target, work, files, compiled>>

\* Mutant: the target of a link is not compared with the root.
TakeCandidateUnchecked ==
  /\ pc = "discover" /\ work = {}
  /\ \E c \in left :
       /\ Realpath[c] # Nowhere
       /\ left' = left \ {c}
       /\ work' = {Realpath[c]}
  /\ UNCHANGED <<root, packages, pc, package, target, files, skipped, compiled>>

\* The real path of a candidate, a directory or a file.
TakeCandidate ==
  /\ pc = "discover" /\ work = {}
  /\ \E c \in left :
       /\ Inside(c)
       /\ left' = left \ {c}
       /\ work' = {Realpath[c]}
  /\ UNCHANGED <<root, packages, pc, package, target, files, skipped, compiled>>

OpenDirectory ==
  /\ pc = "discover"
  /\ \E d \in work :
       /\ Kind[d] = "dir"
       /\ work' = (work \ {d}) \cup Admitted(d)
  /\ UNCHANGED <<root, packages, pc, package, target, left, files, skipped, compiled>>

\* A regular file with a name in Php, below the root.
Source(f) == Kind[f] = "file" /\ Len(f) > 0 /\ Name(f) \in Php /\ Within(f, root)

Refused(f) ==
  \/ OmittedBelowRoot(f) \/ Name(f) = "index.php"
  \/ f \in packages[package].excluded

TakeFile ==
  /\ pc = "discover"
  /\ \E f \in work :
       /\ Kind[f] # "dir"
       /\ work' = work \ {f}
       /\ \/ Source(f) /\ ~Refused(f) /\ files' = files \cup {f} /\ UNCHANGED skipped
          \/ Source(f) /\ Refused(f) /\ skipped' = skipped + 1 /\ UNCHANGED files
          \/ ~Source(f) /\ UNCHANGED <<files, skipped>>
  /\ UNCHANGED <<root, packages, pc, package, target, left, compiled>>

\* A directory that cannot be read, or metadata that is not JSON, throws.
DiscoverThrows ==
  /\ pc = "discover"
  /\ pc' = "failed"
  /\ UNCHANGED <<root, packages, package, target, left, work, files, skipped, compiled>>

Discovered ==
  /\ pc = "discover" /\ PackageDone /\ package = Len(packages)
  /\ pc' = "compile"
  /\ UNCHANGED <<root, packages, package, target, left, work, files, skipped, compiled>>

-----------------------------------------------------------------------------
\* preload.php.

\* opcache_compile_file.  A file that is gone or does not compile throws, and
\* PHP does not start.
Compile ==
  /\ pc = "compile"
  /\ \E f \in files \ compiled :
       \/ compiled' = compiled \cup {f} /\ UNCHANGED pc
       \/ pc' = "failed" /\ UNCHANGED compiled
  /\ UNCHANGED <<root, packages, scan, files, skipped>>

Preloaded ==
  /\ pc = "compile" /\ files \subseteq compiled
  /\ pc' = "serving"
  /\ UNCHANGED <<root, packages, scan, files, skipped, compiled>>

Done == pc \in {"serving", "failed"} /\ UNCHANGED vars

Next ==
  \/ NextPackage
  \/ NextTarget
  \/ SkipCandidate
  \/ TakeCandidate
  \/ OpenDirectory
  \/ TakeFile
  \/ DiscoverThrows
  \/ Discovered
  \/ Compile
  \/ Preloaded
  \/ Done

\* One process, which goes on as long as it can.
Spec == Init /\ [][Next]_vars /\ WF_vars(Next)
-----------------------------------------------------------------------------
TypeOK ==
  /\ root \in Roots /\ packages \in Metadata
  /\ pc \in {"discover", "compile", "serving", "failed"}
  /\ package \in 0..Len(packages)
  /\ target \in Nat
  /\ left \subseteq Candidates /\ work \subseteq Tree
  /\ files \subseteq Tree /\ compiled \subseteq files
  /\ skipped \in Nat

\* What should be found, without a walk.  f lies at d or below it, and on the
\* way from d to f is no link and no name that is passed over.
Reached(f, d) ==
  /\ Within(f, d)
  /\ \A n \in (Len(d) + 1)..Len(f) :
       Kind[Cut(f, n)] # "link" /\ f[n] \notin Omitted \cup Unscanned

\* Candidate c of target n of package k, which is one for production, leads
\* into the root.
Leads(k, n, c) ==
  /\ k \in 1..Len(packages) /\ packages[k].kind = "production"
  /\ n \in 1..Len(packages[k].targets) /\ c \in packages[k].targets[n]
  /\ Inside(c)

\* Package k leaves f out: README.md, "It honors classmap exclusions and omits
\* development packages, test/fixture paths, Drupal module/theme trees, and
\* index.php".
LeftOut(k, f) ==
  \/ \E n \in (Len(root) + 1)..Len(f) : f[n] \in Omitted
  \/ Name(f) = "index.php"
  \/ f \in packages[k].excluded

Wanted ==
  {f \in Tree : Source(f) /\ \E k \in 1..Len(packages) :
     ~LeftOut(k, f) /\ \E n \in 1..Len(packages[k].targets) : \E c \in packages[k].targets[n] :
                         Leads(k, n, c) /\ Reached(f, Realpath[c])}

\* What discover counts as excluded: candidate c of target n of production
\* package k, if it leads nowhere or out of the root, and otherwise each source
\* file f it leads to that the package leaves out.
Report(k, n, c, f) ==
  /\ packages[k].kind = "production"
  /\ \/ ~Inside(c) /\ f = Nowhere
     \/ Inside(c) /\ f \in Tree /\ Source(f) /\ LeftOut(k, f) /\ Reached(f, Realpath[c])

\* Each as often as a target gives it.
Reports ==
  UNION {UNION {UNION {{<<k, n, c, f>> : f \in {g \in Tree \cup {Nowhere} : Report(k, n, c, g)}} :
                         c \in packages[k].targets[n]} :
                  n \in 1..Len(packages[k].targets)} : k \in 1..Len(packages)}

\* discover: whatever order the directories are read in, through whatever
\* targets a file is found and however often, the files are the wanted ones.
\* A server that serves has compiled them all and nothing else.  (Not if the
\* root is "/": see OmitsTestTrees.)
PreloadsTheWanted ==
  root # <<>> =>
    /\ pc \in {"compile", "serving"} => files = Wanted
    /\ pc = "serving" => compiled = Wanted

\* tests/preload.php: discovery is deterministic, down to the number of
\* excluded files it reports.
CountsTheExcluded ==
  pc \in {"compile", "serving"} /\ root # <<>> => skipped = Cardinality(Reports)

\* README: targets outside the application root are skipped, and symbolic
\* links are no way out.  The iterators walk no entry outside the root, and no
\* file outside it is compiled.  (glob itself and the reading of Composer's files
\* may look outside: they come before the test.)
NothingOutsideIsWalked == \A e \in work \cup files : Within(e, root)

\* Symbolic links may form loops.  Discovery ends all the same, and with it
\* the start of PHP.
PreloadingEnds == <>(pc \in {"serving", "failed"})

\* README.md:75: "omits development packages, test/fixture paths, Drupal
\* module/theme trees": whatever the root is, no file is found in such a path
\* below it.
OmitsTestTrees == \A f \in files : \A n \in (Len(root) + 1)..Len(f) : f[n] \notin Omitted

-----------------------------------------------------------------------------
\* The inductive invariant.  What is found is wanted; what is wanted is found
\* or still ahead: in a later package, a later target, a candidate not looked
\* at yet, or below an entry that waits.

Position ==
  /\ package = 0 => target = 0 /\ left = {} /\ work = {}
  /\ package > 0 => target <= Targets(package)
  /\ left # {} => target > 0 /\ left \subseteq packages[package].targets[target]
  /\ \A e \in work : \E c \in Candidates : Leads(package, target, c) /\ Reached(e, Realpath[c])
  /\ pc \in {"compile", "serving"} => PackageDone /\ package = Len(packages)
  /\ pc = "serving" => files \subseteq compiled

Ahead(f, k, n, c) ==
  \/ k > package
  \/ k = package /\ n > target
  \/ k = package /\ n = target /\ c \in left
  \/ k = package /\ n = target /\ \E e \in work : Reached(f, e)

NothingIsLost ==
  \A f \in Tree : \A k \in 1..Len(packages) : \A n \in 1..Len(packages[k].targets) :
    \A c \in packages[k].targets[n] :
      Leads(k, n, c) /\ Reached(f, Realpath[c]) /\ Source(f) /\ ~LeftOut(k, f) =>
        f \in files \/ Ahead(f, k, n, c)

\* What is counted is what was reported.  A report is still ahead in a later
\* package, a later target, a candidate not looked at yet, or below an entry
\* that waits of the candidate cur the iterators walk; and below one entry only.

Unseen(k, n, c, f, cur) ==
  \/ k > package
  \/ k = package /\ n > target
  \/ k = package /\ n = target /\ c \in left
  \/ k = package /\ n = target /\ c = cur /\ \E e \in work : Reached(f, e)

Seen(cur) == {r \in Reports : ~Unseen(r[1], r[2], r[3], r[4], cur)}

Apart == \A f \in Tree : \A d, e \in work : Reached(f, d) /\ Reached(f, e) => d = e

Walks(cur) ==
  work # {} =>
    /\ Leads(package, target, cur) /\ cur \notin left
    /\ \A e \in work : Reached(e, Realpath[cur])

CountedOnce ==
  \E cur \in Candidates \cup {Nowhere} :
    Walks(cur) /\ IsFiniteSet(Seen(cur)) /\ skipped = Cardinality(Seen(cur))

Inv == TypeOK /\ Position /\ (root # <<>> => files \subseteq Wanted /\ NothingIsLost)

CountInv == Inv /\ Apart /\ (root # <<>> => CountedOnce)
=============================================================================
