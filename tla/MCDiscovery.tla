---------------------------- MODULE MCDiscovery ----------------------------
(***************************************************************************)
(* An application with what the rules of discovery are about: tests,       *)
(* index.php, a vendor directory, links that loop, lead elsewhere in the   *)
(* application and out of it; and all the metadata that select from a few  *)
(* targets for a library and for the application.                          *)
(***************************************************************************)
EXTENDS Discovery

MCPhp == {"A.php", "B.php", "C.php", "T.php", "index.php"}
MCOmitted == {"tests"}
MCUnscanned == {"vendor", ".git"}
MCCropped == {"xtests"}

App == <<"app">>
Src == App \o <<"src">>
Vendor == App \o <<"vendor">>
Library == Vendor \o <<"lib">>

Directories ==
  {<<>>, App, Src, Src \o <<"tests">>, Src \o <<"sub">>, App \o <<"tests">>, Vendor, Library,
   <<"other">>, <<"tests">>}

SourceFiles ==
  {Src \o <<"A.php">>, Src \o <<"B.php">>, Src \o <<"sub", "A.php">>, Src \o <<"tests", "T.php">>,
   Src \o <<"index.php">>, App \o <<"tests", "T.php">>, Library \o <<"C.php">>,
   <<"other", "C.php">>, <<"tests", "T.php">>}

Links ==
  {Src \o <<"loop">>, Src \o <<"out">>, App \o <<"short">>, App \o <<"away">>, App \o <<"dangling">>}

MCTree == Directories \cup SourceFiles \cup Links \cup {Src \o <<"README">>}

MCNames == UNION {{p[i] : i \in DOMAIN p} : p \in MCTree}

MCKind == [p \in MCTree |-> IF p \in Directories THEN "dir" ELSE IF p \in Links THEN "link" ELSE "file"]

MCNowhere == <<"-">>

\* Paths as they are, one through a link and "..", and one that a brace pattern
\* gives a second time.
Roundabout == Src \o <<"out", "..", "other", "C.php">>
Again == <<"again">> \o Src \o <<"index.php">>

MCCandidates == MCTree \cup {Roundabout, Again}

MCRealpath ==
  [p \in MCCandidates |->
     CASE p = Src \o <<"loop">>       -> App
       [] p = Src \o <<"out">>        -> <<"other">>
       [] p = App \o <<"short">>      -> Src
       [] p = App \o <<"away">>       -> <<"other", "C.php">>
       [] p = App \o <<"dangling">>   -> MCNowhere
       [] p = Roundabout              -> <<"other", "C.php">>
       [] p = Again                   -> Src \o <<"index.php">>
       [] OTHER                       -> p]

Application(targets, excluded) ==
  [kind |-> "production", base |-> App, targets |-> targets, excluded |-> excluded]

LibraryAs(kind) ==
  [kind |-> kind, base |-> Library, targets |-> <<{Library}>>, excluded |-> {}]

\* What one entry of the autoload section may give.
Globs ==
  {{}, {App}, {Src}, {App \o <<"short">>, App \o <<"away">>, App \o <<"dangling">>},
   {Src \o <<"A.php">>, App \o <<"tests", "T.php">>, Src \o <<"index.php">>, Again},
   {Src \o <<"loop">>, <<"other">>, Roundabout}}

MCMetadata ==
  {<<LibraryAs(kind), Application(<<one, two>>, excluded)>> :
     kind \in {"production", "development", "drupal", "missing"},
     one \in Globs, two \in Globs, excluded \in {{}, {Src \o <<"B.php">>}}}

\* An application in the root of the file system.
TopMetadata ==
  {<<[Application(<<one>>, {}) EXCEPT !.base = <<>>]>> : one \in {{App}, {<<"tests", "T.php">>}}}

MCRoots == {App}
TopRoot == {<<>>}
=============================================================================
