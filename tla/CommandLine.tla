---------------------------- MODULE CommandLine ----------------------------
(***************************************************************************)
(* From the command line to a PHP that is ready to fork: parse of          *)
(* src/config.rs, polychrome_main of src/lib.rs, the part of run in        *)
(* src/manager.rs that uses the result, and the settings it leads to       *)
(* (ini_defaults and MINIT of native/sapi.c).                              *)
(*                                                                         *)
(* An argument is a word.  What the code finds out about the text of a     *)
(* word is given by constants: whether it is UTF-8, the number it spells,  *)
(* what it is as an endpoint and as an override of a setting.  The same    *)
(* word may be an option in one place and a value in another.              *)
(*                                                                         *)
(* A path that is relative means a file under the directory the process    *)
(* is in when the path is used; run changes this directory halfway.        *)
(* Whether a file exists is the environment's choice.                      *)
(***************************************************************************)
EXTENDS Integers, Sequences, FiniteSets

CONSTANTS
  Words,      (* what an argument may be                                    *)
  Arguments,  (* the command lines                                          *)
  Utf8,       (* the words that are valid UTF-8                             *)
  Absolute,   (* the words that are absolute paths                          *)
  Number,     (* the number a word spells, -1 if none                       *)
  Endpoint,   (* what a word is for --listen                                *)
  Define,     (* what a word is for -d                                      *)
  Setting,    (* the key and the value of such a word                       *)
  Cpus        (* available_parallelism                                      *)

VARIABLES
  args,     (* the command line                                             *)
  at,       (* position of the next argument                                *)
  pc,       (* place in parse, polychrome_main and run                      *)
  command,  (* what the loop of parse arrives at                             *)
  config,   (* Config                                                       *)
  cwd,      (* directory of the process: the shell's, or the root           *)
  file,     (* settings in the php.ini that was read                        *)
  status    (* exit status; -1 while the process goes on                    *)

vars == <<args, at, pc, command, config, cwd, file, status>>

\* Options with a value, and words that end the parsing.
Valued  == {"--root", "--listen", "--workers", "--request-timeout", "-c", "-d"}
Help    == {"--help", "-h"}
Version == {"--version", "-v"}

Keys == {"opcache.enable", "opcache.preload", "opcache.preload_user"}
Values == {"on", "off", "empty", "helper", "foreign", "user", "unset"}

Place(dir, name) == [dir |-> dir, name |-> name]
NoPlace == Place("none", ".")

\* A path as written: relative paths lead somewhere else after a chdir.
PathOf(w) == Place(IF w \in Absolute THEN "/" ELSE "here", w)

\* Where a path leads for a process in directory d.
Resolved(p, d) == IF p.dir = "here" THEN Place(d, p.name) ELSE p

Defaults ==
  [root |-> Place("here", "."), listen |-> "127.0.0.1:9000", workers |-> Cpus,
   timeout |-> 30, preload |-> TRUE, ini |-> NoPlace, defines |-> <<>>]

ASSUME WordsAreRead ==
  /\ Arguments \subseteq Seq(Words)
  /\ Number \in [Words -> Int]
  /\ Endpoint \in [Words -> {"unix", "relative", "address", "port 0", "none"}]
  /\ Defaults.listen \in Words => Endpoint[Defaults.listen] = "address"
  /\ Define \in [Words -> {"setting", "reserved", "malformed", "bare"}]
  /\ Cpus \in Nat \ {0}

Init ==
  /\ args \in Arguments /\ at = 1
  /\ pc = "parse" /\ command = "none" /\ config = Defaults
  /\ cwd = "shell" /\ file = [k \in Keys |-> "unset"] /\ status = -1

-----------------------------------------------------------------------------
\* parse.

MaxWorkers == 4096
MaxTimeout == 86400

\* Mutant: no lower bound.
LimitsFromZero == [workers |-> 0..MaxWorkers, timeout |-> 0..MaxTimeout]

Limits == [workers |-> 1..MaxWorkers, timeout |-> 1..MaxTimeout]

\* Mutant: the path of a Unix socket may be relative.
UsableEndpointsRelative == {"unix", "relative", "address"}

UsableEndpoints == {"unix", "address"}

\* The value w passes the checks of option o.  Paths may be any bytes.
Acceptable(o, w) ==
  \/ o \in {"--root", "-c"}
  \/ /\ w \in Utf8
     /\ \/ o = "--listen" /\ Endpoint[w] \in UsableEndpoints
        \/ o = "--workers" /\ Number[w] \in Limits.workers
        \/ o = "--request-timeout" /\ Number[w] \in Limits.timeout
        \/ o = "-d" /\ Define[w] = "setting"

\* The argument at i, taken for an option, is an error: not UTF-8, unknown,
\* without a value or with a bad one.
Wrong(i) ==
  \/ args[i] \notin Utf8
  \/ args[i] \notin Valued \cup Help \cup Version \cup {"--no-preload"}
  \/ args[i] \in Valued /\ (i < Len(args) => ~Acceptable(args[i], args[i + 1]))

\* Mutant: an override replaces the ones before it.
WithDefineOnly(defines, w) == <<w>>

WithDefine(defines, w) == Append(defines, w)

With(c, o, w) ==
  CASE o = "--root"            -> [c EXCEPT !.root = PathOf(w)]
    [] o = "--listen"          -> [c EXCEPT !.listen = w]
    [] o = "--workers"         -> [c EXCEPT !.workers = Number[w]]
    [] o = "--request-timeout" -> [c EXCEPT !.timeout = Number[w]]
    [] o = "-c"                -> [c EXCEPT !.ini = PathOf(w)]
    [] OTHER                   -> [c EXCEPT !.defines = WithDefine(@, w)]

\* The loop has an argument to look at.
Reading == pc = "parse" /\ at <= Len(args)

Exit(code) == pc' = "exit" /\ status' = code

\* --help and --version win over everything behind them.
Answer ==
  /\ Reading /\ args[at] \in Utf8
  /\ \/ args[at] \in Help /\ command' = "help"
     \/ args[at] \in Version /\ command' = "version"
  /\ Exit(0)
  /\ UNCHANGED <<args, at, config, cwd, file>>

Refuse ==
  /\ Reading /\ Wrong(at)
  /\ command' = "error"
  /\ Exit(2)
  /\ UNCHANGED <<args, at, config, cwd, file>>

NoPreload ==
  /\ Reading /\ ~Wrong(at) /\ args[at] = "--no-preload"
  /\ at' = at + 1
  /\ config' = [config EXCEPT !.preload = FALSE]
  /\ UNCHANGED <<args, pc, command, cwd, file, status>>

\* Mutant: a value is looked at again, as an option.
TakeValueTwice ==
  /\ Reading /\ ~Wrong(at) /\ args[at] \in Valued
  /\ at' = at + 1
  /\ config' = With(config, args[at], args[at + 1])
  /\ UNCHANGED <<args, pc, command, cwd, file, status>>

\* Mutant: an option given before is passed over.
TakeFirstValue ==
  /\ Reading /\ ~Wrong(at) /\ args[at] \in Valued
  /\ at' = at + 2
  /\ config' = IF \E j \in 1..(at - 1) : args[j] = args[at]
                  THEN config ELSE With(config, args[at], args[at + 1])
  /\ UNCHANGED <<args, pc, command, cwd, file, status>>

\* An option takes the next argument, whatever it looks like.
TakeValue ==
  /\ Reading /\ ~Wrong(at) /\ args[at] \in Valued
  /\ at' = at + 2
  /\ config' = With(config, args[at], args[at + 1])
  /\ UNCHANGED <<args, pc, command, cwd, file, status>>

AllRead ==
  /\ pc = "parse" /\ at > Len(args)
  /\ pc' = "paths" /\ command' = "serve"
  /\ UNCHANGED <<args, at, config, cwd, file, status>>

\* Mutant: the path of php.ini is left as it was written.
CanonicalizeRootOnly ==
  /\ pc = "paths"
  /\ pc' = "run"
  /\ config' = [config EXCEPT !.root = Resolved(@, cwd)]
  /\ UNCHANGED <<args, at, command, cwd, file, status>>

\* root and ini become absolute while the process is where the shell was.
Canonicalize ==
  /\ pc = "paths"
  /\ pc' = "run"
  /\ config' = [config EXCEPT !.root = Resolved(@, cwd), !.ini = Resolved(@, cwd)]
  /\ UNCHANGED <<args, at, command, cwd, file, status>>

\* One of them does not exist, or the root is not a directory.
PathRefused ==
  /\ pc = "paths"
  /\ Exit(2)
  /\ UNCHANGED <<args, at, command, config, cwd, file>>

-----------------------------------------------------------------------------
\* run, up to the start of PHP.

\* The installed helper, if it is wanted, is found; then set_current_dir.
ChangeDirectory ==
  /\ pc = "run"
  /\ pc' = "initialize"
  /\ cwd' = "root"
  /\ UNCHANGED <<args, at, command, config, file, status>>

RunFails ==
  /\ pc = "run"
  /\ Exit(1)
  /\ UNCHANGED <<args, at, command, config, cwd, file>>

ini_defaults ==
  [k \in Keys |-> CASE k = "opcache.enable"  -> "on"
                    [] k = "opcache.preload" -> IF config.preload THEN "helper" ELSE "empty"
                    [] OTHER                 -> "user"]

\* The places in the -d options that set k.
Overrides(k) == {n \in 1..Len(config.defines) : Setting[config.defines[n]].key = k}

\* Command line over file over default; the last override of a key counts.
Effective(f, k) ==
  IF Overrides(k) # {}
    THEN LET n == CHOOSE n \in Overrides(k) : \A m \in Overrides(k) : m <= n
         IN  Setting[config.defines[n]].value
    ELSE IF f[k] # "unset" THEN f[k] ELSE ini_defaults[k]

\* Mutant: only the settings of the command line are looked at.
MinitTrustsFile(f) ==
  config.preload => Effective(f, "opcache.enable") = "on"

\* Automatic preloading needs OPcache; preload and its user are reserved.
Minit(f) ==
  /\ config.preload => Effective(f, "opcache.enable") = "on"
  /\ Effective(f, "opcache.preload") = ini_defaults["opcache.preload"]
  /\ Effective(f, "opcache.preload_user") = "user"

\* The settings a php.ini may hold.
Files ==
  {f \in [Keys -> Values] :
     /\ f["opcache.enable"] \in {"unset", "on", "off"}
     /\ f["opcache.preload"] \in {"unset", "empty", "helper", "foreign"}
     /\ f["opcache.preload_user"] \in {"unset", "user", "foreign"}}

\* poly_initialize reads php.ini where the path leads now.
poly_initialize ==
  /\ pc = "initialize"
  /\ file' \in Files
  /\ \/ Minit(file') /\ pc' = "started" /\ UNCHANGED status
     \/ Exit(1)
  /\ UNCHANGED <<args, at, command, config, cwd>>

\* PHP is started and the manager serves, or the process has ended.
Done == pc \in {"started", "exit"} /\ UNCHANGED vars

Next ==
  \/ Answer
  \/ Refuse
  \/ NoPreload
  \/ TakeValue
  \/ AllRead
  \/ Canonicalize
  \/ PathRefused
  \/ ChangeDirectory
  \/ RunFails
  \/ poly_initialize
  \/ Done

Spec == Init /\ [][Next]_vars
-----------------------------------------------------------------------------
Places == [dir : {"none", "here", "shell", "root", "/"}, name : Words \cup {"."}]

\* The words -d takes.
SettingWords == {w \in Words : Define[w] = "setting"}

\* The limits of the command line; what is not given keeps its default.
Configs ==
  [root : Places, ini : Places, listen : Words \cup {Defaults.listen},
   workers : 1..MaxWorkers \cup {Cpus}, timeout : 1..MaxTimeout, preload : BOOLEAN,
   defines : Seq(SettingWords)]

CommandLineTypeOK ==
  /\ args \in Seq(Words)
  /\ at \in 1..(Len(args) + 1)
  /\ pc \in {"parse", "paths", "run", "initialize", "started", "exit"}
  /\ command \in {"none", "help", "version", "error", "serve"}
  /\ config \in Configs
  /\ cwd \in {"shell", "root"}
  /\ file \in [Keys -> Values]
  /\ status \in {-1, 0, 1, 2}

\* The command line read as a whole, not from left to right.  The argument at
\* i stands for an option exactly if an even number of options with a value
\* comes directly before it: in pairs, each takes the next for its value.
IsOption(i) ==
  \E k \in 0..(i - 1) :
    /\ k = 0 \/ args[k] \notin Valued
    /\ \A j \in (k + 1)..(i - 1) : args[j] \in Valued
    /\ (i - 1 - k) % 2 = 0

Options == {i \in 1..Len(args) : IsOption(i)}

\* Options that end the parsing.
Ends(i) == Wrong(i) \/ args[i] \in Help \cup Version

\* i is the option o, and there is none behind it.
LastOf(o, i) == i \in Options /\ args[i] = o /\ \A j \in Options : args[j] = o => j <= i

Absent(o) == \A i \in Options : args[i] # o

\* parse: the first option that is an error or asks for help or the version
\* decides, and nothing else does: not the value of another option that looks
\* like it, nor an error behind it.
FirstWordDecides ==
  /\ command = "serve" => \A i \in Options : ~Ends(i)
  /\ command \in {"help", "version", "error"} =>
       \E i \in Options :
         /\ Ends(i) /\ \A j \in Options : Ends(j) => i <= j
         /\ command = "error" <=> Wrong(i)
         /\ command = "help" => args[i] \in Help

\* parse: an option that is repeated counts with its last value, one that is
\* not given has its default.
LastOptionCounts ==
  command = "serve" =>
    /\ \/ Absent("--workers") /\ config.workers = Cpus
       \/ \E i \in Options : LastOf("--workers", i) /\ config.workers = Number[args[i + 1]]
    /\ \/ Absent("--request-timeout") /\ config.timeout = 30
       \/ \E i \in Options :
            LastOf("--request-timeout", i) /\ config.timeout = Number[args[i + 1]]
    /\ \/ Absent("--listen") /\ config.listen = "127.0.0.1:9000"
       \/ \E i \in Options : LastOf("--listen", i) /\ config.listen = args[i + 1]
    /\ config.preload <=> Absent("--no-preload")

\* The overrides are the values of the -d among the options S, in the order of
\* the command line: each stands at its rank.
Given(S) == {i \in S : args[i] = "-d"}

InOrder(S) ==
  /\ Len(config.defines) = Cardinality(Given(S))
  /\ \A i \in Given(S) :
       config.defines[Cardinality({j \in Given(S) : j <= i})] = args[i + 1]

\* README: -d is repeatable.  Every override is kept, in the order given.
DefinesInOrder == command = "serve" => InOrder(Options)

\* The place of the Unix socket, if the server listens on one.
SocketPath(w) ==
  CASE Endpoint[w] = "unix"     -> Place("/", w)
    [] Endpoint[w] = "relative" -> Place("here", w)
    [] OTHER                    -> NoPlace

\* run changes to the root before PHP reads its configuration and before the
\* socket is bound.  What was named on the command line is found all the same
\* where it was when the user typed it.
NamesSurviveChdir ==
  pc \in {"initialize", "started"} =>
    /\ \/ Absent("-c") /\ config.ini = NoPlace
       \/ \E i \in Options :
            /\ LastOf("-c", i)
            /\ Resolved(config.ini, cwd) = Resolved(PathOf(args[i + 1]), "shell")
    /\ \/ Absent("--root") /\ Resolved(config.root, cwd) = Place("shell", ".")
       \/ \E i \in Options :
            /\ LastOf("--root", i)
            /\ Resolved(config.root, cwd) = Resolved(PathOf(args[i + 1]), "shell")
    /\ config.listen \in Words =>
         Resolved(SocketPath(config.listen), cwd) = Resolved(SocketPath(config.listen), "shell")

\* README: preloading is automatic, and Polychrome owns its settings.  A PHP
\* that has started preloads the helper, as the user and with OPcache on,
\* unless --no-preload was given; then it preloads nothing.  No php.ini and no
\* -d can change that.
PreloadAsAsked ==
  pc = "started" =>
    /\ Absent("--no-preload") =>
         /\ Effective(file, "opcache.enable") = "on"
         /\ Effective(file, "opcache.preload") = "helper"
         /\ Effective(file, "opcache.preload_user") = "user"
    /\ ~Absent("--no-preload") =>
         Effective(file, "opcache.preload") = "empty"

-----------------------------------------------------------------------------
\* The inductive invariant.  The loop stands at an option whenever it comes
\* round; none of the options behind it ended the parsing; and the fields hold
\* what the options behind it say.

Passed == {i \in Options : i < at}

LastPassed(o, i) == i \in Passed /\ args[i] = o /\ \A j \in Passed : args[j] = o => j <= i

NonePassed(o) == \A i \in Passed : args[i] # o

Known ==
  /\ \/ NonePassed("--workers") /\ config.workers = Cpus
     \/ \E i \in Passed : LastPassed("--workers", i) /\ config.workers = Number[args[i + 1]]
  /\ \/ NonePassed("--request-timeout") /\ config.timeout = 30
     \/ \E i \in Passed :
          LastPassed("--request-timeout", i) /\ config.timeout = Number[args[i + 1]]
  /\ \/ NonePassed("--listen") /\ config.listen = "127.0.0.1:9000"
     \/ \E i \in Passed :
          /\ LastPassed("--listen", i) /\ config.listen = args[i + 1]
          /\ Endpoint[config.listen] \in UsableEndpoints
  /\ config.preload <=> NonePassed("--no-preload")
  /\ InOrder(Passed)

\* A path as it stands in the configuration: written, then resolved.
Kept(p) == IF pc \in {"parse", "paths"} THEN p ELSE Resolved(p, "shell")

PathsKnown ==
  pc # "exit" =>
    /\ \/ NonePassed("-c") /\ config.ini = NoPlace
       \/ \E i \in Passed : LastPassed("-c", i) /\ config.ini = Kept(PathOf(args[i + 1]))
    /\ \/ NonePassed("--root") /\ config.root = Kept(Place("here", "."))
       \/ \E i \in Passed : LastPassed("--root", i) /\ config.root = Kept(PathOf(args[i + 1]))

ParseInv ==
  /\ pc = "parse" => IsOption(at)
  /\ pc = "parse" <=> command = "none"
  /\ \A i \in Passed : ~Ends(i)
  /\ command \in {"help", "version", "error"} =>
       /\ pc = "exit" /\ at \in Options /\ Ends(at)
       /\ command = "error" <=> Wrong(at)
       /\ command = "help" => args[at] \in Help
  /\ command = "serve" => at = Len(args) + 1
  /\ pc \in {"initialize", "started"} => cwd = "root"
  /\ pc \in {"parse", "paths", "run"} => cwd = "shell"

Inv == CommandLineTypeOK /\ ParseInv /\ Known /\ PathsKnown /\ PreloadAsAsked
=============================================================================
