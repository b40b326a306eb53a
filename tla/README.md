# Polychrome in TLA+

Polychrome is a FastCGI server for PHP. A manager written in Rust initialises
PHP once, keeps that image as a zygote and forks children from it; each child
accepts one connection, runs one request, exits and is replaced. This
directory holds TLA+ models of it, the TLC runs that check them, and proofs
checked by TLAPS. `manager.rs`, `config.rs` and `lib.rs` are in the repository's
`src/`, `sapi.c` and `fastcgi_bridge.c` in its `native/`.

## 1. The system

| Part | State it keeps | Operations | Talks to |
| --- | --- | --- | --- |
| Supervision (`manager.rs`: `supervise`, parent half of `spawn`) | table of workers (pid, event socket, `started`, `killed`, `born`), `draining`, `retry_at`, `failures`, `fatal` | fill the pool; poll; read accept stamps; read stop signals; kill what is overdue; reap | children: `fork`, `SIGUSR1`, `SIGKILL`, `waitpid`, one datagram per child; operator: `SIGTERM`, `SIGINT` |
| Child (`manager.rs`: child half of `spawn`; `sapi.c`: `drain_handler`, `before_accept`, `poly_connection_accepted`, `poly_serve_one`; `fastcgi_bridge.c`) | `connection_active`, `drain_requested`, blocked signals, death signal | guard against the parent's death; install handlers and unmask; accept one connection; report it; serve; exit | manager: stamp and exit status; clients: the listening socket |
| Request (`sapi.c`: `poly_serve_one` and the SAPI callbacks) | `request`, `response_finished`, `started`, `result`; PHP's own `headers_sent`, exit status, body counter | refuse, start, run, finish early, shut down, close | PHP code by callbacks and `longjmp`; client by FastCGI records |
| Startup and shutdown (`manager.rs`: `run`; `sapi.c`: `poly_initialize`, `poly_shutdown`; `lib.rs`) | signal mask, `runtime_initialized` | block signals, start PHP (which preloads), check for threads, bind, supervise, release | operating system |
| Listener (`manager.rs`: `Listener`) | descriptor; path, device and inode of a Unix socket | bind, restrict the mode, unlink if it is still its own | other managers over the same path |
| Command line (`config.rs`) | `Config` | parse and validate | — |
| Preload discovery (`preload/discovery.php`) | set of files | walk Composer metadata and directories | OPcache |
| PHP configuration (`sapi.c`: `ini_defaults`, `MINIT`) | INI table | defaults, reserved settings | PHP |

What is hard about it: manager and children run concurrently and learn of each
other only by asynchronous signals, one datagram and an exit status; either
side may die between any two steps; pids are recycled; two kinds of deadline,
a startup window and a back-off run on clocks that are read at different
moments; a child may block for ever in PHP code or in a client's hands; PHP
leaves C code by `longjmp` at every callback. `PROJECT.json` lists each hazard
with its line and the properties that would notice it going wrong.

What makes each part correct:

- *Supervision*: the table is exactly the set of child processes; never more
  children than `--workers`; a vacancy is filled again; only what is really
  overdue is killed; a drain reaches every child and ends; back-offs are
  waited out.
- *Child*: one connection each; none after a drain; nobody serves for a dead
  manager; the manager learns the time of the accept.
- *Request*: the response is well framed on every path, and complete unless PHP
  itself could not be started; nothing reaches the connection after it was finished; PHP is shut down exactly if it
  was started; a fatal error shows in the exit status; the child waits for the
  client before it leaves.
- *Startup, shutdown, listener*: a stop signal is never lost; the address of
  another server is never taken or removed; an orderly end leaves no path behind.
- *Command line and configuration*: every word is read for what it is, option or
  value; accepted values are in range; paths mean what they meant to the user;
  neither `php.ini` nor `-d` can change what is preloaded.
- *Discovery*: exactly the files the rules select are compiled, whatever order
  the directories are read in; nothing outside the root is walked or compiled; the
  walk ends.

## 2. Modules

| Module | What it is |
| --- | --- |
| `Child` | one child per pid, from `fork` to the zombie; EXTENDed by |
| `Pool` | the manager's loop over those children, the operator, the clock and the manager's death: the composed system |
| `PoolProperties` | type invariant, safety and action properties, the inductive invariant, liveness, and two claims that do not hold |
| `PoolPromise` | the abstract specification: idle and serving children and a phase, without loop, signals, sockets or clocks |
| `PoolRefinement` | the mapping under which `Pool` implements `PoolPromise`, and the one under which its steps are actions of `Address` |
| `MCPool` | model values and symmetry for TLC |
| `PoolProof`, `PoolRefinementProof` | the theorems of the pool and of its refinement |
| `Address` | managers around their pools: startup, listener, shutdown, several of them over one address; with its properties, run directly |
| `AddressProof` | the theorems of `Address` |
| `Exchange` | one request between PHP code, `poly_serve_one` and the client, with its properties |
| `Response` | the abstract specification of a request: what the client has received, whether client and child are there, the status |
| `ExchangeRefinement` | the mapping under which `Exchange` implements `Response` |
| `ExchangeProof` | the theorems of `Exchange` and of its refinement |
| `Serving` | `Pool` and `Exchange` composed: one observed child runs `Exchange` where `Pool` has the single step `ServeEnds` |
| `MCServing`, `ServingProof` | its instance; its theorems, the refinement of `Pool` among them |
| `CommandLine` | from `argv` to a PHP that is ready to fork: `parse`, `polychrome_main`, the paths and settings that result; with its properties |
| `MCCommandLine`, `CommandLineProof` | the words and command lines of the run; the theorems |
| `Discovery` | automatic preloading: `discover` and `preload.php`; with its properties |
| `MCDiscovery`, `DiscoveryProof` | an application on the disk with its metadata; the theorems |

### Pool and Child against the code

`child[p]` is the place of the process p:

| Value | Code |
| --- | --- |
| `forked` | `fork` has returned in the child; closing inherited descriptors |
| `guarded` | after `prctl(PR_SET_PDEATHSIG, SIGKILL)`, before `getppid` |
| `checked` | the parent was there; up to `sigprocmask` in `poly_serve_one` |
| `looping` | unmasked, about to run `before_accept` (first or again) |
| `waiting` | in `accept(2)` |
| `accepted` | `accept(2)` has returned, `poly_connection_accepted` not yet run |
| `active` | `connection_active = 1` and the clock read, stamp not yet sent |
| `serving` | the request, PHP's shutdown and the closing of the connection |
| `zombie`, `none` | exited and not reaped; no process has this pid |

`pc` is the manager's place in `supervise`: `spawn`, `poll`, `stamps`,
`signals`, `deadlines`, `reap`, then again, or `stopped`; `dead` when it was
killed. Every branch of the loop is an action: `Fork`, `SpawnFails` and
`PoolFilled` (172-198), `Poll` and `PollFails` (200-217), `ReadStamps`
(219-234), `ReadStopSignal` and `NoMoreSignals` (235-261), `KillOverdue`
(263-283), `Reap` and `NothingToReap` (284-309). The code's `workers` map is
`workers` with `started` and `killed`; its event sockets are `mailbox`.

Abstractions:

- A pass over the table is one step. The sockets and processes it visits are
  independent of each other, so what a child does in the middle of the pass
  could as well have come just before or just after. Reaping and reading
  signals are one step per process or signal, as the code's loops are.
- Instants become durations that saturate where no comparison can tell them
  apart: `age` (since the stamp was taken) at the request timeout, `life`
  (since `fork`) at the startup window, `grace` and `retry` (time left) at 0.
  `failures` saturates at the 6 of `failures.min(6)`. `Tick` advances all and
  may come between any two steps, so a manager or a child can be arbitrarily
  slow. The stamp and the deadline use the same monotonic clock.
- `SIGCHLD` only cuts the poll short, which ends by itself after 100 ms: `Poll`
  is always enabled and the signal is left out. `SIGTERM`, `SIGINT` and
  `SIGUSR1` run one handler in a child and are one element, `drain`. Each stop
  signal is sent at most once, to the manager alone or to its process group;
  two different ones give the second signal that ends the grace.
- What a request does is one choice here: `ServeEnds` with a good or a bad
  status, at any time or never. `ConnectionRejected` is FastCGI closing a bad
  connection and accepting again. `Crash` covers faults, the OOM killer and a
  bailout before the accept.
- After `fork`, a child holds copies of its siblings' event sockets until it
  has closed them; a stamp sent to a dead manager may therefore still succeed
  (`SendStamp`).

### Exchange against the code

`pc` is the place in `poly_serve_one` or `fastcgi_finish_request`. PHP code is
the environment: in `startup`, `script` and `shutdown` it may print and flush
(`write_output`), read the body (`read_post`), finish (`FinishCalled`), end or
die. The callbacks are installed when `php_request_startup` runs, and what it
runs may print too: displayed errors, the handlers of a session that is opened
at once. `Bailout` is a `longjmp` to the `zend_try` that catches it, and `After`
says where that is: `php_request_startup` catches its own and fails
(`failing`), and `StartupFails` writes `protocol_error` behind what is out
already; a bailout before it (`SetUpFails`) sends nothing. So a request whose
startup printed before it failed is answered with output and error text run
together, under the status of the output (`Spoiled`). No document promises
otherwise; `ResponseWellFormed` and `Response` say that this is the only such
case, and that it is reported as a failure. `fcgi_write` buffers, so that a write to a client that has left may succeed or fail; a
failure disables PHP's output (`muted`) and may abandon the script. A HEAD
request also disables it, when output is what sends the headers (`Emit`). `wire`
is what the client gets, one element per header block, run of body, error of
`protocol_error` and END record. Header values, variables, cookies and the
comparison of paths in `permitted_script` are data and left out.

### Serving against the code

`Serving` has the variables of `Pool` and of `Exchange` (its `pc`, `started` and
`fatal` are called `place`, `phpStarted` and `phpFatal`). The child `probe` does
its steps of `Child` (`Elsewhere`, `Begin`, `Reject`, `Fault`) until it is
`serving`; then `Exchanging` is a step of `Exchange`, and `Finish` is
`_exit(poly_serve_one(...))`, enabled when `Exchange` has come to `exit`, with its
result as the status. The handler of the drain signals, SIGKILL, faults, the
manager's loop (`Managing`), the other children and the operator (`Others`) come
between any two of these. When the zombie is reaped, what the request has left
is forgotten (`Forgotten`): a new process starts with fresh static variables.
`crashed` tells an end by a fault from all others.

### CommandLine against the code

A word of the command line is opaque; constants say what the code's conversions
find in it: `Utf8` (`to_str`), `Number` (`parse`), `Endpoint` (`strip_prefix`,
`is_absolute`, `SocketAddr`, the port), `Define` and `Setting` (`split_once` and
the checks of `-d`). `at` is the iterator: an option with a value takes the next
word, whatever it looks like. A relative path is `here`, that is, it depends on
`cwd`, which `run` changes before PHP reads `php.ini` and before the socket is
bound; `canonicalize` resolves it earlier. Whether a path exists is the
environment's choice. The configuration PHP sees is the value of the last `-d`,
else that of `php.ini`, else that of `ini_defaults`, for the three settings that
decide about preloading; `MINIT` compares them.

### Discovery against the code

A path is a sequence of names. `Tree` and `Kind` are the disk; nothing
lies below a link in `Tree`, since an iterator that does not follow links sees
nothing there. `Metadata` are the packages that Composer's files may list, with
the candidates each `glob` of an autoload target gives and the files that the
exclusion patterns match: patterns, globs and JSON are not modelled as text. A
candidate is a text, perhaps with links and `..` in it, and `Realpath` says where
it leads; one that `GLOB_BRACE` gives twice is two. The model begins with these
results: that `glob` (line 70) reads the directories its pattern names and that
Composer's files are read (lines 36-40), wherever they are, is not in it, and
`NothingOutsideIsWalked` is about what comes after the test of line 72. The loops of
`discover` are `package`, `target`, `left` (candidates of the glob) and `work`
(what the iterators still hold); candidates and entries are taken in any order.
`OmittedBelowRoot` is the regular expression of line 88 with the `substr` of line
87, which for the root `/` leaves out a letter: `Cropped` are the names that
match without their first one. `TakeFile`, `SkipCandidate` and the rest follow
the branches; `DiscoverThrows` and `Compile` are the failures that keep PHP from
starting. The filter of the walk knows the name `vendor` only (`Unscanned`), while
line 36 reads the name of Composer's directory from `config.vendor-dir`: a walk
from above enters one of another name, development packages included.

### Address against the code

`pc[m]` is the place of the manager m in `run`: `started`, `masked` (345),
`initialized` (346-357), `alone` (361-368), `bound` and `identified` inside
`Listener::bind` (50-56), `serving` and `draining` in `supervise`, `dropping`,
`unlinking` and `closing` in `Listener::drop` and the drop of its fields,
`shutdown` before `poly_shutdown` (373), then `ended`; or `killed`. Each error
leads where the code's `?` or early return leads: a failing `poly_initialize`
returns from `run` at once, errors after it go through `poly_shutdown`, an error
of `symlink_metadata` closes the socket, one of `set_permissions` drops a
complete `Listener`.

`supervise` is reduced to what `PoolPromise` says of it: children come while the
pool is open, leave at any time, and a drain ends when there are none (`Fork`,
`ChildrenLeave`, `SuperviseEnds`). They hold the listening socket; those of a
killed manager are the `orphaned` holders until they vanish, which `Pool` shows
they do. `PoolRefinement` states that this reduction leaves nothing out
(`StandsInAddress`): with one manager that holds the port from before the first
`fork` until the loop ends, each step of `Pool` is one of these actions or
`PollFails`, `Killed`, `OrphansVanish`, or changes nothing that `Address` sees. A
stop signal that is read has the effect of `PollFails` on the listener. The
kernel's rule for inodes is part of the model: a number is given to
a new socket only when neither a path nor an open descriptor refers to the old
one (`InUse`). The operator starts managers again and may remove the path, also
under a living manager, but not between two adjacent system calls of a manager
on that path (`Halfway`): neither the code nor the kernel could do anything
about that race, see the hazard at `manager.rs:72`.

## 3. Runs

| Run | Specification | What it checks | Bounds |
| --- | --- | --- | --- |
| `pool_fleet` | `Spec` | `ChildrenTracked`, `PoolBounded`, `DrainReachesAll`, `NoOrphanServes`, `PromiseSafety` | 3 pids (symmetric), 2 workers, one stop signal, every duration 1 |
| `pool_timing` | `Spec` | `PoolTypeOK`, `KillJustified`, `WaitingIsFresh`, `RecordsAreTrue` | 2 pids, 1 worker, both signals; timeout 3, window 2, grace 2, back-off up to 5 |
| `pool_live` | `FairSpec` | `StopCompletes`, `TimeoutEnforced`, `OrphansVanish`, `PromiseKept` | 2 pids, 1 worker, both signals, timeout 2 |
| `pool_refill` | `RefillSpec` | `PoolRefills`, `HoldOnlyExpires` | 2 pids, 2 workers, back-off 2 and 3, no stop signal |
| `address` | `FairSpec` | `TypeOK`, `OnlyOwnerUnlinks`, `CloseUnlinks`, `ServedRestricted`, `ShutdownComesLast`, `StopIsKept` | 2 managers, 2 inodes, restarts without bound |
| `exchange` | `FairSpec` | `TypeOK`, `EndOnEveryPath`, `ShutdownIffStarted`, `FinishedIsOver`, `DeathIsReported`, `ResponsePromise`, `ResponseKept` | body of 0 to 2 units |
| `serving` | `ServingSpec` | `OrderlyExitServed`, `NotCutBeforeDeadline` | 1 pid, 1 worker, one stop signal, every duration 1, no body |
| `command_line` | `Spec` | `CommandLineTypeOK`, `FirstWordDecides`, `LastOptionCounts`, `DefinesInOrder`, `NamesSurviveChdir`, `PreloadAsAsked` | all command lines of up to 4 words, all settings of `php.ini` about preloading |
| `discovery` | `Spec` | `PreloadsTheWanted`, `CountsTheExcluded`, `NothingOutsideIsWalked`, `PreloadingEnds` | a tree of 25 paths with 5 links, two more candidates, 288 different metadata |
| `discovery_top` | `Spec` | `OmitsTestTrees`, violated | the same tree, application root `/` |
| `stamps_accounted` | `Spec` | `StampsAccounted`, violated | 2 pids, 1 worker |
| `accepted_drains` | `Spec` | `AcceptedConnectionDrains`, violated | 2 pids, 1 worker |

Why the bounds are enough: the children do not communicate with each other, and
the manager treats each alone except for the size of the table, the back-off
and the drain, which two workers already share; one pid more than workers lets
a pid be recycled next to a living one (`pool_refill`, where only the size of the
table matters, does without). Durations of 1 keep "before", "at" and
"after" a deadline apart; `pool_timing` makes them unequal, so that mistaking
one clock for another shows, and lets the back-off grow
to its cap. A back-off can only be cut short by the exit of another child, so
`HoldOnlyExpires` needs the two workers of `pool_refill`.
Safety does not rest on these bounds: all the safety properties of the pool are
also proved for every value of the constants. In `exchange` two units of body
allow reading in part, reading all and leaving some.

In `address` two managers and two
inodes are enough for a path to pass to another server with the number of an
earlier socket, as soon as this is free.

In `serving` one pid, reused, suffices for questions about one child and its
manager; `pool_fleet` and `pool_timing` have the siblings. That it implements
`Pool` is proved, for every instance, and not checked again in the run. The body
does not matter to these properties, which `ServingProof` shows for any length.
Four words on the command line are an option with a value that looks like an
option, between two others, or two options with values, in any combination;
nothing in `parse` looks back further. The words of `MCCommandLine` have one for
each way `parse` can treat a word, the limits of the numbers and the first number
beyond each among them. The tree of `MCDiscovery` has for each rule a file that
only this rule leaves out or lets in; links lead back to the root, elsewhere in
it, out of it and nowhere, and each pair of targets may overlap.

Deadlock is checked in every run. In `Address` a manager can always be started
again; in the others the only states in which nothing more happens are `Rest`
(manager gone, no child executing), `Over` (the child exits) and `Done` of
`CommandLine` and `Discovery` (PHP serves, or the process has ended), all stated
as such.

### Fairness

`FairSpec` of the pool assumes that the kernel runs the manager (weak fairness
of its whole step), runs each child that can run and delivers its signals (weak
fairness of `Prompt` per child), and that time passes (weak fairness of `Tick`).
Nothing is assumed of clients, PHP code or faults: a request may never end and
no client may ever come. `RefillSpec` adds that from some time on `fork` and
`socketpair` do not fail: with failures for ever no pool can be filled. It is
used for `PoolRefills` only, together with a pool that is not asked to stop.

`FairSpec` of `Address` assumes that each manager goes on by itself and that a
pool which drains gets empty, which is the liveness part of `PoolPromise`;
nothing is assumed of starts, stops, kills and the operator, nor that `poll`
ever fails.

`FairSpec` of `Exchange` assumes that the C code goes on, that a client which
has been sent the END record closes its side, and that PHP code ends: strong
fairness, because each time it asks to end it may first call back once more.
Code that runs while PHP starts ends too: `RequestStartup` is a step of the C code.
What happens otherwise is the subject of `TimeoutEnforced`. Under this fairness
`ResponseKept` says what `Response` promises beyond its safety: a client that
stays gets a whole answer, the client closes its side then, and the child is gone
after it.

`Spec` of `Discovery` has weak fairness of its next step: it is one process that
does nothing else, and with no other action in `Next` this says only that the
kernel runs it. `ServingSpec` takes over the fairness of `FairSpec` of the pool
and adds none: PHP code and clients owe nothing.

### Mutants

For each property of a passing run the modules contain a mutated form of a
definition of the model (`...Never`, `...Late`, `...Always`), a plausible slip
in the code it stands for, under which TLC finds that property violated.
`PROJECT.json` pairs them. They are part of no specification.

## 4. Findings

- `StampsAccounted` fails. The comment at `manager.rs:219` says that accept
  stamps are read before shutdown is processed so that active work is accounted
  for. They are read once per turn, before `waitpid`; a child that accepts,
  sends its stamp and dies after the pass and before `waitpid` is reaped with
  its stamp unread (`manager.rs:286-290`). If its status is abnormal and it is
  younger than a second, it counts as a startup failure and delays the next
  `fork`, though it had accepted a connection.
- `AcceptedConnectionDrains` fails. The README says that SIGTERM and SIGINT
  drain requests, the comment at `sapi.c:334` that active children still drain.
  A connection becomes active when `accept(2)` has already returned; a drain
  signal handled in between ends the child with status 0
  (`sapi.c:287`) and the client's connection is closed without an answer.
- `OmitsTestTrees` fails. The README says that discovery omits test and fixture
  paths and Drupal's module and theme trees. `substr($file, strlen($root) + 1)`
  (`discovery.php:87`) cuts one character too many when the application root is
  `/`, which `within` and `permitted_script` (`sapi.c:320`) provide for: the first
  name below the root loses its first letter, so that `/tests/T.php`, named as
  an autoload target, is preloaded.

## 5. Proofs

`PoolProof` proves, for any finite set of pids, any number of workers, any
positive durations and any set of stop signals:

| Theorem | States |
| --- | --- |
| `Typing` | `Spec => []PoolTypeOK` |
| `Invariance` | `Spec => []Inv` |
| `TableIsExact`, `FixedMaximum`, `NoUnjustKill`, `RecordsHold`, `OneConnectionEach`, `NobodyMissesTheDrain`, `OrphansAreDoomed` | the invariants of `pool_fleet` and `pool_timing`, one each |
| `WaitIsKept` | `Spec => HoldOnlyExpires` |

and `PoolRefinementProof` proves `PoolKeepsItsPromise`, `Spec => PromiseSafety`:
initial states map to initial states and each step of the pool maps to a step
of `PoolPromise` or to a stutter. From this alone, and no further look at the
pool, follows `PoolStandsInAddress`, `Spec => StandsInAddress`: a step of
`PoolPromise` changes the phase, or whether there are children, or nothing that
`Address` sees, and each change is one of its actions with that action's guard. So
what is proved of `Address`, where the pool is a few actions, is about
this pool. `StandsInAddress` is stated as a theorem only.

The assumptions are those of `Child` and `Pool`: `PidsFinite`, `ChildTimes`,
`PoolSizes` (the command line enforces them: `--workers` and
`--request-timeout` are at least 1; the others are constants of the code).

The argument. None of the safety properties but the typing is inductive.
`PoolBounded` speaks of processes but the guard of `Fork` counts the table, so
it needs `workers = Existing`, which in turn needs that a stopped or reaped pid
leaves neither a process nor an entry. `RecordsAreTrue` needs that a signal
pending for SIGKILL is only consumed by the end of the process, that a pid
without a process carries nothing over from its last owner, and that a child past
its accept is marked active.
`DrainReachesAll` needs that a signal sent to a child with blocked signals stays
pending, and `NoOrphanServes` that each child past `prctl` has the death signal
armed. `Inv` puts these together pid by pid (`ProcessInv`), with the manager's
place (`ManagerInv`) and the bound. The proof takes the actions one by one:
steps of one child leave the `ProcessInv` of the others alone (they may change
`parentAlive` and the manager's variables in no way), steps of the manager touch
one pid (`Fork`, `Reap`) or all by one rule, and the steps of the environment
all by one rule. `WaitIsKept` rests on `Typing` and on two lemmas on `2^f`.

`AddressProof` proves, for any set of managers and inodes, `AddressTyping`,
`AddressInvariance`, `ForeignSocketsStay` (`OnlyOwnerUnlinks`),
`NothingStaysBehind` (`CloseUnlinks`), `NobodyServedUnrestricted`
(`ServedRestricted`) and `PhpGoesLast` (`ShutdownComesLast`), from the
assumption `Sockets` that inodes, the port and "none" are different things. The
invariant says of each manager that it holds a socket exactly between `bind` and
the drop of the descriptor and that no other manager holds the same one; that
what it recorded is this socket; and that the path leads there while it is
halfway through two system calls on it. The interesting step is `BindUnix` of
another manager: it takes an inode that nobody holds, so that a path which is no
longer one's own can never look like it.

`ExchangeProof` proves, for a body of any length (`BodyAssumption`),
`ExchangeTyping`, `ExchangeInvariance`, `WellFramed` (`ResponseWellFormed`, from a
part of the invariant, `Framed`), `EveryPathEnds` (`EndOnEveryPath`),
`ShutdownMatchesStartup` (`ShutdownIffStarted`), `FinishedForGood`
(`FinishedIsOver`), `DeathsShow` (`DeathIsReported`) and
`ExchangeKeepsItsPromise`, `Spec => ResponsePromise`, the refinement of
`Response`. The invariant has three
parts. `PlaceInv` ties each place to what has happened on the way there: whether
PHP was started and shut down, whether the response was ended or finished, that
the result is still 0 while the script runs. `Told` says what the wire holds as
long as the client is there: nothing or one header block with body before the
end, behind it the error if PHP was not started, END after it. `Framed` says when
a response may be spoiled, and that nothing but END comes behind the error, since
by then all that could print is past (`Late`). Of a client that has left only the beginning of a response is
known, because what is written may be lost; the proof takes the two cases apart
in each of the four ways a step can touch the wire. The lemmas on sequences
(`Pair`, `Triple`, `Quadruple`, `Nothing`, `Lasts`) are about tuples of a fixed length. For the
refinement the invariant of one state is not enough: a wire that is well formed
before and after a step could have been rewritten by it. `WireGrows` says, for each
way a step can touch the wire, that it only gets longer, and only while the client
is there; `OnTheWay`, that what is well formed begins one of the four answers of
`Response`, or a spoiled one; `ResultGrows`, that no step takes a failure back.

`ServingProof` proves that the composition is what its two halves say: each step
is a step of `Pool` or invisible in it (`ServingImplementsPool`, `ServingIsFair`),
so that every theorem about `Spec` holds of it, and `X!Inv` of `Exchange` is kept
because its lemmas are about any step of `Exchange` (they are cited through an
instance of `ExchangeProof`). `ServingInv` adds where the two meet: a request
exists only while its child serves it, or as what a zombie has left. From this
`OrderlyExitsServed` and, as an action property, `DeadlinesOnly` follow, for any
number of other children, any body and any durations. The interesting case of the
last is SIGKILL, where the invariant of `Pool` knows why it was sent; a drain
signal cannot end the child because the same invariant says that a serving child
is marked active. `BothKeepTheirWord` collects what the parts promise alone and
keep together: `PromiseSafety` of the pool, and for every request of the observed
child, one process after the other, the three invariants of `Exchange`.
`AnswersKeepInTurn` (`ServingSpec => AnswersInTurn`, stated as a theorem only) does
the same for the refinement of `Response`: a process that is killed in the middle
only leaves its answer where it is, and nothing of it reaches the next one.

`CommandLineProof` proves, for command lines of any length over any words
(`WordsAreRead`), `CommandLineInvariance`, `CommandLineTyping`, `ParseDecides`
(`FirstWordDecides`), `ParseKeepsLast` (`LastOptionCounts`), `ParseKeepsDefines`
(`DefinesInOrder`), `NamesAreKept`
(`NamesSurviveChdir`) and `PreloadingIsOwned` (`PreloadAsAsked`). The properties
read the command line as a whole: a word is an option if an even number of options
with a value comes directly before it (`IsOption`). The invariant is that the loop
stands at an option whenever it comes round; that none of the options behind it
ended the parsing; and that the fields hold what the options behind it say. Its
step is a lemma about `IsOption`: after an option with a value the next word is
none, and the one behind it is. That the overrides are in order is said without
recursion: each `-d` option stands in the list at its rank, the number of `-d`
options up to it (`InOrder`). Of the options behind the loop this is inductive; the
step is that a new last `-d` has the whole number as its rank and moves no other
(`Ranked`, `InOrderDefine`, `InOrderOther`).

`DiscoveryProof` proves, for every tree, metadata and order of reading
(`OnDisk`, `RootsAreDirectories`, `ComposerFiles`), `DiscoveryInvariance`,
`DiscoveryTyping`, `DiscoveryFindsTheWanted` (`PreloadsTheWanted`),
`DiscoveryStaysInside` (`NothingOutsideIsWalked`) and `DiscoveryCounts`
(`CountsTheExcluded`). What should be found is stated
without a walk (`Wanted`). The invariant has two halves: what is found is
wanted, and what is wanted is found or still ahead (`NothingIsLost`): in a later
package, a later target, a candidate not looked at yet, or below an entry that
waits. When a directory is opened, what is reached from it is reached from
exactly one of the entries the filter admits.

The number of files left out needs an invariant of its own (`CountInv`), since the
sets of the first one cannot tell a report that was counted once from one that was
counted twice. What will have been reported in the end is a set (`Reports`: package,
target, candidate and file); `skipped` is at any time the number of those that are
not ahead any more (`Seen`). A report is ahead below at most one waiting entry
(`Apart`), because the entries of a walk are apart in the tree and opening one puts
in its place entries that are apart again (`OneEntry`, `ApartStep`); so a step that
leaves a file out takes one report from those ahead, and every other step none
(`SeenOneMore`, `SeenSame`). The sets are finite because the tree is.

Every safety property that a passing run checks is proved. Only model-checked are
the liveness properties (`StopCompletes`, `TimeoutEnforced`, `OrphansVanish`,
`PoolRefills`, `StopIsKept`, `PreloadingEnds`) and what `PromiseKept` and
`ResponseKept` say beyond `PromiseSafety` and `ResponsePromise`: liveness under
fairness is out of the prover's reach.

## 6. Plan

Of the plan this development began with, the pool, the address, the exchange, their
composition `Serving`, the command line and discovery are done, and both abstract
specifications, `PoolPromise` and `Response`, are implemented by what stands behind
them. What is left is `CommandLine` and `Discovery` in the place of `StartFails` and
`poly_initialize` of `Address`. Both run in one process before it has anything that
another could touch.

## 7. Not modelled

- The settings of `ini_defaults` that do not decide about preloading: a table.
- The text of command-line words, of `php.ini`, of Composer's JSON, of globs and
  of exclusion patterns: constants say what the code finds in them. That a glob
  of `glob(3)` or a pattern of PCRE matches what it should is outside.
- What `glob` and the reading of `composer.json` and `installed.json` open, inside
  the root or outside: only their results are in `Discovery`.
- That a client may connect to a Unix socket between `bind` and `set_permissions`:
  it waits in the backlog and is answered when children accept. `ServedRestricted`
  is about children that accept.
- The order in which the files are compiled: what the linking of classes makes of it
  is PHP's.
- In `Discovery`, names that are excluded only after a change of case, and a disk that
  changes during the walk, except for files that are gone when they are compiled.
- What OPcache shares between zygote and children
  (`docs/opcache-mutable-zygote.md`): code of PHP.
- The values of FastCGI parameters, variables, headers and cookies.
- Build, packaging, benchmarks, examples. The tests and documents are what the
  properties were compared with.
