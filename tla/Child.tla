------------------------------- MODULE Child -------------------------------
(***************************************************************************)
(* A disposable child of the pool, from fork() to the zombie it leaves:    *)
(* the child half of spawn() in src/manager.rs and the accept path of      *)
(* native/sapi.c (drain_handler, poly_connection_accepted, before_accept,  *)
(* poly_serve_one).  A child guards itself against the death of its        *)
(* parent, unmasks the drain signals, accepts one connection, reports the  *)
(* time of that accept to the manager, serves and exits.                   *)
(*                                                                         *)
(* Every variable but parentAlive is indexed by process id.  Signals are   *)
(* asynchronous: pend holds those sent and not yet acted upon.  SIGUSR1,   *)
(* SIGTERM and SIGINT run the same handler in a child and are one element, *)
(* "drain".  What PHP does during a request is the environment's choice:   *)
(* the request may end well, badly, or never.                              *)
(***************************************************************************)
EXTENDS Integers, FiniteSets

CONSTANTS
  Pids,            (* process ids the kernel gives to children; reused      *)
  RequestTimeout,  (* --request-timeout, in ticks of the clock              *)
  StartupWindow    (* an exit younger than this may be a startup failure    *)

ASSUME PidsFinite == IsFiniteSet(Pids)
ASSUME ChildTimes == RequestTimeout \in Nat \ {0} /\ StartupWindow \in Nat \ {0}

VARIABLES
  child,             (* where the process is; "none" when there is none     *)
  abnormal,          (* a zombie's status: not exit(0)                      *)
  pend,              (* signals sent to the process and not delivered yet   *)
  connectionActive,  (* connection_active of sapi.c                         *)
  drainRequested,    (* drain_requested of sapi.c                           *)
  mailbox,           (* an accept timestamp waits in the event socket       *)
  age,               (* time since that timestamp was taken                 *)
  life,              (* time since fork()                                   *)
  parentAlive        (* the manager process exists                          *)

childVars == <<child, abnormal, pend, connectionActive, drainRequested, mailbox>>
timeVars  == <<age, life>>

States == {"none", "forked", "guarded", "checked", "looping", "waiting",
           "accepted", "active", "serving", "zombie"}

\* A process that can still execute.
Alive(p) == child[p] \notin {"none", "zombie"}

\* Signals are unblocked: poly_serve_one has run sigprocmask.
Unmasked(p) == child[p] \in {"looping", "waiting", "accepted", "active", "serving"}

\* The death signal is armed (prctl has run).
DeathSignalSet(p) == Unmasked(p) \/ child[p] \in {"guarded", "checked"}

\* Send signal s to every process of S; a zombie ignores it.
Signalled(S, s) ==
  [p \in Pids |-> IF p \in S /\ Alive(p) THEN pend[p] \cup {s} ELSE pend[p]]

ChildInit ==
  /\ child = [p \in Pids |-> "none"]
  /\ abnormal = [p \in Pids |-> FALSE]
  /\ pend = [p \in Pids |-> {}]
  /\ connectionActive = [p \in Pids |-> FALSE]
  /\ drainRequested = [p \in Pids |-> FALSE]
  /\ mailbox = [p \in Pids |-> FALSE]
  /\ age = [p \in Pids |-> 0]
  /\ life = [p \in Pids |-> 0]
  /\ parentAlive = TRUE

-----------------------------------------------------------------------------
\* Steps of the process p.

Goto(p, from, to) ==
  /\ child[p] = from
  /\ child' = [child EXCEPT ![p] = to]

\* The process ends and waits to be reaped.  _exit runs no destructor.
Exit(p, bad) ==
  /\ child' = [child EXCEPT ![p] = "zombie"]
  /\ abnormal' = [abnormal EXCEPT ![p] = bad]
  /\ pend' = [pend EXCEPT ![p] = {}]
  /\ UNCHANGED <<connectionActive, drainRequested, mailbox>>

\* prctl(PR_SET_PDEATHSIG, SIGKILL).
SetDeathSignal(p) ==
  /\ Goto(p, "forked", "guarded")
  /\ UNCHANGED <<abnormal, pend, connectionActive, drainRequested, mailbox, timeVars>>

\* Mutant: the parent is not looked at again.
CheckParentNever(p) ==
  /\ Goto(p, "guarded", "checked")
  /\ UNCHANGED <<abnormal, pend, connectionActive, drainRequested, mailbox, timeVars>>

\* A parent that died before the death signal was armed shows in getppid().
CheckParent(p) ==
  /\ child[p] = "guarded"
  /\ \/ /\ parentAlive
        /\ Goto(p, "guarded", "checked")
        /\ UNCHANGED <<abnormal, pend, connectionActive, drainRequested, mailbox>>
     \/ /\ ~parentAlive
        /\ Exit(p, TRUE)
  /\ UNCHANGED timeVars

\* Mutant: the drain signals are ignored, not blocked, until the handlers are
\* there.
InstallHandlersLate(p) ==
  /\ Goto(p, "checked", "looping")
  /\ pend' = [pend EXCEPT ![p] = @ \ {"drain"}]
  /\ UNCHANGED <<abnormal, connectionActive, drainRequested, mailbox, timeVars>>

\* Handlers are installed while the signals are still blocked; one that is
\* already pending is handled before sigprocmask returns.
InstallHandlers(p) ==
  /\ child[p] = "checked"
  /\ \/ /\ "drain" \notin pend[p]
        /\ Goto(p, "checked", "looping")
        /\ UNCHANGED <<abnormal, pend, connectionActive, drainRequested, mailbox>>
     \/ /\ "drain" \in pend[p]
        /\ Exit(p, FALSE)
  /\ UNCHANGED timeVars

\* Mutant: the hook does not look at what happened before.
before_acceptAlways(p) ==
  /\ Goto(p, "looping", "waiting")
  /\ UNCHANGED <<abnormal, pend, connectionActive, drainRequested, mailbox, timeVars>>

\* The hook FastCGI calls before every accept, also after a bad connection.
before_accept(p) ==
  /\ child[p] = "looping"
  /\ \/ /\ connectionActive[p] \/ drainRequested[p]
        /\ Exit(p, FALSE)
     \/ /\ ~connectionActive[p] /\ ~drainRequested[p]
        /\ Goto(p, "looping", "waiting")
        /\ UNCHANGED <<abnormal, pend, connectionActive, drainRequested, mailbox>>
  /\ UNCHANGED timeVars

\* accept(2) returns a connection to the child.
Accept(p) ==
  /\ Goto(p, "waiting", "accepted")
  /\ UNCHANGED <<abnormal, pend, connectionActive, drainRequested, mailbox, timeVars>>

\* accept(2) fails: fcgi_accept_request is negative and poly_serve_one
\* returns its initial result, 0.
AcceptFails(p) ==
  /\ child[p] = "waiting"
  /\ Exit(p, FALSE)
  /\ UNCHANGED timeVars

\* Mutant: the connection is not marked active.
poly_connection_acceptedUnmarked(p) ==
  /\ Goto(p, "accepted", "active")
  /\ UNCHANGED <<abnormal, pend, connectionActive, drainRequested, mailbox, timeVars>>

\* poly_connection_accepted up to clock_gettime.
poly_connection_accepted(p) ==
  /\ child[p] = "accepted"
  /\ \/ /\ drainRequested[p] \/ connectionActive[p]
        /\ Exit(p, FALSE)
        /\ UNCHANGED age
     \/ /\ ~drainRequested[p] /\ ~connectionActive[p]
        /\ Goto(p, "accepted", "active")
        /\ connectionActive' = [connectionActive EXCEPT ![p] = TRUE]
        /\ age' = [age EXCEPT ![p] = 0]
        /\ UNCHANGED <<abnormal, pend, drainRequested, mailbox>>
  /\ UNCHANGED life

\* Mutant: a child serves without having told the manager of its accept.
SendStampLossy(p) ==
  /\ Goto(p, "active", "serving")
  /\ UNCHANGED <<abnormal, pend, connectionActive, drainRequested, mailbox, timeVars>>

\* poly_connection_accepted sends the timestamp; the send fails when the
\* manager's end of the socket pair is gone.  A sibling that was just forked
\* holds a copy of that end until it has closed it.
SendStamp(p) ==
  /\ child[p] = "active"
  /\ \/ /\ parentAlive
        /\ Goto(p, "active", "serving")
        /\ mailbox' = [mailbox EXCEPT ![p] = TRUE]
        /\ UNCHANGED <<abnormal, pend, connectionActive, drainRequested>>
     \/ /\ ~parentAlive /\ \E q \in Pids : child[q] = "forked"
        /\ Goto(p, "active", "serving")
        /\ UNCHANGED <<abnormal, pend, connectionActive, drainRequested, mailbox>>
     \/ /\ ~parentAlive
        /\ Exit(p, TRUE)
  /\ UNCHANGED timeVars

\* A stalled, malformed or management connection: FastCGI closes it and
\* goes back to accept another.
ConnectionRejected(p) ==
  /\ Goto(p, "serving", "looping")
  /\ UNCHANGED <<abnormal, pend, connectionActive, drainRequested, mailbox, timeVars>>

\* The request is over, PHP has shut down, the child exits with the result.
ServeEnds(p, bad) ==
  /\ child[p] = "serving"
  /\ Exit(p, bad)
  /\ UNCHANGED timeVars

\* Mutant: a request in progress is no reason to stay.
drain_handlerAtOnce(p) ==
  /\ Unmasked(p) /\ "drain" \in pend[p]
  /\ Exit(p, FALSE)
  /\ UNCHANGED timeVars

\* drain_handler: leave at once unless a connection is active.
drain_handler(p) ==
  /\ Unmasked(p) /\ "drain" \in pend[p]
  /\ \/ /\ ~connectionActive[p]
        /\ Exit(p, FALSE)
     \/ /\ connectionActive[p]
        /\ drainRequested' = [drainRequested EXCEPT ![p] = TRUE]
        /\ pend' = [pend EXCEPT ![p] = @ \ {"drain"}]
        /\ UNCHANGED <<child, abnormal, connectionActive, mailbox>>
  /\ UNCHANGED timeVars

\* SIGKILL takes effect.
Killed(p) ==
  /\ Alive(p) /\ "kill" \in pend[p]
  /\ Exit(p, TRUE)
  /\ UNCHANGED timeVars

\* A fault, a bailout of php_child_init or the OOM killer ends the process.
Crash(p) ==
  /\ Alive(p)
  /\ Exit(p, TRUE)
  /\ UNCHANGED timeVars

\* Steps the child takes by itself once it is scheduled.
Prompt(p) ==
  \/ SetDeathSignal(p)
  \/ CheckParent(p)
  \/ InstallHandlers(p)
  \/ before_accept(p)
  \/ poly_connection_accepted(p)
  \/ SendStamp(p)
  \/ drain_handler(p)
  \/ Killed(p)

\* Steps that wait for a client, for PHP or for a fault.
Outside(p) ==
  \/ Accept(p)
  \/ AcceptFails(p)
  \/ ConnectionRejected(p)
  \/ \E bad \in BOOLEAN : ServeEnds(p, bad)
  \/ Crash(p)

ChildStep(p) == (Prompt(p) \/ Outside(p)) /\ UNCHANGED parentAlive

\* The clock: ages saturate at the only value the code compares them with.
AgeChildren ==
  /\ age' = [p \in Pids |-> IF connectionActive[p] /\ age[p] < RequestTimeout
                              THEN age[p] + 1 ELSE age[p]]
  /\ life' = [p \in Pids |-> IF child[p] # "none" /\ life[p] < StartupWindow
                               THEN life[p] + 1 ELSE life[p]]

-----------------------------------------------------------------------------
ChildTypeOK ==
  /\ child \in [Pids -> States]
  /\ abnormal \in [Pids -> BOOLEAN]
  /\ pend \in [Pids -> SUBSET {"drain", "kill"}]
  /\ connectionActive \in [Pids -> BOOLEAN]
  /\ drainRequested \in [Pids -> BOOLEAN]
  /\ mailbox \in [Pids -> BOOLEAN]
  /\ age \in [Pids -> 0..RequestTimeout]
  /\ life \in [Pids -> 0..StartupWindow]
  /\ parentAlive \in BOOLEAN
=============================================================================
