-------------------------------- MODULE Pool --------------------------------
(***************************************************************************)
(* The manager's supervision loop (supervise and the parent half of spawn  *)
(* in src/manager.rs) running with the children of module Child.           *)
(*                                                                         *)
(* pc is the manager's place in the loop: fill the pool ("spawn"), sleep   *)
(* in poll ("poll"), read accept timestamps ("stamps"), read stop signals  *)
(* ("signals"), kill what is overdue ("deadlines"), collect zombies        *)
(* ("reap").  Children run between any two of these steps.  A pass over    *)
(* the workers table is one step: the sockets and processes it visits are  *)
(* independent, so what a child does in the middle of a pass could as well *)
(* have been done just before or just after it.  SIGCHLD only cuts the     *)
(* poll short, and the poll ends by itself after 100 ms: it is left out.   *)
(*                                                                         *)
(* Instants the code compares with the clock are kept as the time left     *)
(* (grace, retry) or elapsed (age, life), saturated where the comparison   *)
(* no longer changes.  failures saturates at MaxShift: the code only uses  *)
(* failures.min(6).                                                        *)
(***************************************************************************)
EXTENDS Child

CONSTANTS
  Workers,         (* --workers: the size of the pool                       *)
  DrainGrace,      (* how long a drain may take                             *)
  BackoffBase,     (* 100 ms of the code, in ticks                          *)
  BackoffCap,      (* 5000 ms of the code, in ticks                         *)
  MaxShift,        (* 6 in the code                                         *)
  StopSignals      (* the stop signals that may come, each at most once     *)

ASSUME PoolSizes ==
  /\ Workers \in Nat \ {0}
  /\ DrainGrace \in Nat \ {0}
  /\ BackoffBase \in Nat \ {0}
  /\ BackoffCap \in Nat \ {0}
  /\ MaxShift \in Nat \ {0}

VARIABLES
  pc,              (* the manager's place in its loop                       *)
  workers,         (* the pids in the workers table                         *)
  started,         (* Worker.started is Some                                *)
  killed,          (* Worker.killed                                         *)
  draining,        (* draining is Some                                      *)
  grace,           (* time left to that deadline                            *)
  retry,           (* time left to retry_at                                 *)
  failures,        (* failures                                              *)
  fatal,           (* fatal is Some                                         *)
  stop             (* each stop signal: unsent, pending, or read            *)

managerVars == <<workers, started, killed, draining, grace, retry, failures, fatal>>
vars == <<childVars, timeVars, parentAlive, pc, managerVars, stop>>

Init ==
  /\ ChildInit
  /\ pc = "spawn"
  /\ workers = {}
  /\ started = [p \in Pids |-> FALSE]
  /\ killed = [p \in Pids |-> FALSE]
  /\ draining = FALSE
  /\ grace = 0
  /\ retry = 0
  /\ failures = 0
  /\ fatal = FALSE
  /\ stop = [s \in StopSignals |-> "unsent"]

-----------------------------------------------------------------------------
\* Filling the pool.

Least(a, b) == IF a < b THEN a ELSE b

\* Mutant: the shift grows with every failure.
BumpUnbounded(f) == f + 1

Bump(f) == Least(f + 1, MaxShift)

Backoff(f) == Least(BackoffBase * 2^f, BackoffCap)

\* Mutant: one child too many.
MayForkOneMore == ~draining /\ retry = 0 /\ Cardinality(workers) <= Workers

\* Mutant: no child is forked after a failure.
MayForkUntilFailure ==
  ~draining /\ retry = 0 /\ Cardinality(workers) < Workers /\ failures = 0

\* Mutant: a draining pool is refilled.
MayForkWhileDraining == retry = 0 /\ Cardinality(workers) < Workers

MayFork == ~draining /\ retry = 0 /\ Cardinality(workers) < Workers

\* spawn succeeds: a new child, whose Worker record is all default.
Fork(p) ==
  /\ pc = "spawn" /\ MayFork
  /\ Goto(p, "none", "forked")
  /\ workers' = workers \cup {p}
  /\ UNCHANGED <<abnormal, pend, connectionActive, drainRequested, mailbox,
                 timeVars, parentAlive, pc, started, killed, draining, grace,
                 retry, failures, fatal, stop>>

\* socketpair or fork fails: back off and leave the filling loop.
SpawnFails ==
  /\ pc = "spawn" /\ MayFork
  /\ failures' = Bump(failures)
  /\ retry' = Backoff(failures')
  /\ pc' = "poll"
  /\ UNCHANGED <<childVars, timeVars, parentAlive, workers, started, killed,
                 draining, grace, fatal, stop>>

PoolFilled ==
  /\ pc = "spawn" /\ ~MayFork
  /\ pc' = "poll"
  /\ UNCHANGED <<childVars, timeVars, parentAlive, managerVars, stop>>

-----------------------------------------------------------------------------
\* One turn of the loop.

Poll ==
  /\ pc = "poll"
  /\ pc' = "stamps"
  /\ UNCHANGED <<childVars, timeVars, parentAlive, managerVars, stop>>

\* poll fails for another reason than a signal: stop, with no grace.
PollFails ==
  /\ pc = "poll"
  /\ pc' = "stamps"
  /\ fatal' = TRUE /\ draining' = TRUE /\ grace' = 0
  /\ UNCHANGED <<childVars, timeVars, parentAlive, workers, started, killed,
                 retry, failures, stop>>

\* Drain every event socket; the first timestamp of a worker counts.
ReadStamps ==
  /\ pc = "stamps"
  /\ pc' = "signals"
  /\ started' = [p \in Pids |-> started[p] \/ (p \in workers /\ mailbox[p])]
  /\ mailbox' = [p \in Pids |-> mailbox[p] /\ p \notin workers]
  /\ UNCHANGED <<child, abnormal, pend, connectionActive, drainRequested,
                 timeVars, parentAlive, workers, killed, draining, grace,
                 retry, failures, fatal, stop>>

\* The first stop signal starts the drain, another one ends the grace.
ReadStopSignal(s) ==
  /\ pc = "signals" /\ stop[s] = "pending"
  /\ stop' = [stop EXCEPT ![s] = "read"]
  /\ \/ /\ draining
        /\ grace' = 0
        /\ UNCHANGED <<draining, pend>>
     \/ /\ ~draining
        /\ draining' = TRUE
        /\ grace' = DrainGrace
        /\ pend' = Signalled(workers, "drain")
  /\ UNCHANGED <<child, abnormal, connectionActive, drainRequested, mailbox,
                 timeVars, parentAlive, pc, workers, started, killed, retry,
                 failures, fatal>>

NoMoreSignals ==
  /\ pc = "signals" /\ \A s \in StopSignals : stop[s] # "pending"
  /\ pc' = "deadlines"
  /\ UNCHANGED <<childVars, timeVars, parentAlive, managerVars, stop>>

\* Mutant: the timeout counts from the birth of the child.
ExpiredSinceBirth(p) == child[p] # "none" /\ life[p] >= StartupWindow

Expired(p) == started[p] /\ age[p] >= RequestTimeout

DrainExpired == draining /\ grace = 0

Overdue == {p \in workers : ~killed[p] /\ (Expired(p) \/ DrainExpired)}

\* Mutant: an overdue child is asked to leave, once.
KillOverdueSoftly ==
  /\ pc = "deadlines"
  /\ pc' = "reap"
  /\ killed' = [p \in Pids |-> killed[p] \/ p \in Overdue]
  /\ pend' = Signalled(Overdue, "drain")
  /\ UNCHANGED <<child, abnormal, connectionActive, drainRequested, mailbox,
                 timeVars, parentAlive, workers, started, draining, grace,
                 retry, failures, fatal, stop>>

KillOverdue ==
  /\ pc = "deadlines"
  /\ pc' = "reap"
  /\ killed' = [p \in Pids |-> killed[p] \/ p \in Overdue]
  /\ pend' = Signalled(Overdue, "kill")
  /\ UNCHANGED <<child, abnormal, connectionActive, drainRequested, mailbox,
                 timeVars, parentAlive, workers, started, draining, grace,
                 retry, failures, fatal, stop>>

\* A child that failed young and, as far as the manager knows, before it
\* accepted a connection.
StartupFailure(p) == abnormal[p] /\ ~started[p] /\ life[p] < StartupWindow

\* Mutant: a good exit also ends the wait.
AccountExitForgiving(p) ==
  \/ /\ StartupFailure(p)
     /\ failures' = Bump(failures)
     /\ retry' = Backoff(failures')
  \/ /\ ~StartupFailure(p)
     /\ failures' = 0
     /\ retry' = 0

\* A startup failure lengthens the back-off, any other exit clears the count.
AccountExit(p) ==
  \/ /\ StartupFailure(p)
     /\ failures' = Bump(failures)
     /\ retry' = Backoff(failures')
  \/ /\ ~StartupFailure(p)
     /\ failures' = 0
     /\ UNCHANGED retry

\* waitpid returns p: its record, its event socket and the process go.
Reap(p) ==
  /\ pc = "reap" /\ child[p] = "zombie"
  /\ AccountExit(p)
  /\ workers' = workers \ {p}
  /\ child' = [child EXCEPT ![p] = "none"]
  /\ abnormal' = [abnormal EXCEPT ![p] = FALSE]
  /\ connectionActive' = [connectionActive EXCEPT ![p] = FALSE]
  /\ drainRequested' = [drainRequested EXCEPT ![p] = FALSE]
  /\ mailbox' = [mailbox EXCEPT ![p] = FALSE]
  /\ age' = [age EXCEPT ![p] = 0]
  /\ life' = [life EXCEPT ![p] = 0]
  /\ started' = [started EXCEPT ![p] = FALSE]
  /\ killed' = [killed EXCEPT ![p] = FALSE]
  /\ UNCHANGED <<pend, parentAlive, pc, draining, grace, fatal, stop>>

\* Mutant: a draining manager leaves without its children.
NothingToReapOnDrain ==
  /\ pc = "reap" /\ \A p \in Pids : child[p] # "zombie"
  /\ pc' = IF draining THEN "stopped" ELSE "spawn"
  /\ UNCHANGED <<childVars, timeVars, parentAlive, managerVars, stop>>

\* waitpid finds no zombie: leave the loop, or go round again.
NothingToReap ==
  /\ pc = "reap" /\ \A p \in Pids : child[p] # "zombie"
  /\ pc' = IF draining /\ workers = {} THEN "stopped" ELSE "spawn"
  /\ UNCHANGED <<childVars, timeVars, parentAlive, managerVars, stop>>

ManagerStep ==
  \/ \E p \in Pids : Fork(p)
  \/ SpawnFails
  \/ PoolFilled
  \/ Poll
  \/ PollFails
  \/ ReadStamps
  \/ \E s \in StopSignals : ReadStopSignal(s)
  \/ NoMoreSignals
  \/ KillOverdue
  \/ \E p \in Pids : Reap(p)
  \/ NothingToReap

-----------------------------------------------------------------------------
\* What happens to the manager from outside.

Running == parentAlive /\ pc # "stopped"

\* A stop signal for the manager alone, as from a service manager.
SignalManager(s) ==
  /\ Running /\ stop[s] = "unsent"
  /\ stop' = [stop EXCEPT ![s] = "pending"]
  /\ UNCHANGED <<childVars, timeVars, parentAlive, pc, managerVars>>

\* A stop signal for the whole process group, as from a terminal.
SignalGroup(s) ==
  /\ Running /\ stop[s] = "unsent"
  /\ stop' = [stop EXCEPT ![s] = "pending"]
  /\ pend' = Signalled(Pids, "drain")
  /\ UNCHANGED <<child, abnormal, connectionActive, drainRequested, mailbox,
                 timeVars, parentAlive, pc, managerVars>>

\* The manager dies without a word: the kernel sends the death signal to
\* the children that armed it; the manager's memory and sockets are gone.
ManagerDies ==
  /\ Running
  /\ parentAlive' = FALSE
  /\ pc' = "dead"
  /\ pend' = Signalled({p \in Pids : DeathSignalSet(p)}, "kill")
  /\ mailbox' = [p \in Pids |-> FALSE]
  /\ workers' = {}
  /\ started' = [p \in Pids |-> FALSE]
  /\ killed' = [p \in Pids |-> FALSE]
  /\ draining' = FALSE /\ grace' = 0 /\ retry' = 0 /\ failures' = 0 /\ fatal' = FALSE
  /\ stop' = [s \in StopSignals |-> "unsent"]
  /\ UNCHANGED <<child, abnormal, connectionActive, drainRequested, timeVars>>

Down(n) == IF n > 0 THEN n - 1 ELSE 0

Tick ==
  /\ AgeChildren
  /\ grace' = Down(grace)
  /\ retry' = Down(retry)
  /\ UNCHANGED <<childVars, parentAlive, pc, workers, started, killed, draining,
                 failures, fatal, stop>>

Halted == pc \in {"stopped", "dead"}

\* The system has come to rest: no manager loop and no child.
Rest ==
  /\ Halted /\ \A p \in Pids : ~Alive(p)
  /\ UNCHANGED vars

Next ==
  \/ ManagerStep
  \/ \E p \in Pids : ChildStep(p) /\ UNCHANGED <<pc, managerVars, stop>>
  \/ \E s \in StopSignals : SignalManager(s) \/ SignalGroup(s)
  \/ ManagerDies
  \/ Tick
  \/ Rest

Spec == Init /\ [][Next]_vars

\* The kernel schedules the manager and every child that can run, delivers
\* signals and lets time pass.  Clients, PHP and faults owe nothing.
PromptStep(p) == Prompt(p) /\ UNCHANGED <<parentAlive, pc, managerVars, stop>>

FairSpec ==
  /\ Spec
  /\ WF_vars(ManagerStep)
  /\ WF_vars(Tick)
  /\ \A p \in Pids : WF_vars(PromptStep(p))

\* From some time on socketpair() and fork() do not fail.
RefillSpec == FairSpec /\ <>[][~SpawnFails]_vars
=============================================================================
