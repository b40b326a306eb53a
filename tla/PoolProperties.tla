--------------------------- MODULE PoolProperties ---------------------------
(***************************************************************************)
(* What the pool of module Pool promises.                                  *)
(***************************************************************************)
EXTENDS Pool

PoolTypeOK ==
  /\ ChildTypeOK
  /\ pc \in {"spawn", "poll", "stamps", "signals", "deadlines", "reap",
             "stopped", "dead"}
  /\ workers \in SUBSET Pids
  /\ started \in [Pids -> BOOLEAN]
  /\ killed \in [Pids -> BOOLEAN]
  /\ draining \in BOOLEAN
  /\ grace \in 0..DrainGrace
  /\ retry \in 0..BackoffCap
  /\ failures \in 0..MaxShift
  /\ fatal \in BOOLEAN
  /\ stop \in [StopSignals -> {"unsent", "pending", "read"}]

\* Processes that hold a pid, the zombies included.
Existing == {p \in Pids : child[p] # "none"}

Live == {p \in Pids : Alive(p)}

-----------------------------------------------------------------------------
\* Safety.

\* While the manager runs, its table is exactly the set of its children: no
\* kill() can reach a recycled pid, and no zombie is left behind.  When it
\* has stopped in order, no child of it is left either.
ChildrenTracked ==
  /\ parentAlive => workers = Existing
  /\ pc = "stopped" => Existing = {}

\* README: --workers is the fixed maximum of live children, whatever exits,
\* crashes and failed forks do to the table.
PoolBounded == Cardinality(Existing) <= Workers

\* SIGKILL is only sent to a child whose connection is really past the
\* request timeout, counted from its accept, or when the grace of the drain
\* is over.  A child that has not accepted anything is never timed out.
KillJustified ==
  parentAlive => \A p \in Live :
    "kill" \in pend[p] =>
      DrainExpired \/ (connectionActive[p] /\ age[p] >= RequestTimeout)

\* One connection per child and no lost drain: a child that can take a
\* connection has taken none yet and has not been told to leave.
WaitingIsFresh ==
  \A p \in Pids : child[p] \in {"waiting", "accepted"} =>
    ~connectionActive[p] /\ ~drainRequested[p]

\* Once a stop signal has been read, every child has been told, also one
\* that was forked just before and still has its signals blocked.
DrainReachesAll ==
  draining /\ ~fatal => \A p \in Live : drainRequested[p] \/ pend[p] # {}

\* After the death of the manager no child keeps the listener: each one is
\* about to be killed by the kernel or about to notice by itself.
NoOrphanServes ==
  ~parentAlive => \A p \in Live :
    child[p] \in {"forked", "guarded"} \/ "kill" \in pend[p]

\* What the manager has noted of a worker is true of the process that has the pid
\* now.  A worker marked killed is passed over by every later turn of the loop:
\* the signal is on its way or has done its work.  A stamp, read or unread, is
\* this process's own: records and sockets of a former owner are gone.
RecordsAreTrue ==
  /\ \A p \in Live : killed[p] => "kill" \in pend[p]
  /\ \A p \in Pids : started[p] \/ mailbox[p] => connectionActive[p]

\* Waiting out a back-off is never cut to less than the shortest back-off: a
\* child that ends well clears failures, but not the wait already begun.
HoldOnlyExpires ==
  [][retry' < retry => \/ retry' = retry - 1
                       \/ retry' >= Backoff(1)
                       \/ pc' = "dead"]_vars

-----------------------------------------------------------------------------
\* The inductive invariant: the properties above, process by process, with
\* what they rest on.  A pid without a process carries nothing over from its
\* last owner, a process past its accept is marked active, and what cannot
\* execute has no signal pending.

ProcessInv(p) ==
  /\ child[p] = "none" =>
       ~connectionActive[p] /\ ~drainRequested[p] /\ ~started[p] /\ ~killed[p]
  /\ ~Alive(p) => pend[p] = {}
  /\ child[p] \in {"active", "serving"} => connectionActive[p]
  /\ started[p] \/ mailbox[p] => connectionActive[p]
  /\ child[p] \in {"waiting", "accepted"} => ~connectionActive[p] /\ ~drainRequested[p]
  /\ Alive(p) /\ killed[p] => "kill" \in pend[p]
  /\ Alive(p) /\ parentAlive /\ "kill" \in pend[p] =>
       DrainExpired \/ (connectionActive[p] /\ age[p] >= RequestTimeout)
  /\ Alive(p) /\ draining /\ ~fatal => drainRequested[p] \/ pend[p] # {}
  /\ Alive(p) /\ ~parentAlive => child[p] \in {"forked", "guarded"} \/ "kill" \in pend[p]
  /\ parentAlive => (p \in workers <=> child[p] # "none")

ManagerInv ==
  /\ parentAlive <=> pc # "dead"
  /\ pc = "stopped" => \A p \in Pids : child[p] = "none"

\* Every step of the system keeps all of this.
Inv == PoolTypeOK /\ ManagerInv /\ PoolBounded /\ \A p \in Pids : ProcessInv(p)

-----------------------------------------------------------------------------
\* Liveness, under FairSpec.

\* README: SIGTERM and SIGINT end the manager; children that serve for ever
\* or lost the signal do not hold it up.
StopCompletes ==
  (\E s \in StopSignals : stop[s] = "pending") ~> Halted

\* README: the request timeout covers all of the request, shutdown and
\* post-response work included.
TimeoutEnforced ==
  \A p \in Pids : child[p] = "serving" ~> child[p] # "serving"

\* The children of a manager that died are gone after a while.
OrphansVanish == pc = "dead" ~> Live = {}

\* README: normal operation replaces exited children.  Crashes, back-offs and
\* failed forks delay this and cannot prevent it, as long as fork() does not
\* fail for ever.
PoolRefills ==
  Cardinality(workers) < Workers ~>
    Cardinality(workers) = Workers \/ draining \/ Halted

-----------------------------------------------------------------------------
\* What the source or its documents say and the code does not do.

\* supervise: "Read accept timestamps before processing shutdown, so active
\* work is accounted for even when SIGCHLD/SIGTERM arrives in the same poll."
\* The record of a worker is dropped only when no stamp of it is unread.
StampsAccounted ==
  [][\A p \in Pids : parentAlive' /\ p \in workers /\ p \notin workers'
                       => ~mailbox[p]]_vars

\* poly_serve_one: "Active children still drain".  A child that holds a
\* connection does not leave it unserved because it is told to drain.
AcceptedConnectionDrains ==
  [][\A p \in Pids : child[p] = "accepted" /\ child'[p] = "zombie"
                       => abnormal'[p]]_vars
=============================================================================
