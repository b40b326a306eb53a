------------------------------ MODULE Serving ------------------------------
(***************************************************************************)
(* Pool and Exchange together: one child, probe, runs poly_serve_one as    *)
(* Exchange describes it, where Pool has the single step ServeEnds.  The   *)
(* other children stay as they are in Pool.  The manager, its deadlines,   *)
(* its stop signals and its death, faults and the other children act       *)
(* between any two steps of the request; what the request makes of its     *)
(* exit status reaches the manager.                                        *)
(***************************************************************************)
EXTENDS PoolProperties, Sequences

CONSTANTS
  probe,    (* the child whose request is looked into                       *)
  MaxBody   (* its longest request body                                     *)

ASSUME ProbeIsChild == probe \in Pids /\ MaxBody \in Nat

VARIABLES
  place, from, client, wire, ended, finished, headersSent, muted, left,
  phpStarted, shutDown, phpFatal, result,
  crashed   (* the child was ended by a fault, not by a signal or itself    *)

exchange == <<place, from, client, wire, ended, finished, headersSent, muted, left,
              phpStarted, shutDown, phpFatal, result>>

servingVars == <<vars, exchange, crashed>>

X == INSTANCE Exchange WITH pc <- place, started <- phpStarted, fatal <- phpFatal

ServingInit == Init /\ X!Init /\ crashed = FALSE

-----------------------------------------------------------------------------
\* Steps of the observed child.

Alone == UNCHANGED <<parentAlive, pc, managerVars, stop>>

\* The stamp is sent, and the request is read: sapi.c and PHP are as in any new
\* process.
Begin ==
  /\ SendStamp(probe) /\ Alone
  /\ UNCHANGED <<exchange, crashed>>

\* The request could not be read; PHP knows nothing of it.
Reject ==
  /\ place = "dispatch"
  /\ ConnectionRejected(probe) /\ Alone
  /\ UNCHANGED <<exchange, crashed>>

\* One step of poly_serve_one, of PHP code or of the client.
Exchanging ==
  /\ child[probe] = "serving"
  /\ X!Next
  /\ UNCHANGED <<vars, crashed>>

\* _exit(poly_serve_one(...)).
Finish ==
  /\ place = "exit"
  /\ ServeEnds(probe, result = 1) /\ Alone
  /\ UNCHANGED <<exchange, crashed>>

\* What does not depend on the request: the way to the accept, signals.
Elsewhere ==
  /\ \/ SetDeathSignal(probe)
     \/ CheckParent(probe)
     \/ InstallHandlers(probe)
     \/ before_accept(probe)
     \/ Accept(probe)
     \/ AcceptFails(probe)
     \/ poly_connection_accepted(probe)
     \/ drain_handler(probe)
     \/ Killed(probe)
  /\ Alone
  /\ UNCHANGED <<exchange, crashed>>

Fault == Crash(probe) /\ Alone /\ crashed' = TRUE /\ UNCHANGED exchange

-----------------------------------------------------------------------------
\* The rest of the system.

Others ==
  \/ \E p \in Pids \ {probe} : ChildStep(p) /\ UNCHANGED <<pc, managerVars, stop>>
  \/ \E s \in StopSignals : SignalManager(s) \/ SignalGroup(s)
  \/ ManagerDies
  \/ Tick
  \/ Rest

\* The next process under this pid starts with sapi.c and PHP as X!Init has them.
Forgotten ==
  /\ place' = "dispatch" /\ client' = "reading"
  /\ from' = "script" /\ phpStarted' = FALSE /\ shutDown' = FALSE /\ result' = 0
  /\ wire' = <<>> /\ ended' = FALSE /\ finished' = FALSE
  /\ headersSent' = FALSE /\ muted' = FALSE /\ left' \in 0..MaxBody /\ phpFatal' = FALSE
  /\ crashed' = FALSE

Managing ==
  /\ ManagerStep
  /\ IF child[probe] = "zombie" /\ child'[probe] = "none"
       THEN Forgotten
       ELSE UNCHANGED <<exchange, crashed>>

ServingNext ==
  \/ Begin
  \/ Reject
  \/ Exchanging
  \/ Finish
  \/ Elsewhere
  \/ Fault
  \/ Managing
  \/ Others /\ UNCHANGED <<exchange, crashed>>

\* PHP code and clients owe nothing here: only the manager's and the child's
\* own steps are fair, as in Pool.
ServingSpec ==
  /\ ServingInit /\ [][ServingNext]_servingVars
  /\ WF_vars(ManagerStep)
  /\ WF_vars(Tick)
  /\ \A p \in Pids : WF_vars(PromptStep(p))

-----------------------------------------------------------------------------
Gone == child[probe] = "zombie" /\ connectionActive[probe]

\* README: a drain lets requests finish, PHP's shutdown included.  A child that
\* has had a connection and leaves with status 0 has seen its request through:
\* nothing failed in it, the client was given the END record or had left, and PHP
\* was shut down if it had been started.  Or FastCGI turned the connection away
\* before any of that.
OrderlyExitServed ==
  Gone /\ ~abnormal[probe] =>
    /\ result = 0
    /\ \/ place = "dispatch" /\ wire = <<>>
       \/ place = "exit" /\ ended /\ client = "gone" /\ (shutDown <=> phpStarted)

\* README: "SIGTERM/SIGINT drain requests for up to 30 seconds", and the request
\* timeout is the other deadline.  A client that is still reading its answer
\* loses the connection to neither earlier: only a fault, or the death of the
\* manager, can take it away.
NotCutBeforeDeadline ==
  [][child[probe] = "serving" /\ child'[probe] = "zombie" /\ parentAlive /\ ~crashed'
     /\ client = "reading" /\ X!LastOf(wire) # "end"
       => DrainExpired \/ age[probe] >= RequestTimeout]_servingVars

\* What Response sees of the observed child: that the process ends in the middle
\* of a request only means that its answer goes no further.
Answer == INSTANCE Response
  WITH received <- wire, child <- IF place = "exit" THEN "gone" ELSE "working",
       status <- result

\* One process, one request, one answer: between fork and reap nothing but the
\* promise of Response is done to the answer, and only while the child serves;
\* the next one begins anew, in the process that comes after the reaped one.
AnswersInTurn ==
  [][\/ child[probe] = "serving" /\ Answer!Next
     \/ child[probe] = "zombie" /\ child'[probe] = "none" /\ Answer!Init']_(Answer!vars)

-----------------------------------------------------------------------------
\* The inductive invariant: that of Pool, that of Exchange, and where the two
\* meet.  A request exists only while its child serves it, or as what a zombie
\* has left.
Observed ==
  /\ child[probe] \notin {"serving", "zombie"} => place = "dispatch"
  /\ place = "dispatch" => wire = <<>> /\ result = 0
  /\ OrderlyExitServed

ServingInv == Inv /\ X!Inv /\ crashed \in BOOLEAN /\ Observed
=============================================================================
