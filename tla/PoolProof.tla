----------------------------- MODULE PoolProof -----------------------------
(***************************************************************************)
(* The safety of the pool for every number of workers and pids and every   *)
(* duration.                                                               *)
(***************************************************************************)
EXTENDS PoolRefinement, TLAPS, FiniteSetTheorems

-----------------------------------------------------------------------------
\* Typing.

\* A shift by f is a positive number: it counts the subsets of 1..f.
LEMMA ShiftIsPositive == ASSUME NEW f \in Nat PROVE 2^f \in Nat \ {0}
<1>1. IsFiniteSet(1..f) /\ Cardinality(1..f) = f
  BY FS_Interval
<1>2. IsFiniteSet(SUBSET (1..f)) /\ Cardinality(SUBSET (1..f)) = 2^f
  BY <1>1, FS_SUBSET
<1>3. Cardinality(SUBSET (1..f)) \in Nat
  BY <1>2, FS_CardinalityType
<1>4. SUBSET (1..f) # {}
  OBVIOUS
<1>5. Cardinality(SUBSET (1..f)) # 0
  BY <1>2, <1>4, FS_EmptySet
<1> QED
  BY <1>2, <1>3, <1>5

\* The delay before the next fork is never more than 5 seconds.
LEMMA BackoffType == ASSUME NEW f \in 0..MaxShift PROVE Backoff(f) \in 0..BackoffCap
<1>1. 2^f \in Nat
  BY ShiftIsPositive
<1>2. BackoffBase * 2^f \in Nat
  BY <1>1, PoolSizes
<1> QED
  BY <1>2, PoolSizes DEF Backoff, Least

LEMMA BumpType == ASSUME NEW f \in 0..MaxShift PROVE Bump(f) \in 0..MaxShift
  BY PoolSizes DEF Bump, Least

LEMMA SignalledType ==
  ASSUME NEW S, NEW s \in {"drain", "kill"}, ChildTypeOK
  PROVE  Signalled(S, s) \in [Pids -> SUBSET {"drain", "kill"}]
  BY DEF ChildTypeOK, Signalled

LEMMA DownType == ASSUME NEW n \in Nat, NEW m \in 0..n PROVE Down(m) \in 0..n
  BY DEF Down

LEMMA ChildStepType ==
  ASSUME PoolTypeOK, NEW p \in Pids, ChildStep(p), UNCHANGED <<pc, managerVars, stop>>
  PROVE  PoolTypeOK'
<1> USE DEF PoolTypeOK, ChildTypeOK, Goto, Exit, childVars, timeVars, managerVars, States
<1>1. CASE SetDeathSignal(p)
  BY <1>1 DEF SetDeathSignal, ChildStep
<1>2. CASE CheckParent(p)
  BY <1>2 DEF CheckParent, ChildStep
<1>3. CASE InstallHandlers(p)
  BY <1>3 DEF InstallHandlers, ChildStep
<1>4. CASE before_accept(p)
  BY <1>4 DEF before_accept, ChildStep
<1>5. CASE poly_connection_accepted(p)
  <2>1. CASE Exit(p, FALSE) /\ UNCHANGED <<age, life, parentAlive>>
    BY <2>1
  <2>2. CASE /\ child' = [child EXCEPT ![p] = "active"]
             /\ connectionActive' = [connectionActive EXCEPT ![p] = TRUE]
             /\ age' = [age EXCEPT ![p] = 0]
             /\ UNCHANGED <<abnormal, pend, drainRequested, mailbox, life, parentAlive>>
    BY <2>2, ChildTimes
  <2> QED
    BY <1>5, <2>1, <2>2 DEF poly_connection_accepted, ChildStep
<1>6. CASE SendStamp(p)
  BY <1>6 DEF SendStamp, ChildStep
<1>7. CASE drain_handler(p)
  <2>1. CASE Exit(p, FALSE) /\ UNCHANGED <<age, life, parentAlive>>
    BY <2>1
  <2>2. CASE /\ drainRequested' = [drainRequested EXCEPT ![p] = TRUE]
             /\ pend' = [pend EXCEPT ![p] = @ \ {"drain"}]
             /\ UNCHANGED <<child, abnormal, connectionActive, mailbox, age, life,
                            parentAlive>>
    BY <2>2
  <2> QED
    BY <1>7, <2>1, <2>2 DEF drain_handler, ChildStep
<1>8. CASE Killed(p)
  BY <1>8 DEF Killed, ChildStep
<1>9. CASE Accept(p)
  BY <1>9 DEF Accept, ChildStep
<1>10. CASE AcceptFails(p)
  BY <1>10 DEF AcceptFails, ChildStep
<1>11. CASE ConnectionRejected(p)
  BY <1>11 DEF ConnectionRejected, ChildStep
<1>12. CASE \E bad \in BOOLEAN : ServeEnds(p, bad)
  BY <1>12 DEF ServeEnds, ChildStep
<1>13. CASE Crash(p)
  BY <1>13 DEF Crash, ChildStep
<1> QED
  BY <1>1, <1>2, <1>3, <1>4, <1>5, <1>6, <1>7, <1>8, <1>9, <1>10, <1>11, <1>12, <1>13
  DEF ChildStep, Prompt, Outside

LEMMA ManagerStepType ==
  ASSUME PoolTypeOK, ManagerStep
  PROVE  PoolTypeOK'
<1> USE DEF PoolTypeOK, ChildTypeOK, Goto, childVars, timeVars, managerVars, States
<1>1. ASSUME NEW p \in Pids, Fork(p) PROVE PoolTypeOK'
  BY <1>1 DEF Fork
<1>2. CASE SpawnFails
  BY <1>2, BumpType, BackoffType DEF SpawnFails
<1>3. CASE PoolFilled
  BY <1>3 DEF PoolFilled
<1>4. CASE Poll
  BY <1>4 DEF Poll
<1>5. CASE PollFails
  BY <1>5, PoolSizes DEF PollFails
<1>6. CASE ReadStamps
  BY <1>6 DEF ReadStamps
<1>7. ASSUME NEW s \in StopSignals, ReadStopSignal(s) PROVE PoolTypeOK'
  <2>1. pend' \in [Pids -> SUBSET {"drain", "kill"}]
    BY <1>7, SignalledType DEF ReadStopSignal
  <2>2. stop' \in [StopSignals -> {"unsent", "pending", "read"}]
    BY <1>7 DEF ReadStopSignal
  <2>3. draining' \in BOOLEAN
    BY <1>7, Zenon DEF ReadStopSignal
  <2>4. grace' \in 0..DrainGrace
    <3>1. grace' \in {grace, 0, DrainGrace}
      BY <1>7 DEF ReadStopSignal
    <3> QED
      BY <3>1, PoolSizes
  <2> QED
    BY <1>7, <2>1, <2>2, <2>3, <2>4 DEF ReadStopSignal
<1>8. CASE NoMoreSignals
  BY <1>8 DEF NoMoreSignals
<1>9. CASE KillOverdue
  <2>1. pend' \in [Pids -> SUBSET {"drain", "kill"}]
    BY <1>9, SignalledType DEF KillOverdue
  <2>2. killed' \in [Pids -> BOOLEAN]
    BY <1>9 DEF KillOverdue
  <2> QED
    BY <1>9, <2>1, <2>2 DEF KillOverdue
<1>10. ASSUME NEW p \in Pids, Reap(p) PROVE PoolTypeOK'
  <2>1. failures' \in 0..MaxShift /\ retry' \in 0..BackoffCap
    <3>1. CASE StartupFailure(p)
      BY <1>10, <3>1, BumpType, BackoffType DEF Reap, AccountExit
    <3>2. CASE ~StartupFailure(p)
      BY <1>10, <3>2, PoolSizes DEF Reap, AccountExit
    <3> QED
      BY <3>1, <3>2
  <2>2. /\ abnormal' \in [Pids -> BOOLEAN]
        /\ connectionActive' \in [Pids -> BOOLEAN]
        /\ drainRequested' \in [Pids -> BOOLEAN]
        /\ mailbox' \in [Pids -> BOOLEAN]
        /\ started' \in [Pids -> BOOLEAN]
        /\ killed' \in [Pids -> BOOLEAN]
    BY <1>10 DEF Reap
  <2>3. /\ child' \in [Pids -> States]
        /\ age' \in [Pids -> 0..RequestTimeout]
        /\ life' \in [Pids -> 0..StartupWindow]
    BY <1>10, ChildTimes DEF Reap
  <2> QED
    BY <1>10, <2>1, <2>2, <2>3 DEF Reap
<1>11. CASE NothingToReap
  BY <1>11 DEF NothingToReap
<1> QED
  BY <1>1, <1>2, <1>3, <1>4, <1>5, <1>6, <1>7, <1>8, <1>9, <1>10, <1>11 DEF ManagerStep

LEMMA OutsideStepType ==
  ASSUME PoolTypeOK,
         \/ \E s \in StopSignals : SignalManager(s) \/ SignalGroup(s)
         \/ ManagerDies
         \/ Tick
         \/ Rest
  PROVE  PoolTypeOK'
<1> USE DEF PoolTypeOK, ChildTypeOK, childVars, timeVars, managerVars
<1>1. ASSUME NEW s \in StopSignals, SignalManager(s) PROVE PoolTypeOK'
  BY <1>1 DEF SignalManager
<1>2. ASSUME NEW s \in StopSignals, SignalGroup(s) PROVE PoolTypeOK'
  BY <1>2, SignalledType DEF SignalGroup
<1>3. CASE ManagerDies
  <2>1. pend' \in [Pids -> SUBSET {"drain", "kill"}]
    BY <1>3, SignalledType DEF ManagerDies
  <2>2. /\ mailbox' \in [Pids -> BOOLEAN]
        /\ started' \in [Pids -> BOOLEAN]
        /\ killed' \in [Pids -> BOOLEAN]
        /\ stop' \in [StopSignals -> {"unsent", "pending", "read"}]
    BY <1>3 DEF ManagerDies
  <2>3. grace' \in 0..DrainGrace /\ retry' \in 0..BackoffCap /\ failures' \in 0..MaxShift
    BY <1>3, PoolSizes DEF ManagerDies
  <2> QED
    BY <1>3, <2>1, <2>2, <2>3 DEF ManagerDies
<1>4. CASE Tick
  <2>1. age' \in [Pids -> 0..RequestTimeout] /\ life' \in [Pids -> 0..StartupWindow]
    BY <1>4, ChildTimes DEF Tick, AgeChildren
  <2>2. grace' \in 0..DrainGrace /\ retry' \in 0..BackoffCap
    BY <1>4, PoolSizes, DownType DEF Tick
  <2> QED
    BY <1>4, <2>1, <2>2 DEF Tick
<1>5. CASE Rest
  BY <1>5 DEF Rest, vars
<1> QED
  BY <1>1, <1>2, <1>3, <1>4, <1>5

LEMMA InitType == Init => PoolTypeOK
<1> SUFFICES ASSUME Init PROVE PoolTypeOK
  OBVIOUS
<1>1. ChildTypeOK
  BY ChildTimes DEF Init, ChildInit, ChildTypeOK, States
<1>2. grace \in 0..DrainGrace /\ retry \in 0..BackoffCap /\ failures \in 0..MaxShift
  BY PoolSizes DEF Init
<1> QED
  BY <1>1, <1>2 DEF Init, PoolTypeOK

LEMMA NextType == ASSUME PoolTypeOK, [Next]_vars PROVE PoolTypeOK'
<1>1. CASE ManagerStep
  BY <1>1, ManagerStepType
<1>2. ASSUME NEW p \in Pids, ChildStep(p), UNCHANGED <<pc, managerVars, stop>>
      PROVE  PoolTypeOK'
  BY <1>2, ChildStepType
<1>3. CASE \/ \E s \in StopSignals : SignalManager(s) \/ SignalGroup(s)
           \/ ManagerDies
           \/ Tick
           \/ Rest
  BY <1>3, OutsideStepType
<1>4. CASE UNCHANGED vars
  BY <1>4 DEF vars, childVars, timeVars, managerVars, PoolTypeOK, ChildTypeOK
<1> QED
  BY <1>1, <1>2, <1>3, <1>4 DEF Next

\* Every variable keeps to its type: ages and countdowns stay within the
\* durations they are compared with, whatever the durations are.
THEOREM Typing == Spec => []PoolTypeOK
  BY InitType, NextType, PTL DEF Spec

-----------------------------------------------------------------------------
\* The inductive invariant under the steps of a child.

\* Nothing about the process q changes.
Untouched(q) ==
  /\ child'[q] = child[q]
  /\ pend'[q] = pend[q]
  /\ connectionActive'[q] = connectionActive[q]
  /\ drainRequested'[q] = drainRequested[q]
  /\ mailbox'[q] = mailbox[q]
  /\ age'[q] = age[q]

ManagerUntouched == UNCHANGED <<pc, managerVars, stop>> /\ UNCHANGED parentAlive

LEMMA UntouchedKeeps ==
  ASSUME NEW q \in Pids, ProcessInv(q), Untouched(q), ManagerUntouched
  PROVE  ProcessInv(q)'
  BY DEF ProcessInv, Untouched, ManagerUntouched, managerVars, Alive, DrainExpired

\* A step of p is a step of nobody else.
LEMMA OthersUntouched ==
  ASSUME PoolTypeOK, NEW p \in Pids, Prompt(p) \/ Outside(p), NEW q \in Pids \ {p}
  PROVE  Untouched(q)
<1> USE DEF PoolTypeOK, ChildTypeOK, Goto, Exit, timeVars, Untouched
<1>1. CASE SetDeathSignal(p)
  BY <1>1 DEF SetDeathSignal
<1>2. CASE CheckParent(p)
  BY <1>2 DEF CheckParent
<1>3. CASE InstallHandlers(p)
  BY <1>3 DEF InstallHandlers
<1>4. CASE before_accept(p)
  BY <1>4 DEF before_accept
<1>5. CASE poly_connection_accepted(p)
  BY <1>5 DEF poly_connection_accepted
<1>6. CASE SendStamp(p)
  BY <1>6 DEF SendStamp
<1>7. CASE drain_handler(p)
  BY <1>7 DEF drain_handler
<1>8. CASE Killed(p)
  BY <1>8 DEF Killed
<1>9. CASE Accept(p)
  BY <1>9 DEF Accept
<1>10. CASE AcceptFails(p)
  BY <1>10 DEF AcceptFails
<1>11. CASE ConnectionRejected(p)
  BY <1>11 DEF ConnectionRejected
<1>12. CASE \E bad \in BOOLEAN : ServeEnds(p, bad)
  BY <1>12 DEF ServeEnds
<1>13. CASE Crash(p)
  BY <1>13 DEF Crash
<1> QED
  BY <1>1, <1>2, <1>3, <1>4, <1>5, <1>6, <1>7, <1>8, <1>9, <1>10, <1>11, <1>12, <1>13
  DEF Prompt, Outside

\* A zombie keeps the history of the process and none of its obligations.
LEMMA ExitKeeps ==
  ASSUME PoolTypeOK, NEW p \in Pids, ProcessInv(p), Alive(p), NEW bad,
         Exit(p, bad), UNCHANGED age, ManagerUntouched
  PROVE  ProcessInv(p)'
<1>1. child'[p] = "zombie" /\ pend'[p] = {} /\ ~Alive(p)'
  BY DEF Exit, Alive, PoolTypeOK, ChildTypeOK
<1>2. /\ started'[p] = started[p]
      /\ mailbox'[p] = mailbox[p]
      /\ connectionActive'[p] = connectionActive[p]
      /\ parentAlive' = parentAlive
      /\ workers' = workers
  BY DEF Exit, ManagerUntouched, managerVars
<1> QED
  BY <1>1, <1>2 DEF ProcessInv, Alive

LEMMA OwnStepKeeps ==
  ASSUME PoolTypeOK, NEW p \in Pids, ProcessInv(p), Prompt(p) \/ Outside(p), ManagerUntouched
  PROVE  ProcessInv(p)'
<1> USE DEF PoolTypeOK, ChildTypeOK, timeVars
<1>a. ASSUME NEW bad, Alive(p), Exit(p, bad), UNCHANGED age PROVE ProcessInv(p)'
  BY <1>a, ExitKeeps
<1>1. CASE SetDeathSignal(p)
  BY <1>1 DEF SetDeathSignal, Goto, ProcessInv, Alive, DrainExpired, ManagerUntouched, managerVars
<1>2. CASE CheckParent(p)
  <2>1. CASE parentAlive
    BY <1>2, <2>1
    DEF CheckParent, Goto, ProcessInv, Alive, DrainExpired, ManagerUntouched, managerVars
  <2> QED
    BY <1>2, <2>1, <1>a DEF CheckParent, Alive
<1>3. CASE InstallHandlers(p)
  <2>1. CASE "drain" \notin pend[p]
    BY <1>3, <2>1
    DEF InstallHandlers, Goto, ProcessInv, Alive, DrainExpired, ManagerUntouched, managerVars
  <2> QED
    BY <1>3, <2>1, <1>a DEF InstallHandlers, Alive
<1>4. CASE before_accept(p)
  <2>1. CASE ~connectionActive[p] /\ ~drainRequested[p]
    BY <1>4, <2>1
    DEF before_accept, Goto, ProcessInv, Alive, DrainExpired, ManagerUntouched, managerVars
  <2> QED
    BY <1>4, <2>1, <1>a DEF before_accept, Alive
<1>5. CASE poly_connection_accepted(p)
  <2>1. CASE ~drainRequested[p] /\ ~connectionActive[p]
    <3>1. /\ child[p] = "accepted" /\ child'[p] = "active" /\ connectionActive'[p]
          /\ ~started[p] /\ ~mailbox[p] /\ pend'[p] = pend[p]
          /\ drainRequested'[p] = drainRequested[p]
      BY <1>5, <2>1 DEF poly_connection_accepted, Goto, ProcessInv
    <3>2. Alive(p) /\ Alive(p)'
      BY <3>1 DEF Alive
    <3>3. parentAlive /\ "kill" \in pend[p] => DrainExpired'
      BY <2>1, <3>2 DEF ProcessInv, DrainExpired, ManagerUntouched, managerVars
    <3> QED
      BY <3>1, <3>2, <3>3 DEF ProcessInv, ManagerUntouched, managerVars
  <2> QED
    BY <1>5, <2>1, <1>a DEF poly_connection_accepted, Alive
<1>6. CASE SendStamp(p)
  <2>1. CASE parentAlive
    BY <1>6, <2>1
    DEF SendStamp, Goto, ProcessInv, Alive, DrainExpired, ManagerUntouched, managerVars
  <2>2. CASE ~parentAlive /\ ~Exit(p, TRUE)
    BY <1>6, <2>2
    DEF SendStamp, Goto, ProcessInv, Alive, DrainExpired, ManagerUntouched, managerVars
  <2> QED
    BY <1>6, <2>1, <2>2, <1>a DEF SendStamp, Alive
<1>7. CASE drain_handler(p)
  <2>1. CASE connectionActive[p]
    BY <1>7, <2>1
    DEF drain_handler, Unmasked, ProcessInv, Alive, DrainExpired, ManagerUntouched, managerVars
  <2> QED
    BY <1>7, <2>1, <1>a DEF drain_handler, Unmasked, Alive
<1>8. CASE Killed(p)
  BY <1>8, <1>a DEF Killed
<1>9. CASE Accept(p)
  BY <1>9 DEF Accept, Goto, ProcessInv, Alive, DrainExpired, ManagerUntouched, managerVars
<1>10. CASE AcceptFails(p)
  BY <1>10, <1>a DEF AcceptFails, Alive
<1>11. CASE ConnectionRejected(p)
  BY <1>11
  DEF ConnectionRejected, Goto, ProcessInv, Alive, DrainExpired, ManagerUntouched, managerVars
<1>12. CASE \E bad \in BOOLEAN : ServeEnds(p, bad)
  BY <1>12, <1>a DEF ServeEnds, Alive
<1>13. CASE Crash(p)
  BY <1>13, <1>a DEF Crash
<1> QED
  BY <1>1, <1>2, <1>3, <1>4, <1>5, <1>6, <1>7, <1>8, <1>9, <1>10, <1>11, <1>12, <1>13
  DEF Prompt, Outside

\* A process that cannot execute makes no step, so that an empty pool stays
\* empty; and no step of a child makes or removes a process.
LEMMA StepsNeedLife ==
  ASSUME PoolTypeOK, NEW p \in Pids, ProcessInv(p), Prompt(p) \/ Outside(p)
  PROVE  Alive(p) /\ child'[p] # "none"
<1> USE DEF Alive, Unmasked, Goto, Exit, PoolTypeOK, ChildTypeOK
<1>1. CASE Prompt(p)
  BY <1>1 DEF Prompt, SetDeathSignal, CheckParent, InstallHandlers, before_accept,
              poly_connection_accepted, SendStamp, drain_handler, Killed
<1>2. CASE Outside(p)
  BY <1>2 DEF Outside, Accept, AcceptFails, ConnectionRejected, ServeEnds, Crash
<1> QED
  BY <1>1, <1>2

LEMMA ChildStepKeeps ==
  ASSUME Inv, NEW p \in Pids, ChildStep(p), UNCHANGED <<pc, managerVars, stop>>
  PROVE  Inv'
<1>1. PoolTypeOK /\ PoolTypeOK'
  BY ChildStepType DEF Inv
<1>2. ManagerUntouched /\ (Prompt(p) \/ Outside(p))
  BY DEF ChildStep, ManagerUntouched
<1>3. \A q \in Pids : ProcessInv(q)'
  BY <1>1, <1>2, OwnStepKeeps, OthersUntouched, UntouchedKeeps DEF Inv
<1>4. Alive(p) /\ child'[p] # "none"
  BY <1>1, <1>2, StepsNeedLife DEF Inv
<1>5. \A q \in Pids \ {p} : child'[q] = child[q]
  BY <1>1, <1>2, OthersUntouched DEF Untouched
<1>6. ManagerInv'
  BY <1>2, <1>4 DEF Inv, ManagerInv, ManagerUntouched, Alive
<1>7. Existing' = Existing
  BY <1>4, <1>5 DEF Existing, Alive
<1> QED
  BY <1>1, <1>3, <1>6, <1>7 DEF Inv, PoolBounded

-----------------------------------------------------------------------------
\* The inductive invariant under the steps of the manager.

\* A step that leaves the processes alone keeps their number.
LEMMA SameProcesses == ASSUME PoolBounded, UNCHANGED child PROVE PoolBounded'
  BY DEF PoolBounded, Existing

\* A pid is free when fork() returns it: the new process starts from nothing.
LEMMA ForkKeeps == ASSUME Inv, NEW p \in Pids, Fork(p) PROVE Inv'
<1>1. PoolTypeOK /\ PoolTypeOK'
  BY ManagerStepType DEF Inv, ManagerStep
<1>2. pc = "spawn" /\ pc' = "spawn" /\ parentAlive /\ parentAlive' /\ ~draining
  BY DEF Fork, MayFork, Inv, ManagerInv
<1>3. child[p] = "none" /\ child'[p] = "forked" /\ \A q \in Pids \ {p} : child'[q] = child[q]
  BY <1>1 DEF Fork, Goto, PoolTypeOK, ChildTypeOK
<1>4. workers' = workers \cup {p} /\ p \notin workers
  BY <1>2, <1>3 DEF Fork, Inv, ProcessInv
<1>5. ASSUME NEW q \in Pids PROVE ProcessInv(q)'
  <2>1. ProcessInv(q)
    BY DEF Inv
  <2>2. /\ pend'[q] = pend[q] /\ connectionActive'[q] = connectionActive[q]
        /\ drainRequested'[q] = drainRequested[q] /\ mailbox'[q] = mailbox[q]
        /\ age'[q] = age[q] /\ started'[q] = started[q] /\ killed'[q] = killed[q]
        /\ draining' = draining /\ grace' = grace
    BY DEF Fork, timeVars
  <2>3. CASE q = p
    BY <1>2, <1>3, <1>4, <2>1, <2>2, <2>3 DEF ProcessInv, Alive
  <2>4. CASE q # p
    BY <1>2, <1>3, <1>4, <2>1, <2>2, <2>4 DEF ProcessInv, Alive, DrainExpired
  <2> QED
    BY <2>3, <2>4
<1>6. Existing = workers /\ Existing' = workers \cup {p}
  BY <1>1, <1>2, <1>3, <1>4, <1>5 DEF Inv, ProcessInv, Existing, PoolTypeOK
<1>7. IsFiniteSet(workers)
  BY <1>1, PidsFinite, FS_Subset DEF PoolTypeOK
<1>8. Cardinality(workers \cup {p}) = Cardinality(workers) + 1
  BY <1>4, <1>7, FS_AddElement
<1>9. Cardinality(workers) < Workers /\ Cardinality(workers) \in Nat
  BY <1>7, FS_CardinalityType DEF Fork, MayFork
<1>10. PoolBounded'
  BY <1>6, <1>8, <1>9, PoolSizes DEF PoolBounded
<1> QED
  BY <1>1, <1>2, <1>5, <1>10 DEF Inv, ManagerInv

\* Reading a process's exit forgets all that was known of it.
LEMMA ReapKeeps == ASSUME Inv, NEW p \in Pids, Reap(p) PROVE Inv'
<1>1. PoolTypeOK /\ PoolTypeOK'
  BY ManagerStepType DEF Inv, ManagerStep
<1>2. pc = "reap" /\ pc' = "reap" /\ parentAlive /\ parentAlive'
  BY DEF Reap, Inv, ManagerInv
<1>3. child[p] = "zombie" /\ child'[p] = "none" /\ \A q \in Pids \ {p} : child'[q] = child[q]
  BY <1>1 DEF Reap, PoolTypeOK, ChildTypeOK
<1>4. ASSUME NEW q \in Pids PROVE ProcessInv(q)'
  <2>1. ProcessInv(q)
    BY DEF Inv
  <2>2. pend' = pend /\ draining' = draining /\ grace' = grace /\ fatal' = fatal
        /\ workers' = workers \ {p}
    BY DEF Reap
  <2>3. CASE q = p
    <3>1. ~connectionActive'[q] /\ ~drainRequested'[q] /\ ~started'[q] /\ ~killed'[q]
          /\ ~mailbox'[q]
      BY <1>1, <2>3 DEF Reap, PoolTypeOK, ChildTypeOK
    <3> QED
      BY <1>2, <1>3, <2>1, <2>2, <2>3, <3>1 DEF ProcessInv, Alive
  <2>4. CASE q # p
    <3>1. /\ connectionActive'[q] = connectionActive[q] /\ age'[q] = age[q]
          /\ drainRequested'[q] = drainRequested[q] /\ mailbox'[q] = mailbox[q]
          /\ started'[q] = started[q] /\ killed'[q] = killed[q]
      BY <1>1, <2>4 DEF Reap, PoolTypeOK, ChildTypeOK
    <3> QED
      BY <1>2, <1>3, <2>1, <2>2, <2>4, <3>1 DEF ProcessInv, Alive, DrainExpired
  <2> QED
    BY <2>3, <2>4
<1>5. PoolBounded'
  <2>1. Existing' \subseteq Existing
    BY <1>3 DEF Existing
  <2>2. IsFiniteSet(Existing) /\ IsFiniteSet(Existing')
    BY <2>1, PidsFinite, FS_Subset DEF Existing
  <2> QED
    BY <2>1, <2>2, FS_Subset, FS_CardinalityType, PoolSizes DEF Inv, PoolBounded
<1> QED
  BY <1>1, <1>2, <1>4, <1>5 DEF Inv, ManagerInv

\* The steps that only move the manager along its loop, count or decide.
LEMMA LoopKeeps ==
  ASSUME Inv, SpawnFails \/ PoolFilled \/ Poll \/ NoMoreSignals \/ NothingToReap
  PROVE  Inv'
<1>1. PoolTypeOK'
  BY ManagerStepType DEF Inv, ManagerStep
<1>2. /\ UNCHANGED <<childVars, timeVars, parentAlive, workers, started, killed,
                      draining, grace, fatal>>
      /\ pc # "dead" /\ pc' # "dead"
      /\ pc' = "stopped" => workers = {} /\ parentAlive
  BY DEF SpawnFails, PoolFilled, Poll, NoMoreSignals, NothingToReap, managerVars, Inv, ManagerInv
<1>3. ASSUME NEW q \in Pids PROVE ProcessInv(q)'
  BY <1>2 DEF Inv, ProcessInv, Alive, DrainExpired, childVars, timeVars
<1>4. ManagerInv'
  BY <1>2 DEF Inv, ManagerInv, ProcessInv, childVars
<1>5. PoolBounded'
  BY <1>2, SameProcesses DEF Inv, childVars
<1> QED
  BY <1>1, <1>3, <1>4, <1>5 DEF Inv

LEMMA SignalledValue ==
  ASSUME NEW S, NEW s, NEW q \in Pids
  PROVE  Signalled(S, s)[q] = IF q \in S /\ Alive(q) THEN pend[q] \cup {s} ELSE pend[q]
  BY DEF Signalled

LEMMA PollFailsKeeps == ASSUME Inv, PollFails PROVE Inv'
<1>1. PoolTypeOK'
  BY ManagerStepType DEF Inv, ManagerStep
<1>2. UNCHANGED <<childVars, timeVars, parentAlive, workers, started, killed>>
      /\ pc = "poll" /\ pc' = "stamps" /\ draining' /\ fatal' /\ grace' = 0
  BY DEF PollFails
<1>3. ASSUME NEW q \in Pids PROVE ProcessInv(q)'
  BY <1>2 DEF Inv, ProcessInv, Alive, DrainExpired, childVars, timeVars
<1>4. PoolBounded'
  BY <1>2, SameProcesses DEF Inv, childVars
<1> QED
  BY <1>1, <1>2, <1>3, <1>4 DEF Inv, ManagerInv

LEMMA ReadStampsKeeps == ASSUME Inv, ReadStamps PROVE Inv'
<1>1. PoolTypeOK /\ PoolTypeOK'
  BY ManagerStepType DEF Inv, ManagerStep
<1>2. UNCHANGED <<child, pend, connectionActive, drainRequested, age, parentAlive,
                  workers, killed, draining, grace, fatal>>
      /\ pc = "stamps" /\ pc' = "signals"
  BY DEF ReadStamps, timeVars
<1>3. ASSUME NEW q \in Pids PROVE ProcessInv(q)'
  <2>1. (started'[q] \/ mailbox'[q]) => (started[q] \/ mailbox[q])
    BY <1>1 DEF ReadStamps, PoolTypeOK, ChildTypeOK
  <2>2. child[q] = "none" => ~started'[q]
    BY <2>1 DEF Inv, ProcessInv
  <2> QED
    BY <1>2, <2>1, <2>2 DEF Inv, ProcessInv, Alive, DrainExpired
<1>4. PoolBounded'
  BY <1>2, SameProcesses DEF Inv
<1> QED
  BY <1>1, <1>2, <1>3, <1>4 DEF Inv, ManagerInv

\* The first stop signal reaches every process of the table, and the table
\* is every process there is.
LEMMA ReadStopSignalKeeps ==
  ASSUME Inv, NEW s \in StopSignals, ReadStopSignal(s)
  PROVE  Inv'
<1>1. PoolTypeOK /\ PoolTypeOK'
  BY ManagerStepType DEF Inv, ManagerStep
<1>2. UNCHANGED <<child, connectionActive, drainRequested, age, mailbox, parentAlive,
                  workers, started, killed, fatal, pc>>
      /\ pc = "signals" /\ parentAlive
  BY DEF ReadStopSignal, timeVars, Inv, ManagerInv
<1>3. ASSUME NEW q \in Pids PROVE ProcessInv(q)'
  <2>1. CASE draining
    BY <1>2, <2>1 DEF ReadStopSignal, Inv, ProcessInv, Alive, DrainExpired
  <2>2. CASE ~draining
    <3>1. draining' /\ grace' = DrainGrace /\ DrainGrace # 0
      BY <2>2, PoolSizes DEF ReadStopSignal
    <3>2. pend'[q] = IF q \in workers /\ Alive(q) THEN pend[q] \cup {"drain"} ELSE pend[q]
      BY <2>2, SignalledValue DEF ReadStopSignal
    <3>3. Alive(q) => q \in workers
      BY <1>2 DEF Inv, ProcessInv, Alive
    <3> QED
      BY <1>2, <2>2, <3>1, <3>2, <3>3 DEF Inv, ProcessInv, Alive, DrainExpired
  <2> QED
    BY <2>1, <2>2
<1>4. PoolBounded'
  BY <1>2, SameProcesses DEF Inv
<1> QED
  BY <1>1, <1>2, <1>3, <1>4 DEF Inv, ManagerInv

\* A worker is killed for its own connection's age or for the drain.
LEMMA KillOverdueKeeps == ASSUME Inv, KillOverdue PROVE Inv'
<1>1. PoolTypeOK /\ PoolTypeOK'
  BY ManagerStepType DEF Inv, ManagerStep
<1>2. UNCHANGED <<child, connectionActive, drainRequested, age, mailbox, parentAlive,
                  workers, started, draining, grace, fatal>>
      /\ pc = "deadlines" /\ pc' = "reap" /\ parentAlive
  BY DEF KillOverdue, timeVars, Inv, ManagerInv
<1>3. ASSUME NEW q \in Pids PROVE ProcessInv(q)'
  <2>1. pend'[q] = IF q \in Overdue /\ Alive(q) THEN pend[q] \cup {"kill"} ELSE pend[q]
    BY SignalledValue DEF KillOverdue
  <2>2. killed'[q] = (killed[q] \/ q \in Overdue)
    BY <1>1 DEF KillOverdue, PoolTypeOK
  <2>3. q \in Overdue => child[q] # "none"
    BY <1>2 DEF Overdue, Inv, ProcessInv
  <2>4. q \in Overdue => DrainExpired \/ (connectionActive[q] /\ age[q] >= RequestTimeout)
    BY DEF Overdue, Expired, Inv, ProcessInv
  <2> QED
    BY <1>2, <2>1, <2>2, <2>3, <2>4 DEF Inv, ProcessInv, Alive, DrainExpired
<1>4. PoolBounded'
  BY <1>2, SameProcesses DEF Inv
<1> QED
  BY <1>1, <1>2, <1>3, <1>4 DEF Inv, ManagerInv

-----------------------------------------------------------------------------
\* The inductive invariant under what happens from outside.

LEMMA SignalManagerKeeps ==
  ASSUME Inv, NEW s \in StopSignals, SignalManager(s)
  PROVE  Inv'
<1>1. PoolTypeOK'
  BY OutsideStepType DEF Inv
<1>2. UNCHANGED <<childVars, timeVars, parentAlive, pc, managerVars>>
  BY DEF SignalManager
<1>3. ASSUME NEW q \in Pids PROVE ProcessInv(q)'
  BY <1>2 DEF Inv, ProcessInv, Alive, DrainExpired, childVars, timeVars, managerVars
<1>4. PoolBounded'
  BY <1>2, SameProcesses DEF Inv, childVars
<1> QED
  BY <1>1, <1>2, <1>3, <1>4 DEF Inv, ManagerInv, childVars

LEMMA SignalGroupKeeps ==
  ASSUME Inv, NEW s \in StopSignals, SignalGroup(s)
  PROVE  Inv'
<1>1. PoolTypeOK'
  BY OutsideStepType DEF Inv
<1>2. UNCHANGED <<child, connectionActive, drainRequested, mailbox, age, parentAlive, pc,
                  managerVars>>
  BY DEF SignalGroup, timeVars
<1>3. ASSUME NEW q \in Pids PROVE ProcessInv(q)'
  <2>1. pend'[q] = IF Alive(q) THEN pend[q] \cup {"drain"} ELSE pend[q]
    BY SignalledValue DEF SignalGroup
  <2> QED
    BY <1>2, <2>1 DEF Inv, ProcessInv, Alive, DrainExpired, managerVars
<1>4. PoolBounded'
  BY <1>2, SameProcesses DEF Inv
<1> QED
  BY <1>1, <1>2, <1>3, <1>4 DEF Inv, ManagerInv

\* Who has armed the death signal gets it; who has not will ask for its parent.
LEMMA ManagerDiesKeeps == ASSUME Inv, ManagerDies PROVE Inv'
<1>1. PoolTypeOK /\ PoolTypeOK'
  BY OutsideStepType DEF Inv
<1>2. UNCHANGED <<child, connectionActive, drainRequested, age>>
      /\ ~parentAlive' /\ pc' = "dead" /\ ~draining'
  BY DEF ManagerDies, timeVars
<1>3. ASSUME NEW q \in Pids PROVE ProcessInv(q)'
  <2>1. pend'[q] = IF DeathSignalSet(q) /\ Alive(q) THEN pend[q] \cup {"kill"} ELSE pend[q]
    BY SignalledValue DEF ManagerDies
  <2>2. Alive(q) => DeathSignalSet(q) \/ child[q] = "forked"
    BY <1>1 DEF Alive, DeathSignalSet, Unmasked, PoolTypeOK, ChildTypeOK, States
  <2>3. ~mailbox'[q] /\ ~started'[q] /\ ~killed'[q]
    BY DEF ManagerDies
  <2> QED
    BY <1>2, <2>1, <2>2, <2>3 DEF Inv, ProcessInv, Alive
<1>4. PoolBounded'
  BY <1>2, SameProcesses DEF Inv
<1> QED
  BY <1>1, <1>2, <1>3, <1>4 DEF Inv, ManagerInv

\* Time makes a child overdue and never less so.
LEMMA TickKeeps == ASSUME Inv, Tick PROVE Inv'
<1>1. PoolTypeOK /\ PoolTypeOK'
  BY OutsideStepType DEF Inv
<1>2. UNCHANGED <<childVars, parentAlive, pc, workers, started, killed, draining, fatal>>
  BY DEF Tick
<1>3. DrainExpired => DrainExpired'
  BY DEF Tick, Down, DrainExpired
<1>4. ASSUME NEW q \in Pids PROVE ProcessInv(q)'
  <2>1. age[q] >= RequestTimeout => age'[q] >= RequestTimeout
    BY <1>1, ChildTimes DEF Tick, AgeChildren, PoolTypeOK, ChildTypeOK
  <2> QED
    BY <1>2, <1>3, <2>1 DEF Inv, ProcessInv, Alive, childVars
<1>5. PoolBounded'
  BY <1>2, SameProcesses DEF Inv, childVars
<1> QED
  BY <1>1, <1>2, <1>4, <1>5 DEF Inv, ManagerInv, childVars

LEMMA StutterKeeps == ASSUME Inv, UNCHANGED vars PROVE Inv'
  BY DEF Inv, PoolTypeOK, ChildTypeOK, ManagerInv, PoolBounded, Existing, ProcessInv, Alive,
         DrainExpired, vars, childVars, timeVars, managerVars

LEMMA NextKeeps == ASSUME Inv, [Next]_vars PROVE Inv'
<1>1. CASE ManagerStep
  BY <1>1, ForkKeeps, ReapKeeps, LoopKeeps, PollFailsKeeps, ReadStampsKeeps,
     ReadStopSignalKeeps, KillOverdueKeeps
  DEF ManagerStep
<1>2. ASSUME NEW p \in Pids, ChildStep(p), UNCHANGED <<pc, managerVars, stop>> PROVE Inv'
  BY <1>2, ChildStepKeeps
<1>3. ASSUME NEW s \in StopSignals, SignalManager(s) \/ SignalGroup(s) PROVE Inv'
  BY <1>3, SignalManagerKeeps, SignalGroupKeeps
<1>4. CASE ManagerDies \/ Tick
  BY <1>4, ManagerDiesKeeps, TickKeeps
<1>5. CASE Rest \/ UNCHANGED vars
  BY <1>5, StutterKeeps DEF Rest
<1> QED
  BY <1>1, <1>2, <1>3, <1>4, <1>5 DEF Next

-----------------------------------------------------------------------------
\* The results.

LEMMA InitInv == Init => Inv
<1> SUFFICES ASSUME Init PROVE Inv
  OBVIOUS
<1>1. PoolTypeOK
  BY InitType
<1>2. ASSUME NEW p \in Pids PROVE ProcessInv(p)
  BY DEF Init, ChildInit, ProcessInv, Alive
<1>3. Existing = {}
  BY DEF Init, ChildInit, Existing
<1>4. PoolBounded
  BY <1>3, FS_EmptySet, PoolSizes DEF PoolBounded
<1> QED
  BY <1>1, <1>2, <1>4 DEF Init, ChildInit, Inv, ManagerInv

\* The inductive invariant holds for every pool: the theorems below are its parts.
THEOREM Invariance == Spec => []Inv
  BY InitInv, NextKeeps, PTL DEF Spec

\* The workers table is exactly the set of the manager's children, and an
\* orderly stop leaves none: no signal to a recycled pid, no zombie kept.
THEOREM TableIsExact == Spec => []ChildrenTracked
<1>1. Inv => ChildrenTracked
  BY DEF Inv, PoolTypeOK, ManagerInv, ProcessInv, ChildrenTracked, Existing
<1> QED
  BY <1>1, Invariance, PTL

\* Never more than --workers processes, whatever their number.
THEOREM FixedMaximum == Spec => []PoolBounded
<1>1. Inv => PoolBounded
  BY DEF Inv
<1> QED
  BY <1>1, Invariance, PTL

\* SIGKILL only for a connection past the timeout or a drain past its grace.
THEOREM NoUnjustKill == Spec => []KillJustified
<1>1. Inv => KillJustified
  BY DEF Inv, ProcessInv, KillJustified, Live
<1> QED
  BY <1>1, Invariance, PTL

\* A worker the loop will never kill again has its SIGKILL already, and a stamp,
\* read or unread, is the present process's own.
THEOREM RecordsHold == Spec => []RecordsAreTrue
<1>1. Inv => RecordsAreTrue
  BY DEF Inv, ProcessInv, RecordsAreTrue, Live
<1> QED
  BY <1>1, Invariance, PTL

\* A child in accept() has had no connection and no order to leave.
THEOREM OneConnectionEach == Spec => []WaitingIsFresh
<1>1. Inv => WaitingIsFresh
  BY DEF Inv, ProcessInv, WaitingIsFresh
<1> QED
  BY <1>1, Invariance, PTL

\* No child misses the drain, the one still starting included.
THEOREM NobodyMissesTheDrain == Spec => []DrainReachesAll
<1>1. Inv => DrainReachesAll
  BY DEF Inv, ProcessInv, DrainReachesAll, Live
<1> QED
  BY <1>1, Invariance, PTL

\* No orphan can go on to serve: each is doomed or about to find out.
THEOREM OrphansAreDoomed == Spec => []NoOrphanServes
<1>1. Inv => NoOrphanServes
  BY DEF Inv, ProcessInv, NoOrphanServes, Live
<1> QED
  BY <1>1, Invariance, PTL

-----------------------------------------------------------------------------
\* The back-off.

LEMMA ShiftGrows == ASSUME NEW a \in Nat, NEW b \in Nat, a <= b PROVE 2^a <= 2^b
<1>1. IsFiniteSet(1..a) /\ Cardinality(1..a) = a /\ IsFiniteSet(1..b) /\ Cardinality(1..b) = b
  BY FS_Interval
<1>2. Cardinality(SUBSET (1..a)) = 2^a
  BY <1>1, FS_SUBSET
<1>3. Cardinality(SUBSET (1..b)) = 2^b /\ IsFiniteSet(SUBSET (1..b))
  BY <1>1, FS_SUBSET
<1>4. SUBSET (1..a) \subseteq SUBSET (1..b)
  OBVIOUS
<1> QED
  BY <1>2, <1>3, <1>4, FS_Subset

LEMMA ScalingGrows ==
  ASSUME NEW c \in Nat, NEW x \in Nat, NEW y \in Nat, x <= y
  PROVE  c * x <= c * y
  OBVIOUS

LEMMA BackoffGrows == ASSUME NEW f \in 1..MaxShift PROVE Backoff(f) >= Backoff(1)
<1>a. 1 \in Nat /\ f \in Nat /\ 1 <= f
  BY PoolSizes
<1>1. 2^1 <= 2^f /\ 2^f \in Nat /\ 2^1 \in Nat
  <2>1. 2^1 <= 2^f
    BY <1>a, ShiftGrows, Zenon
  <2>2. 2^f \in Nat \ {0} /\ 2^1 \in Nat \ {0}
    BY <1>a, ShiftIsPositive, Zenon
  <2> QED
    BY <2>1, <2>2
<1>2. BackoffBase * 2^1 <= BackoffBase * 2^f
  BY <1>1, PoolSizes, ScalingGrows
<1>3. BackoffBase * 2^1 \in Nat /\ BackoffBase * 2^f \in Nat
  BY <1>1, PoolSizes
<1> QED
  BY <1>2, <1>3, PoolSizes DEF Backoff, Least

LEMMA BumpIsPositive == ASSUME NEW f \in 0..MaxShift PROVE Bump(f) \in 1..MaxShift
  BY PoolSizes DEF Bump, Least

\* No step cuts a back-off short: time runs it down, a new failure starts one
\* at least as long as the shortest.
THEOREM WaitIsKept == Spec => HoldOnlyExpires
<1> DEFINE Kept == retry' < retry => \/ retry' = retry - 1
                                    \/ retry' >= Backoff(1)
                                    \/ pc' = "dead"
<1>1. ASSUME Inv, Next PROVE Kept
  <2>1. retry \in Nat /\ failures \in 0..MaxShift
    BY <1>1, PoolSizes DEF Inv, PoolTypeOK
  <2>2. CASE SpawnFails
    BY <2>1, <2>2, BumpIsPositive, BackoffGrows DEF SpawnFails
  <2>3. ASSUME NEW p \in Pids, Reap(p) PROVE Kept
    BY <2>1, <2>3, BumpIsPositive, BackoffGrows DEF Reap, AccountExit
  <2>4. CASE Tick
    BY <2>1, <2>4 DEF Tick, Down
  <2>5. CASE ManagerDies
    BY <2>5 DEF ManagerDies
  <2>6. CASE retry' = retry
    BY <2>1, <2>6
  <2>7. ASSUME NEW p \in Pids, Fork(p) PROVE retry' = retry
    BY <2>7 DEF Fork
  <2>8. ASSUME NEW s \in StopSignals, SignalManager(s) \/ SignalGroup(s) \/ ReadStopSignal(s)
        PROVE  retry' = retry
    BY <2>8 DEF SignalManager, SignalGroup, ReadStopSignal, managerVars
  <2>9. ASSUME \/ PoolFilled \/ Poll \/ PollFails \/ ReadStamps \/ NoMoreSignals
               \/ KillOverdue \/ NothingToReap \/ Rest
        PROVE  retry' = retry
    BY <2>9 DEF PoolFilled, Poll, PollFails, ReadStamps, NoMoreSignals, KillOverdue,
                NothingToReap, Rest, vars, managerVars
  <2>10. ASSUME NEW p \in Pids, UNCHANGED <<pc, managerVars, stop>> PROVE retry' = retry
    BY <2>10 DEF managerVars
  <2> QED
    BY <1>1, <2>2, <2>3, <2>4, <2>5, <2>6, <2>7, <2>8, <2>9, <2>10 DEF Next, ManagerStep
<1>2. Inv /\ [Next]_vars => [Kept]_vars
  BY <1>1
<1> QED
  BY <1>2, Invariance, PTL DEF Spec, HoldOnlyExpires
=============================================================================
