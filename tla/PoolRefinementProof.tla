------------------------ MODULE PoolRefinementProof ------------------------
(***************************************************************************)
(* The safety part of the refinement, for every pool: each step of manager *)
(* and children is a step of PoolPromise or invisible in it.               *)
(***************************************************************************)
EXTENDS PoolRefinement, PoolProof

Idle == Live \ Serving

\* The promise sees none of it.
Invisible == UNCHANGED <<Idle, Serving, Phase>>

PromisedStep == Promise!Next \/ Invisible

-----------------------------------------------------------------------------
\* Steps of a child.

LEMMA SamePhase == ASSUME ManagerUntouched PROVE Phase' = Phase
  BY DEF Phase, ManagerUntouched, managerVars

\* Child states move, but the process stays alive and is not marked active.
LEMMA MoveIsInvisible ==
  ASSUME PoolTypeOK, NEW p \in Pids, Alive(p), child'[p] \notin {"none", "zombie"},
         \A q \in Pids \ {p} : child'[q] = child[q],
         UNCHANGED connectionActive, ManagerUntouched
  PROVE  Invisible
<1>1. Live' = Live
  BY DEF Live, Alive
<1> QED
  BY <1>1, SamePhase DEF Invisible, Idle, Serving

LEMMA ExitIsLeave ==
  ASSUME PoolTypeOK, NEW p \in Pids, Alive(p), NEW bad, Exit(p, bad), ManagerUntouched
  PROVE  Promise!Leave(p)
<1>1. Live' = Live \ {p} /\ p \in Live
  BY DEF Exit, Live, Alive, PoolTypeOK, ChildTypeOK
<1>2. Serving' = Serving \ {p}
  BY <1>1 DEF Exit, Serving
<1> QED
  BY <1>1, <1>2, SamePhase DEF Promise!Leave, Serving

LEMMA ActiveIsTake ==
  ASSUME PoolTypeOK, NEW p \in Pids, poly_connection_accepted(p), ~connectionActive[p],
         ~drainRequested[p], ManagerUntouched
  PROVE  Promise!Take(p)
<1>1. Live' = Live /\ p \in Live
  BY DEF poly_connection_accepted, Goto, Live, Alive, PoolTypeOK, ChildTypeOK
<1>2. connectionActive' = [connectionActive EXCEPT ![p] = TRUE]
  BY DEF poly_connection_accepted
<1>3. Serving' = Serving \cup {p} /\ p \notin Serving
  BY <1>1, <1>2 DEF Serving, PoolTypeOK, ChildTypeOK
<1> QED
  BY <1>1, <1>3, SamePhase DEF Promise!Take, Serving

LEMMA ChildStepRefines ==
  ASSUME Inv, NEW p \in Pids, ChildStep(p), UNCHANGED <<pc, managerVars, stop>>
  PROVE  PromisedStep
<1>1. PoolTypeOK /\ ProcessInv(p) /\ ManagerUntouched /\ (Prompt(p) \/ Outside(p))
  BY DEF Inv, ChildStep, ManagerUntouched
<1>2. Alive(p)
  BY <1>1, StepsNeedLife
<1>3. \A q \in Pids \ {p} : child'[q] = child[q]
  BY <1>1, OthersUntouched DEF Untouched
<1>4. ASSUME NEW bad, Exit(p, bad) PROVE PromisedStep
  BY <1>1, <1>2, <1>4, ExitIsLeave DEF PromisedStep, Promise!Next
<1>5. ASSUME child'[p] \notin {"none", "zombie"}, UNCHANGED connectionActive PROVE PromisedStep
  BY <1>1, <1>2, <1>3, <1>5, MoveIsInvisible DEF PromisedStep
<1>6. CASE poly_connection_accepted(p)
  <2>1. CASE ~drainRequested[p] /\ ~connectionActive[p]
    BY <1>1, <1>6, <2>1, ActiveIsTake DEF PromisedStep, Promise!Next
  <2> QED
    BY <1>6, <1>4, <2>1 DEF poly_connection_accepted
<1>7. CASE \/ SetDeathSignal(p) \/ CheckParent(p) \/ InstallHandlers(p) \/ before_accept(p)
           \/ SendStamp(p) \/ Accept(p) \/ ConnectionRejected(p) \/ drain_handler(p)
  <2>1. (\E bad : Exit(p, bad)) \/ (child'[p] \notin {"none", "zombie"} /\ UNCHANGED connectionActive)
    BY <1>1, <1>2, <1>7
    DEF SetDeathSignal, CheckParent, InstallHandlers, before_accept, SendStamp, Accept,
        ConnectionRejected, drain_handler, Goto, PoolTypeOK, ChildTypeOK, Alive
  <2> QED
    BY <2>1, <1>4, <1>5
<1>8. CASE \/ Killed(p) \/ AcceptFails(p) \/ Crash(p) \/ \E bad \in BOOLEAN : ServeEnds(p, bad)
  BY <1>8, <1>4 DEF Killed, AcceptFails, Crash, ServeEnds
<1> QED
  BY <1>1, <1>6, <1>7, <1>8 DEF Prompt, Outside

-----------------------------------------------------------------------------
\* Steps of the manager and from outside.

\* What leaves the processes and the phase alone is invisible.
LEMMA QuietIsInvisible ==
  ASSUME UNCHANGED <<child, connectionActive>>, Phase' = Phase
  PROVE  Invisible
  BY DEF Invisible, Idle, Serving, Live, Alive

\* The instance's Cardinality is Cardinality.
LEMMA SameCardinality == ASSUME NEW S PROVE Promise!Cardinality(S) = Cardinality(S)
  BY Zenon DEF Cardinality, Promise!Cardinality

LEMMA ForkIsJoin == ASSUME Inv, NEW p \in Pids, Fork(p) PROVE Promise!Join(p)
<1>1. PoolTypeOK
  BY DEF Inv
<1>2. pc = "spawn" /\ parentAlive /\ ~draining /\ child[p] = "none"
  BY DEF Fork, MayFork, Goto, Inv, ManagerInv
<1>3. Phase = "open" /\ Phase' = "open"
  BY <1>2 DEF Phase, Fork
<1>4. Live' = Live \cup {p} /\ p \notin Live
  BY <1>1, <1>2 DEF Fork, Goto, Live, Alive, PoolTypeOK, ChildTypeOK
<1>5. Serving' = Serving
  BY <1>1, <1>2, <1>4 DEF Fork, Serving, Inv, ProcessInv
<1>6. Live \subseteq workers /\ IsFiniteSet(workers)
  BY <1>1, <1>2, PidsFinite, FS_Subset DEF Inv, ProcessInv, Live, Alive, PoolTypeOK
<1>7. Cardinality(Live) <= Cardinality(workers) /\ Cardinality(Live) \in Nat
      /\ Cardinality(workers) \in Nat
  BY <1>6, FS_Subset, FS_CardinalityType
<1>8. Cardinality(Live) < Workers
  BY <1>7, PoolSizes DEF Fork, MayFork
<1>9. (Live \ Serving) \cup Serving = Live
  BY DEF Serving
<1>10. Live' \ Serving' = (Live \ Serving) \cup {p}
  BY <1>4, <1>5 DEF Serving
<1>11. Cardinality((Live \ Serving) \cup Serving) < Workers /\ p \notin (Live \ Serving) \cup Serving
  BY <1>4, <1>8, <1>9
<1> QED
  BY <1>3, <1>5, <1>10, <1>11, SameCardinality DEF Promise!Join

LEMMA ReapIsInvisible == ASSUME Inv, NEW p \in Pids, Reap(p) PROVE Invisible
<1>1. PoolTypeOK
  BY DEF Inv
<1>2. Live' = Live /\ p \notin Live
  BY <1>1 DEF Reap, Live, Alive, PoolTypeOK, ChildTypeOK
<1>3. Serving' = Serving
  BY <1>1, <1>2 DEF Reap, Serving, PoolTypeOK, ChildTypeOK
<1>4. Phase' = Phase
  BY DEF Reap, Phase
<1> QED
  BY <1>2, <1>3, <1>4 DEF Invisible, Idle

LEMMA ManagerStepRefines == ASSUME Inv, ManagerStep PROVE PromisedStep
<1>1. ASSUME NEW p \in Pids, Fork(p) PROVE PromisedStep
  BY <1>1, ForkIsJoin DEF PromisedStep, Promise!Next
<1>2. ASSUME NEW p \in Pids, Reap(p) PROVE PromisedStep
  BY <1>2, ReapIsInvisible DEF PromisedStep
<1>3. CASE SpawnFails \/ PoolFilled \/ Poll \/ ReadStamps \/ NoMoreSignals \/ KillOverdue
  <2>1. UNCHANGED <<child, connectionActive>> /\ Phase' = Phase
    BY <1>3
    DEF SpawnFails, PoolFilled, Poll, ReadStamps, NoMoreSignals, KillOverdue, Phase,
        childVars, managerVars
  <2> QED
    BY <2>1, QuietIsInvisible DEF PromisedStep
<1>4. ASSUME PollFails \/ \E s \in StopSignals : ReadStopSignal(s) PROVE PromisedStep
  <2>1. UNCHANGED <<child, connectionActive>>
    BY <1>4 DEF PollFails, ReadStopSignal, childVars
  <2>2. Phase' = "draining" /\ (Phase = IF draining THEN "draining" ELSE "open")
    BY <1>4 DEF PollFails, ReadStopSignal, Phase
  <2>3. UNCHANGED <<Live \ Serving, Serving>>
    BY <2>1 DEF Serving, Live, Alive
  <2> QED
    BY <2>1, <2>2, <2>3, QuietIsInvisible DEF PromisedStep, Promise!Next, Promise!BeginDrain
<1>5. CASE NothingToReap
  <2>1. UNCHANGED <<child, connectionActive>> /\ pc = "reap" /\ parentAlive
    BY <1>5 DEF NothingToReap, childVars, Inv, ManagerInv
  <2>2. CASE draining /\ workers = {}
    <3>1. Phase = "draining" /\ Phase' = "closed"
      BY <1>5, <2>2 DEF NothingToReap, Phase
    <3>2. Live = {}
      BY <2>1, <2>2 DEF Inv, ProcessInv, Live, Alive
    <3>3. Serving = {} /\ UNCHANGED <<Live \ Serving, Serving>>
      BY <2>1, <3>2 DEF Serving, Live, Alive
    <3> QED
      BY <3>1, <3>2, <3>3 DEF PromisedStep, Promise!Next, Promise!Close
  <2>3. CASE ~(draining /\ workers = {})
    <3>1. Phase' = Phase
      BY <1>5, <2>3 DEF NothingToReap, Phase, managerVars
    <3> QED
      BY <2>1, <3>1, QuietIsInvisible DEF PromisedStep
  <2> QED
    BY <2>2, <2>3
<1> QED
  BY <1>1, <1>2, <1>3, <1>4, <1>5 DEF ManagerStep

LEMMA OutsideStepRefines ==
  ASSUME Inv,
         \/ \E s \in StopSignals : SignalManager(s) \/ SignalGroup(s)
         \/ ManagerDies \/ Tick \/ Rest \/ UNCHANGED vars
  PROVE  PromisedStep
<1>1. CASE ManagerDies
  <2>1. UNCHANGED <<child, connectionActive>>
    BY <1>1 DEF ManagerDies
  <2>2. Phase' = "lost" /\ Phase \in {"open", "draining"}
    BY <1>1 DEF ManagerDies, Running, Phase, Inv, ManagerInv
  <2>3. UNCHANGED <<Live \ Serving, Serving>>
    BY <2>1 DEF Serving, Live, Alive
  <2> QED
    BY <2>2, <2>3 DEF PromisedStep, Promise!Next, Promise!Lose
<1>2. CASE \/ \E s \in StopSignals : SignalManager(s) \/ SignalGroup(s)
           \/ Tick \/ Rest \/ UNCHANGED vars
  <2>1. UNCHANGED <<child, connectionActive>> /\ Phase' = Phase
    BY <1>2
    DEF SignalManager, SignalGroup, Tick, Rest, Phase, vars, childVars, managerVars
  <2> QED
    BY <2>1, QuietIsInvisible DEF PromisedStep
<1> QED
  BY <1>1, <1>2

-----------------------------------------------------------------------------
\* The bound on children, one connection each, no fork into a drain, an
\* orderly stop only of an empty pool: manager and children never do what the
\* promise forbids.
THEOREM PoolKeepsItsPromise == Spec => PromiseSafety
<1>1. Init => Promise!Init
  BY DEF Init, ChildInit, Promise!Init, Serving, Live, Alive, Phase
<1>2. Inv /\ [Next]_vars => [Promise!Next]_(Promise!vars)
  <2> SUFFICES ASSUME Inv, [Next]_vars PROVE PromisedStep
    BY DEF PromisedStep, Invisible, Idle, Promise!vars
  <2> QED
    BY ChildStepRefines, ManagerStepRefines, OutsideStepRefines DEF Next
<1> QED
  BY <1>1, <1>2, Invariance, PTL DEF Spec, PromiseSafety, Promise!Safety

-----------------------------------------------------------------------------
\* Address has no use for who serves: it sees the phase and whether anyone is
\* there.

Present == Live # {}

LEMMA SeenParts == Live = (Live \ Serving) \cup Serving
  BY DEF Serving

LEMMA SameListener ==
  ASSUME Phase' = Phase, Present' = Present
  PROVE  UNCHANGED Listener!vars
  BY Zenon DEF Listener!vars, Of, Present

\* A child comes or goes: the pool gets children, loses the last one, or
\* neither.
LEMMA PresenceInAddress ==
  ASSUME Phase' = Phase, Present' # Present,
         Phase \in {"open", "draining", "closed", "lost"}, Phase # "open" => ~Present'
  PROVE  PoolPart("manager")
<1>1. CASE Present'
  <2>1. Phase = "open" /\ Phase' = "open" /\ Live = {} /\ Live' # {}
    BY <1>1 DEF Present
  <2>2. Listener!Fork("manager")
    BY <2>1 DEF Listener!Fork, Of, Managers
  <2> QED
    BY <2>2 DEF PoolPart
<1>2. CASE ~Present' /\ Phase = "lost"
  <2>1. Phase' = "lost" /\ Live # {} /\ Live' = {}
    BY <1>2 DEF Present
  <2>2. Listener!OrphansVanish("port")
    BY <1>2, <2>1 DEF Listener!OrphansVanish, Of, Managers
  <2> QED
    BY <2>2 DEF PoolPart
<1>3. CASE ~Present' /\ Phase # "lost"
  <2>1. Phase' # "lost" /\ Live # {} /\ Live' = {}
    BY <1>3 DEF Present
  <2>2. Listener!ChildrenLeave("manager")
    BY <1>3, <2>1 DEF Listener!ChildrenLeave, Of, Managers
  <2> QED
    BY <2>2 DEF PoolPart
<1> QED
  BY <1>1, <1>2, <1>3

\* What the pool promises is all that Address needs to know of it.
LEMMA PromiseInAddress ==
  ASSUME Promise!Next
  PROVE  PoolPart("manager") \/ UNCHANGED Listener!vars
<1>1. Phase \in {"open", "draining", "closed", "lost"}
  BY DEF Phase
<1>2. Live' = (Live' \ Serving') \cup Serving'
  BY DEF Serving
<1>3. ASSUME NEW p \in Pids, Promise!Join(p) PROVE Phase = "open" /\ Phase' = Phase
  BY <1>3 DEF Promise!Join
<1>4. ASSUME NEW p \in Pids, Promise!Take(p) PROVE Live' = Live /\ Phase' = Phase
  BY <1>2, <1>4, SeenParts DEF Promise!Take
<1>5. ASSUME NEW p \in Pids, Promise!Leave(p)
      PROVE  Live' = Live \ {p} /\ p \in Live /\ Phase' = Phase
  BY <1>2, <1>5, SeenParts DEF Promise!Leave
<1>6. ASSUME Phase' = Phase, Phase # "open" => ~Present' \/ Present' = Present
      PROVE  PoolPart("manager") \/ UNCHANGED Listener!vars
  <2>1. CASE Present' = Present
    BY <1>6, <2>1, SameListener
  <2>2. CASE Present' # Present
    BY <1>1, <1>6, <2>2, PresenceInAddress
  <2> QED
    BY <2>1, <2>2
<1>7. CASE \E p \in Pids : Promise!Join(p) \/ Promise!Take(p) \/ Promise!Leave(p)
  BY <1>3, <1>4, <1>5, <1>6, <1>7 DEF Present
<1>8. CASE Promise!BeginDrain
  <2>1. Phase = "open" /\ Phase' = "draining" /\ Live' = Live
    BY <1>2, <1>8, SeenParts DEF Promise!BeginDrain
  <2>2. Listener!PollFails("manager")
    BY <2>1 DEF Listener!PollFails, Listener!Goto, Of, Managers
  <2> QED
    BY <2>2 DEF PoolPart
<1>9. CASE Promise!Close
  <2>1. Phase = "draining" /\ Phase' = "closed" /\ Live = {} /\ Live' = {}
    BY <1>2, <1>9, SeenParts DEF Promise!Close
  <2>2. Listener!SuperviseEnds("manager")
    BY <2>1 DEF Listener!SuperviseEnds, Listener!Goto, Of, Managers
  <2> QED
    BY <2>2 DEF PoolPart
<1>10. CASE Promise!Lose
  <2>1. Phase \in {"open", "draining"} /\ Phase' = "lost" /\ Live' = Live
    BY <1>2, <1>10, SeenParts DEF Promise!Lose
  <2>2. Listener!Killed("manager")
    BY <2>1 DEF Listener!Killed, Listener!Up, Of, Managers
  <2> QED
    BY <2>2 DEF PoolPart
<1> QED
  BY <1>7, <1>8, <1>9, <1>10 DEF Promise!Next

\* Address leaves out nothing that manager and children do to the listener:
\* they fork, leave, begin the drain, end the loop, are killed or disappear as
\* orphans there, and do nothing else to it.
THEOREM PoolStandsInAddress == Spec => StandsInAddress
<1>1. [Promise!Next]_(Promise!vars) => [PoolPart("manager")]_(Listener!vars)
  <2>1. ASSUME UNCHANGED Promise!vars PROVE UNCHANGED Listener!vars
    <3>1. Live' = Live /\ Phase' = Phase
      BY <2>1, SeenParts DEF Promise!vars, Serving
    <3> QED
      BY <3>1, SameListener DEF Present
  <2> QED
    BY <2>1, PromiseInAddress
<1> QED
  BY <1>1, PoolKeepsItsPromise, PTL DEF PromiseSafety, Promise!Safety, StandsInAddress
=============================================================================
