---------------------------- MODULE ServingProof ----------------------------
(***************************************************************************)
(* The pool with a request in detail is the pool: each step is one of Pool *)
(* or invisible in it, so what is proved of Pool holds here.  From the     *)
(* invariants of both parts follows what neither can say alone.            *)
(***************************************************************************)
EXTENDS Serving, PoolRefinementProof

XP == INSTANCE ExchangeProof WITH pc <- place, started <- phpStarted, fatal <- phpFatal

-----------------------------------------------------------------------------
\* Every step is a step of the pool or one it does not see.
LEMMA StepIsPoolStep == [ServingNext]_servingVars => [Next]_vars
<1> SUFFICES ASSUME ServingNext PROVE [Next]_vars
  BY DEF servingVars
<1>a. probe \in Pids
  BY ProbeIsChild
<1>1. ASSUME ChildStep(probe), UNCHANGED <<pc, managerVars, stop>> PROVE [Next]_vars
  BY <1>a, <1>1 DEF Next
<1>2. CASE Begin
  BY <1>1, <1>2 DEF Begin, Alone, ChildStep, Prompt
<1>3. CASE Reject
  BY <1>1, <1>3 DEF Reject, Alone, ChildStep, Outside
<1>4. CASE Exchanging
  BY <1>4 DEF Exchanging
<1>5. CASE Finish
  <2>1. ServeEnds(probe, result = 1) /\ (result = 1) \in BOOLEAN
    BY <1>5 DEF Finish
  <2>2. Outside(probe)
    BY <2>1 DEF Outside
  <2> QED
    BY <1>1, <1>5, <2>2 DEF Finish, Alone, ChildStep
<1>6. CASE Elsewhere
  BY <1>1, <1>6 DEF Elsewhere, Alone, ChildStep, Prompt, Outside
<1>7. CASE Fault
  BY <1>1, <1>7 DEF Fault, Alone, ChildStep, Outside
<1>8. CASE Managing
  BY <1>8 DEF Managing, Next
<1>9. CASE Others
  BY <1>9 DEF Others, Next
<1> QED
  BY <1>2, <1>3, <1>4, <1>5, <1>6, <1>7, <1>8, <1>9 DEF ServingNext

\* poly_serve_one may take any course and its caller still behaves as Pool has
\* it, the manager's fairness included.
THEOREM ServingImplementsPool == ServingSpec => Spec
<1>1. ServingInit => Init
  BY DEF ServingInit
<1> QED
  BY <1>1, StepIsPoolStep, PTL DEF ServingSpec, Spec

THEOREM ServingIsFair == ServingSpec => FairSpec
<1>1. ServingSpec => Spec
  BY ServingImplementsPool
<1> QED
  BY <1>1, PTL DEF ServingSpec, FairSpec

-----------------------------------------------------------------------------
\* The request.

LEMMA SameInv == X!Inv <=> XP!Inv
  BY DEF X!TypeOK, XP!TypeOK, X!Places, XP!Places, X!ResponseWellFormed,
         XP!ResponseWellFormed, X!Responses, XP!Responses, X!Spoiled, XP!Spoiled,
         X!PlaceInv, XP!PlaceInv, X!Unended, XP!Unended, X!Refused, XP!Refused,
         X!Told, XP!Told, X!Framed, XP!Framed, X!Inv, XP!Inv, X!LastOf, XP!LastOf

LEMMA SameNext == X!Next <=> XP!Next
  BY DEF X!Send, XP!Send, X!LastOf, XP!LastOf, X!WithHeaders, XP!WithHeaders,
         X!Printed, XP!Printed, X!Emit, XP!Emit, X!InPHP, XP!InPHP,
         X!ExitStatus, XP!ExitStatus, X!After, XP!After, X!Bailout, XP!Bailout, X!write_output,
         XP!write_output, X!read_post, XP!read_post, X!ScriptEnds,
         XP!ScriptEnds, X!CodeDies, XP!CodeDies,
         X!FinishCalled, XP!FinishCalled, X!FinishFlushes, XP!FinishFlushes,
         X!End, XP!End, X!FinishEnds, XP!FinishEnds, X!FinishReturns,
         XP!FinishReturns, X!Refuse, XP!Refuse, X!SetUpFails, XP!SetUpFails, X!Dispatch, XP!Dispatch,
         X!StartupFails, XP!StartupFails, X!RequestStartup, XP!RequestStartup,
         X!ScriptOpened, XP!ScriptOpened, X!ScriptGone, XP!ScriptGone,
         X!RequestShutdown, XP!RequestShutdown, X!FinishRequest,
         XP!FinishRequest, X!CloseConnection, XP!CloseConnection,
         X!ClientLeaves, XP!ClientLeaves, X!Over, XP!Over, X!Serve, XP!Serve,
         X!UserCode, XP!UserCode, X!UserCodeEnds, XP!UserCodeEnds, X!Next,
         XP!Next, X!poly, XP!poly, X!fcgi, XP!fcgi, X!php, XP!php, X!vars,
         XP!vars

LEMMA ExchangeStarts == X!Init => X!Inv
  BY XP!ExchangeInit, SameInv, ProbeIsChild DEF X!Init, XP!Init

\* The lemmas of ExchangeProof, for the steps of this composition.
LEMMA ExchangeKeeps == X!Inv /\ (X!Next \/ UNCHANGED exchange) => X!Inv'
<1>1. UNCHANGED exchange => XP!vars' = XP!vars
  BY DEF exchange, XP!vars, XP!poly, XP!fcgi, XP!php
<1>2. XP!Inv /\ [XP!Next]_(XP!vars) => XP!Inv'
  BY XP!TypeNext, XP!WireNext, XP!PlaceNext, ProbeIsChild DEF XP!Inv
<1>3. X!Inv' <=> XP!Inv'
  BY SameInv, PTL
<1> QED
  BY <1>1, <1>2, <1>3, SameInv, SameNext

\* A new process, a new request.
LEMMA ForgottenStarts == Forgotten => X!Inv'
<1>1. Forgotten => X!Init'
  BY DEF Forgotten, X!Init
<1>2. X!Init' => X!Inv'
  BY ExchangeStarts, PTL
<1> QED
  BY <1>1, <1>2

\* No step leads back to the place before the request is looked at.
LEMMA DispatchOnce ==
  ASSUME X!TypeOK, X!Next, place' = "dispatch"
  PROVE  place = "dispatch" /\ wire' = wire /\ result' = result
<1> USE DEF X!TypeOK, X!Places, X!vars, X!poly, X!fcgi, X!php, X!InPHP, X!After, X!Bailout
<1>1. CASE X!Serve
  BY <1>1 DEF X!Serve, X!Refuse, X!SetUpFails, X!Dispatch, X!StartupFails, X!RequestStartup,
     X!ScriptOpened, X!ScriptGone, X!FinishFlushes, X!FinishEnds, X!FinishReturns,
     X!FinishRequest, X!CloseConnection
<1>2. CASE X!UserCode
  BY <1>2 DEF X!UserCode, X!write_output, X!read_post, X!FinishCalled, X!CodeDies
<1>3. CASE X!UserCodeEnds
  BY <1>3 DEF X!UserCodeEnds, X!RequestShutdown, X!ScriptEnds
<1>4. CASE X!ClientLeaves \/ X!Over
  BY <1>4 DEF X!ClientLeaves, X!Over
<1> QED
  BY <1>1, <1>2, <1>3, <1>4 DEF X!Next

-----------------------------------------------------------------------------
\* Where the two meet.

\* Nothing the observed child's record says changes.
Quiet ==
  /\ child'[probe] = child[probe] /\ abnormal'[probe] = abnormal[probe]
  /\ connectionActive'[probe] = connectionActive[probe]
  /\ UNCHANGED exchange

LEMMA QuietKeeps == Observed /\ Quiet => Observed'
  BY DEF Observed, Quiet, OrderlyExitServed, Gone, exchange

\* A child without a request in progress goes on.
LEMMA MoveKeeps ==
  ASSUME Observed, place = "dispatch", child'[probe] # "zombie", UNCHANGED exchange
  PROVE  Observed'
  BY DEF Observed, OrderlyExitServed, Gone, exchange

\* The child ends: badly, without a request, or without a connection.
LEMMA ExitIsAccounted ==
  ASSUME PoolTypeOK, Observed, NEW bad, Exit(probe, bad), UNCHANGED exchange,
         bad = TRUE \/ place = "dispatch" \/ ~connectionActive[probe]
  PROVE  Observed'
<1>1. child'[probe] = "zombie" /\ abnormal'[probe] = bad
      /\ connectionActive'[probe] = connectionActive[probe]
  BY ProbeIsChild DEF Exit, PoolTypeOK, ChildTypeOK
<1> QED
  BY <1>1 DEF Observed, OrderlyExitServed, Gone, exchange

\* The steps of other children.
LEMMA OthersAreQuiet ==
  ASSUME PoolTypeOK, NEW p \in Pids \ {probe}, ChildStep(p), UNCHANGED exchange
  PROVE  Quiet
<1>1. Prompt(p) \/ Outside(p)
  BY DEF ChildStep
<1>2. Untouched(probe)
  BY <1>1, OthersUntouched, ProbeIsChild
<1>3. abnormal'[probe] = abnormal[probe]
  BY <1>1, ProbeIsChild
  DEF PoolTypeOK, ChildTypeOK, Goto, Exit, Prompt, Outside, SetDeathSignal, CheckParent,
      InstallHandlers, before_accept, poly_connection_accepted, SendStamp,
      drain_handler, Killed, Accept, AcceptFails, ConnectionRejected, ServeEnds, Crash
<1> QED
  BY <1>2, <1>3 DEF Quiet, Untouched

\* The steps of the manager leave the record alone, or fork or reap the child.
LEMMA ManagerAndChild ==
  ASSUME PoolTypeOK, ManagerStep
  PROVE  \/ UNCHANGED <<child[probe], abnormal[probe], connectionActive[probe]>>
         \/ child[probe] = "none" /\ child'[probe] = "forked"
         \/ child[probe] = "zombie" /\ child'[probe] = "none"
<1> USE ProbeIsChild DEF PoolTypeOK, ChildTypeOK, childVars
<1>1. CASE \E p \in Pids : Fork(p)
  BY <1>1 DEF Fork, Goto
<1>2. CASE \E p \in Pids : Reap(p)
  BY <1>2 DEF Reap
<1>3. CASE \/ SpawnFails \/ PoolFilled \/ Poll \/ PollFails \/ ReadStamps
           \/ (\E s \in StopSignals : ReadStopSignal(s)) \/ NoMoreSignals
           \/ KillOverdue \/ NothingToReap
  BY <1>3 DEF SpawnFails, PoolFilled, Poll, PollFails, ReadStamps, ReadStopSignal,
     NoMoreSignals, KillOverdue, NothingToReap
<1> QED
  BY <1>1, <1>2, <1>3 DEF ManagerStep

LEMMA ElsewhereKeeps == ASSUME ServingInv, Elsewhere PROVE Observed'
<1>1. PoolTypeOK /\ Observed /\ ProcessInv(probe) /\ UNCHANGED exchange /\ probe \in Pids
  BY ProbeIsChild DEF ServingInv, Inv, Elsewhere
<1>2. ASSUME child[probe] \notin {"serving", "zombie"} PROVE place = "dispatch"
  BY <1>1, <1>2 DEF Observed
<1>3. CASE SetDeathSignal(probe) \/ Accept(probe)
  BY <1>1, <1>2, <1>3, MoveKeeps
  DEF SetDeathSignal, Accept, Goto, PoolTypeOK, ChildTypeOK
<1>4. CASE \/ CheckParent(probe) \/ InstallHandlers(probe) \/ before_accept(probe)
           \/ poly_connection_accepted(probe) \/ AcceptFails(probe)
  <2>1. child[probe] \notin {"serving", "zombie"}
    BY <1>4 DEF CheckParent, InstallHandlers, before_accept, poly_connection_accepted,
       AcceptFails
  <2>2. (\E bad : Exit(probe, bad)) \/ child'[probe] # "zombie"
    BY <1>1, <1>4 DEF CheckParent, InstallHandlers, before_accept,
       poly_connection_accepted, AcceptFails, Goto, PoolTypeOK, ChildTypeOK
  <2> QED
    BY <1>1, <1>2, <2>1, <2>2, ExitIsAccounted, MoveKeeps
<1>5. CASE drain_handler(probe)
  <2>1. CASE ~connectionActive[probe] /\ Exit(probe, FALSE)
    BY <1>1, <2>1, ExitIsAccounted
  <2>2. CASE UNCHANGED <<child, abnormal, connectionActive>>
    BY <1>1, <2>2, QuietKeeps DEF Quiet
  <2> QED
    BY <1>5, <2>1, <2>2 DEF drain_handler
<1>6. CASE Killed(probe)
  BY <1>1, <1>6, ExitIsAccounted DEF Killed
<1> QED
  BY <1>3, <1>4, <1>5, <1>6 DEF Elsewhere

LEMMA ObservedKeeps == ASSUME ServingInv, ServingNext PROVE Observed'
<1>1. PoolTypeOK /\ Observed /\ X!Inv /\ probe \in Pids
  BY ProbeIsChild DEF ServingInv, Inv
<1>2. CASE Begin
  <2>1. child[probe] = "active" /\ place = "dispatch" /\ UNCHANGED exchange
    BY <1>1, <1>2 DEF Begin, SendStamp, Goto, Observed
  <2>2. (\E bad : Exit(probe, bad)) \/ child'[probe] # "zombie"
    BY <1>1, <1>2 DEF Begin, SendStamp, Goto, PoolTypeOK, ChildTypeOK
  <2> QED
    BY <1>1, <2>1, <2>2, ExitIsAccounted, MoveKeeps
<1>3. CASE Reject
  BY <1>1, <1>3, MoveKeeps DEF Reject, ConnectionRejected, Goto, PoolTypeOK, ChildTypeOK
<1>4. CASE Exchanging
  <2>1. child'[probe] = "serving" /\ X!Next
    BY <1>4 DEF Exchanging, vars, childVars
  <2>2. place' = "dispatch" => place = "dispatch" /\ wire' = wire /\ result' = result
    BY <1>1, <2>1, DispatchOnce DEF X!Inv
  <2> QED
    BY <1>1, <2>1, <2>2 DEF Observed, OrderlyExitServed, Gone
<1>5. CASE Finish
  <2>1. place = "exit" /\ Exit(probe, result = 1) /\ UNCHANGED exchange
    BY <1>5 DEF Finish, ServeEnds
  <2>2. ended /\ client = "gone" /\ (shutDown <=> phpStarted) /\ result \in {0, 1}
    BY <1>1, <2>1 DEF X!Inv, X!PlaceInv, X!TypeOK
  <2>3. child'[probe] = "zombie" /\ abnormal'[probe] = (result = 1)
    BY <1>1, <2>1 DEF Exit, PoolTypeOK, ChildTypeOK
  <2> QED
    BY <2>1, <2>2, <2>3 DEF Observed, OrderlyExitServed, Gone, exchange
<1>6. CASE Elsewhere
  BY <1>6, ElsewhereKeeps
<1>7. CASE Fault
  BY <1>1, <1>7, ExitIsAccounted DEF Fault, Crash
<1>8. CASE Managing
  <2>1. CASE child[probe] = "zombie" /\ child'[probe] = "none"
    BY <1>8, <2>1 DEF Managing, Forgotten, Observed, OrderlyExitServed, Gone
  <2>2. CASE ~(child[probe] = "zombie" /\ child'[probe] = "none")
    <3>1. UNCHANGED exchange
      BY <1>8, <2>2 DEF Managing
    <3>2. \/ Quiet
          \/ child[probe] = "none" /\ child'[probe] = "forked"
      BY <1>1, <1>8, <2>2, <3>1, ManagerAndChild DEF Managing, Quiet
    <3> QED
      BY <1>1, <3>1, <3>2, QuietKeeps, MoveKeeps DEF Observed
  <2> QED
    BY <2>1, <2>2
<1>9. CASE Others /\ UNCHANGED <<exchange, crashed>>
  <2>1. CASE \E p \in Pids \ {probe} : ChildStep(p) /\ UNCHANGED <<pc, managerVars, stop>>
    BY <1>1, <1>9, <2>1, OthersAreQuiet, QuietKeeps DEF exchange
  <2>2. CASE UNCHANGED <<child, abnormal, connectionActive>>
    BY <1>1, <1>9, <2>2, QuietKeeps DEF Quiet, exchange
  <2> QED
    BY <1>9, <2>1, <2>2 DEF Others, SignalManager, SignalGroup, ManagerDies, Tick, Rest,
       vars, childVars
<1> QED
  BY <1>2, <1>3, <1>4, <1>5, <1>6, <1>7, <1>8, <1>9 DEF ServingNext

-----------------------------------------------------------------------------
LEMMA ServingStarts == ServingInit => ServingInv
<1>1. ServingInit => Inv /\ X!Inv
  BY InitInv, ExchangeStarts DEF ServingInit
<1>2. ServingInit => Observed
  BY ProbeIsChild DEF ServingInit, Init, ChildInit, X!Init, Observed, OrderlyExitServed, Gone
<1> QED
  BY <1>1, <1>2 DEF ServingInv, ServingInit

LEMMA ServingKeeps == ServingInv /\ [ServingNext]_servingVars => ServingInv'
<1> SUFFICES ASSUME ServingInv, [ServingNext]_servingVars PROVE ServingInv'
  OBVIOUS
<1>1. Inv'
  BY StepIsPoolStep, NextKeeps DEF ServingInv
<1>2. X!Inv'
  <2>1. CASE Managing
    BY <2>1, ExchangeKeeps, ForgottenStarts DEF Managing, ServingInv, exchange
  <2>2. CASE Exchanging \/ UNCHANGED exchange
    BY <2>2, ExchangeKeeps DEF Exchanging, ServingInv
  <2> QED
    BY <2>1, <2>2 DEF ServingNext, Begin, Reject, Finish, Elsewhere, Fault, servingVars
<1>3. crashed' \in BOOLEAN
  BY DEF ServingInv, ServingNext, Begin, Reject, Exchanging, Finish, Elsewhere, Fault,
     Managing, Forgotten, servingVars
<1>4. Observed'
  <2>1. CASE UNCHANGED servingVars
    <3>1. Quiet
      BY <2>1 DEF servingVars, Quiet, vars, childVars
    <3> QED
      BY <3>1, QuietKeeps DEF ServingInv
  <2> QED
    BY <2>1, ObservedKeeps
<1> QED
  BY <1>1, <1>2, <1>3, <1>4 DEF ServingInv

THEOREM ServingInvariance == ServingSpec => []ServingInv
  BY ServingStarts, ServingKeeps, PTL DEF ServingSpec

\* A drain, a crash of the manager or of a sibling, a signal at any moment: a
\* child with status 0 has never cut a request short, nor hidden a failed one.
THEOREM OrderlyExitsServed == ServingSpec => []OrderlyExitServed
<1>1. ServingInv => OrderlyExitServed
  BY DEF ServingInv, Observed
<1> QED
  BY <1>1, ServingInvariance, PTL

\* Only the two deadlines of the manager take a connection away.
THEOREM DeadlinesOnly == ServingSpec => NotCutBeforeDeadline
<1> DEFINE Cut == child[probe] = "serving" /\ child'[probe] = "zombie" /\ parentAlive
                  /\ ~crashed' /\ client = "reading" /\ X!LastOf(wire) # "end"
           Due == DrainExpired \/ age[probe] >= RequestTimeout
<1>1. ASSUME ServingInv, ServingNext, Cut PROVE Due
  <2>1. PoolTypeOK /\ ProcessInv(probe) /\ X!Inv /\ probe \in Pids
    BY <1>1, ProbeIsChild DEF ServingInv, Inv
  <2>2. connectionActive[probe]
    BY <1>1, <2>1 DEF ProcessInv
  <2>3. CASE Killed(probe)
    BY <1>1, <2>1, <2>3 DEF Killed, ProcessInv
  <2>4. ~Finish
    BY <1>1, <2>1 DEF Finish, X!Inv, X!PlaceInv
  <2>5. ~Fault
    BY <1>1 DEF Fault
  <2>6. ~Begin /\ ~Reject /\ ~Exchanging
    BY <1>1, <2>1 DEF Begin, SendStamp, Reject, ConnectionRejected, Goto, Exchanging,
       vars, childVars, PoolTypeOK, ChildTypeOK
  <2>7. ~Managing
    BY <1>1, <2>1, ManagerAndChild DEF Managing
  <2>8. ~(Others /\ UNCHANGED <<exchange, crashed>>)
    <3>1. ASSUME NEW p \in Pids \ {probe}, ChildStep(p) PROVE FALSE
      BY <1>1, <2>1, <3>1, OthersUntouched DEF ChildStep, Untouched
    <3>2. CASE UNCHANGED child
      BY <1>1, <3>2
    <3> QED
      BY <3>1, <3>2 DEF Others, SignalManager, SignalGroup, ManagerDies, Tick, Rest,
         vars, childVars
  <2>9. CASE Elsewhere
    <3>1. ~drain_handler(probe)
      BY <1>1, <2>2 DEF drain_handler
    <3> QED
      BY <1>1, <2>1, <2>3, <2>9, <3>1
      DEF Elsewhere, SetDeathSignal, CheckParent, InstallHandlers, before_accept, Accept,
          AcceptFails, poly_connection_accepted, Goto
  <2> QED
    BY <1>1, <2>4, <2>5, <2>6, <2>7, <2>8, <2>9 DEF ServingNext
<1>2. ServingInv /\ [ServingNext]_servingVars => [Cut => Due]_servingVars
  BY <1>1
<1> QED
  BY <1>2, ServingInvariance, PTL DEF ServingSpec, NotCutBeforeDeadline

\* What either part promises alone holds of them together: children bounded,
\* one connection each and no fork into a drain; and every request, whatever
\* happens around it, a response in order that is ended for its client.
THEOREM BothKeepTheirWord ==
  ServingSpec =>
    /\ PromiseSafety
    /\ [](X!ResponseWellFormed /\ X!EndOnEveryPath /\ X!ShutdownIffStarted)
<1>1. ServingInv => X!ResponseWellFormed /\ X!EndOnEveryPath /\ X!ShutdownIffStarted
  BY DEF ServingInv, X!Inv, X!Framed, X!PlaceInv, X!TypeOK, X!EndOnEveryPath, X!ShutdownIffStarted,
     X!Told, X!Unended, X!Places
<1> QED
  BY <1>1, ServingInvariance, ServingImplementsPool, PoolKeepsItsPromise, PTL

-----------------------------------------------------------------------------
\* The answers.

LEMMA SameAnswer == [XP!Promise!Next]_(XP!Promise!vars) <=> [Answer!Next]_(Answer!vars)
  BY DEF XP!Promise!Next, XP!Promise!Work, XP!Promise!Leave, XP!Promise!Exit,
     XP!Promise!Begins, XP!Promise!Answers, XP!Promise!Spoiled, XP!Promise!vars, Answer!Next, Answer!Work,
     Answer!Leave, Answer!Exit, Answer!Begins, Answer!Answers, Answer!Spoiled, Answer!vars

\* Each request of the observed child is answered as Response promises, as far as
\* the child lives to do so, and no answer runs into the next one.
THEOREM AnswersKeepInTurn == ServingSpec => AnswersInTurn
<1> DEFINE InTurn ==
             \/ child[probe] = "serving" /\ Answer!Next
             \/ child[probe] = "zombie" /\ child'[probe] = "none" /\ Answer!Init'
<1>1. ASSUME UNCHANGED exchange PROVE UNCHANGED Answer!vars
  BY <1>1 DEF exchange, Answer!vars
<1>2. ASSUME ServingInv, ServingInv', ServingNext PROVE InTurn \/ UNCHANGED Answer!vars
  <2>1. CASE Exchanging
    <3>1. X!Next /\ child[probe] = "serving" /\ X!Inv /\ X!Inv'
      BY <1>2, <2>1 DEF Exchanging, ServingInv
    <3>2. XP!Next /\ XP!Inv
      BY <3>1, SameInv, SameNext
    <3>3. XP!Inv'
      BY <3>1, SameInv, PTL
    <3>4. [XP!Promise!Next]_(XP!Promise!vars)
      BY <3>2, <3>3, XP!PromiseStep, ProbeIsChild
    <3> QED
      BY <3>1, <3>4, SameAnswer
  <2>2. CASE Managing /\ ~UNCHANGED exchange
    <3>1. child[probe] = "zombie" /\ child'[probe] = "none" /\ Forgotten
      BY <2>2 DEF Managing
    <3>2. Answer!Init'
      BY <3>1 DEF Forgotten, Answer!Init
    <3> QED
      BY <3>1, <3>2
  <2> QED
    BY <1>1, <1>2, <2>1, <2>2 DEF ServingNext, Begin, Reject, Finish, Elsewhere, Fault
<1>3. ServingInv /\ ServingInv' /\ [ServingNext]_servingVars => [InTurn]_(Answer!vars)
  BY <1>1, <1>2 DEF servingVars
<1> QED
  BY <1>3, ServingInvariance, PTL DEF ServingSpec, AnswersInTurn
=============================================================================
