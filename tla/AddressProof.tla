---------------------------- MODULE AddressProof ----------------------------
(***************************************************************************)
(* Proofs about Address: whatever the number of managers and inodes, no    *)
(* manager removes the path of another, none leaves its own behind, and    *)
(* nobody is served before the mode is set or after PHP was taken down.    *)
(***************************************************************************)
EXTENDS Address, TLAPS

\* The start: nobody is up and nothing is bound.
LEMMA InvInit == Init => Inv
  BY DEF Init, Inv, TypeOK, Places, SocketInv, Holding, Halfway

\* Each action keeps the types; that a killed manager with children held a
\* socket is the only thing needed besides.
LEMMA TypingNext == Inv /\ [Next]_vars => TypeOK'
<1> SUFFICES ASSUME Inv, [Next]_vars PROVE TypeOK'
  OBVIOUS
<1>a. TypeOK /\ \A m \in Managers : SocketInv(m)
  BY DEF Inv
<1> USE DEF TypeOK, Places, Goto
<1>1. ASSUME NEW m \in Managers, Proceed(m) PROVE TypeOK'
  <2>1. CASE signal_fd(m) \/ StartFails(m) \/ poly_initialize(m) \/ CountThreads(m) \/ BindFails(m)
    BY <1>a, <2>1 DEF signal_fd, StartFails, poly_initialize, CountThreads, BindFails
  <2>2. ASSUME NEW i \in Inodes, BindUnix(m, i) PROVE TypeOK'
    BY <1>a, <2>2 DEF BindUnix
  <2>3. CASE BindTcp(m)
    BY <1>a, <2>3 DEF BindTcp
  <2>4. CASE Identify(m)
    BY <1>a, <2>4 DEF Identify
  <2>5. CASE Restrict(m) \/ RestrictFails(m)
    BY <1>a, <2>5 DEF Restrict, RestrictFails
  <2>6. CASE ReadStopSignal(m) \/ SuperviseEnds(m)
    BY <1>a, <2>6 DEF ReadStopSignal, SuperviseEnds
  <2>7. CASE CheckIdentity(m)
    BY <1>a, <2>7 DEF CheckIdentity
  <2>8. CASE Unlink(m) \/ Close(m) \/ poly_shutdown(m)
    BY <1>a, <2>8 DEF Unlink, Close, poly_shutdown
  <2> QED
    BY <1>1, <2>1, <2>2, <2>3, <2>4, <2>5, <2>6, <2>7, <2>8 DEF Proceed
<1>2. ASSUME NEW m \in Managers, Around(m) PROVE TypeOK'
  <2>1. CASE Fork(m) \/ ChildrenLeave(m) \/ PollFails(m)
    BY <1>a, <2>1 DEF Fork, ChildrenLeave, PollFails
  <2>2. CASE Start(m) \/ StopArrives(m)
    BY <1>a, <2>2 DEF Start, StopArrives
  <2>3. CASE Killed(m)
    <3>1. children[m] => held[m] # None
      BY <1>a DEF SocketInv, Holding
    <3> QED
      BY <1>a, <2>3, <3>1 DEF Killed
  <2> QED
    BY <1>2, <2>1, <2>2, <2>3 DEF Around
<1>3. CASE (\E s \in Inodes \cup {Port} : OrphansVanish(s)) \/ OperatorRemoves
  BY <1>a, <1>3 DEF OrphansVanish, OperatorRemoves
<1>4. CASE UNCHANGED vars
  BY <1>a, <1>4 DEF vars
<1> QED
  BY <1>1, <1>2, <1>3, <1>4 DEF Next

\* A step of the manager m keeps what is said of each manager n, n = m or not:
\* what n holds is not what m binds, removes or closes.
LEMMA ProceedKeeps ==
  ASSUME Inv, NEW m \in Managers, Proceed(m), NEW n \in Managers
  PROVE  SocketInv(n)'
<1>a. TypeOK /\ SocketInv(m) /\ SocketInv(n)
  BY DEF Inv
<1>b. \A k \in Managers : SocketInv(k)
  BY DEF Inv
<1> USE DEF TypeOK, Places, Goto, SocketInv, Holding, Halfway
<1>1. CASE signal_fd(m)
  BY <1>a, <1>b, <1>1, Sockets DEF signal_fd
<1>2. CASE StartFails(m)
  BY <1>a, <1>b, <1>2, Sockets DEF StartFails
<1>3. CASE poly_initialize(m)
  BY <1>a, <1>b, <1>3, Sockets DEF poly_initialize
<1>4. CASE CountThreads(m)
  BY <1>a, <1>b, <1>4, Sockets DEF CountThreads
<1>5. CASE BindTcp(m)
  BY <1>a, <1>b, <1>5, Sockets DEF BindTcp, InUse
<1>6. CASE BindFails(m)
  BY <1>a, <1>b, <1>6, Sockets DEF BindFails
<1>7. CASE Identify(m)
  BY <1>a, <1>b, <1>7, Sockets DEF Identify
<1>8. CASE Restrict(m)
  BY <1>a, <1>b, <1>8, Sockets DEF Restrict
<1>9. CASE RestrictFails(m)
  BY <1>a, <1>b, <1>9, Sockets DEF RestrictFails
<1>10. CASE ReadStopSignal(m)
  BY <1>a, <1>b, <1>10, Sockets DEF ReadStopSignal
<1>11. CASE SuperviseEnds(m)
  BY <1>a, <1>b, <1>11, Sockets DEF SuperviseEnds
<1>12. CASE CheckIdentity(m)
  BY <1>a, <1>b, <1>12, Sockets DEF CheckIdentity
<1>13. CASE Unlink(m)
  BY <1>a, <1>b, <1>13, Sockets DEF Unlink
<1>14. CASE Close(m)
  BY <1>a, <1>b, <1>14, Sockets DEF Close
<1>15. CASE poly_shutdown(m)
  BY <1>a, <1>b, <1>15, Sockets DEF poly_shutdown
<1>16. ASSUME NEW i \in Inodes, BindUnix(m, i) PROVE SocketInv(n)'
  BY <1>a, <1>b, <1>16, Sockets DEF BindUnix, InUse
<1> QED
  BY <1>1, <1>2, <1>3, <1>4, <1>5, <1>6, <1>7, <1>8, <1>9, <1>10, <1>11, <1>12, <1>13, <1>14, <1>15, <1>16 DEF Proceed

\* So do its children, its end and its restart.
LEMMA AroundKeeps ==
  ASSUME Inv, NEW m \in Managers, Around(m), NEW n \in Managers
  PROVE  SocketInv(n)'
<1>a. TypeOK /\ SocketInv(m) /\ SocketInv(n)
  BY DEF Inv
<1>b. \A k \in Managers : SocketInv(k)
  BY DEF Inv
<1> USE DEF TypeOK, Places, Goto, SocketInv, Holding, Halfway
<1>1. CASE Fork(m)
  BY <1>a, <1>b, <1>1 DEF Fork
<1>2. CASE ChildrenLeave(m)
  BY <1>a, <1>b, <1>2 DEF ChildrenLeave
<1>3. CASE PollFails(m)
  BY <1>a, <1>b, <1>3 DEF PollFails
<1>4. CASE Start(m)
  BY <1>a, <1>b, <1>4 DEF Start, Up
<1>5. CASE Killed(m)
  BY <1>a, <1>b, <1>5 DEF Killed, Up
<1>6. CASE StopArrives(m)
  BY <1>a, <1>b, <1>6 DEF StopArrives, Up
<1> QED
  BY <1>1, <1>2, <1>3, <1>4, <1>5, <1>6 DEF Around

\* Inv is inductive.
LEMMA InvNext == Inv /\ [Next]_vars => Inv'
<1> SUFFICES ASSUME Inv, [Next]_vars PROVE Inv'
  OBVIOUS
<1>1. TypeOK'
  BY TypingNext
<1>2. ASSUME NEW n \in Managers PROVE SocketInv(n)'
  <2>1. CASE \E m \in Managers : Proceed(m)
    BY <2>1, ProceedKeeps
  <2>2. CASE \E m \in Managers : Around(m)
    BY <2>2, AroundKeeps
  <2>3. CASE \E s \in Inodes \cup {Port} : OrphansVanish(s)
    BY <2>3 DEF OrphansVanish, Inv, SocketInv, Holding, Halfway
  <2>4. CASE OperatorRemoves
    BY <2>4, Sockets DEF OperatorRemoves, Inv, TypeOK, SocketInv, Holding, Halfway
  <2>5. CASE UNCHANGED vars
    BY <2>5 DEF vars, Inv, SocketInv, Holding, Halfway
  <2> QED
    BY <2>1, <2>2, <2>3, <2>4, <2>5 DEF Next
<1> QED
  BY <1>1, <1>2 DEF Inv

\* The inductive invariant of the managers that share an address.
THEOREM AddressInvariance == Spec => []Inv
  BY InvInit, InvNext, PTL DEF Spec

\* Types, for every number of managers and inodes.
THEOREM AddressTyping == Spec => []TypeOK
  BY AddressInvariance, PTL DEF Inv

\* sapi.c is told to take PHP down only when no child and no listening socket
\* is left.
THEOREM PhpGoesLast == Spec => []ShutdownComesLast
<1>1. Inv => ShutdownComesLast
  BY DEF Inv, SocketInv, Holding, ShutdownComesLast
<1> QED
  BY <1>1, AddressInvariance, PTL

\* Children exist only when the path of their socket has the mode 0660.
THEOREM NobodyServedUnrestricted == Spec => []ServedRestricted
<1>1. Inv => ServedRestricted
  BY DEF Inv, SocketInv, ServedRestricted
<1> QED
  BY <1>1, AddressInvariance, PTL

\* Only BindUnix, Unlink and the operator change the path, and BindUnix wants
\* it free.
LEMMA WhoChangesThePath ==
  ASSUME [Next]_vars, path # None, path' # path
  PROVE  OperatorRemoves \/ \E m \in Managers : Unlink(m)
<1>1. ASSUME NEW m \in Managers, Proceed(m) PROVE Unlink(m)
  BY <1>1 DEF Proceed, signal_fd, StartFails, poly_initialize, CountThreads, BindUnix,
              BindTcp, BindFails, Identify, Restrict, RestrictFails, ReadStopSignal,
              SuperviseEnds, CheckIdentity, Close, poly_shutdown
<1>2. ASSUME NEW m \in Managers, Around(m) PROVE FALSE
  BY <1>2 DEF Around, Fork, ChildrenLeave, PollFails, Start, Killed, StopArrives
<1> QED
  BY <1>1, <1>2 DEF Next, OrphansVanish, vars

\* No manager removes the path of another server: neither to take the address
\* nor when it ends, even if its own path was replaced meanwhile.
THEOREM ForeignSocketsStay == Spec => OnlyOwnerUnlinks
<1>1. ASSUME Inv, [Next]_vars, path # None, path' # path
      PROVE  OperatorRemoves \/ \E m \in Managers : Unlink(m) /\ held[m] = path
  <2>1. CASE OperatorRemoves
    BY <2>1
  <2>2. CASE \E m \in Managers : Unlink(m)
    BY <1>1, <2>2 DEF Unlink, Goto, Inv, SocketInv, Halfway
  <2> QED
    BY <1>1, <2>1, <2>2, WhoChangesThePath
<1>2. Inv /\ [Next]_vars =>
        [path # None /\ path' # path =>
           \/ OperatorRemoves
           \/ \E m \in Managers : Unlink(m) /\ held[m] = path]_vars
  BY <1>1
<1> QED
  BY <1>2, AddressInvariance, PTL DEF Spec, OnlyOwnerUnlinks

\* An orderly end leaves no path behind.
THEOREM NothingStaysBehind == Spec => CloseUnlinks
<1>1. ASSUME Inv, [Next]_vars, NEW m \in Managers, held[m] # None, held'[m] = None
      PROVE  pc'[m] = "killed" \/ socket[m] = None \/ path' # held[m]
  <2>a. TypeOK /\ SocketInv(m)
    BY <1>1 DEF Inv
  <2>1. ASSUME NEW n \in Managers, Proceed(n) PROVE Identify(n) \/ Close(n)
    BY <1>1, <2>1, <2>a, Sockets
    DEF Proceed, signal_fd, StartFails, poly_initialize, CountThreads, BindUnix, BindTcp,
        BindFails, Restrict, RestrictFails, ReadStopSignal, SuperviseEnds, CheckIdentity,
        Unlink, poly_shutdown, TypeOK
  <2>2. ASSUME NEW n \in Managers, Identify(n) \/ Close(n)
        PROVE  socket[m] = None \/ path' # held[m]
    BY <1>1, <2>2, <2>a DEF Identify, Close, Goto, TypeOK, SocketInv
  <2>3. ASSUME NEW n \in Managers, Around(n) PROVE pc'[m] = "killed"
    BY <1>1, <2>3, <2>a
    DEF Around, Fork, ChildrenLeave, PollFails, Start, Killed, StopArrives, TypeOK
  <2>4. CASE (\E s \in Inodes \cup {Port} : OrphansVanish(s)) \/ OperatorRemoves
    BY <1>1, <2>4 DEF OrphansVanish, OperatorRemoves
  <2>5. CASE UNCHANGED vars
    BY <1>1, <2>5 DEF vars
  <2> QED
    BY <1>1, <2>1, <2>2, <2>3, <2>4, <2>5 DEF Next
<1>2. Inv /\ [Next]_vars =>
        [\A m \in Managers : held[m] # None /\ held'[m] = None =>
           pc'[m] = "killed" \/ socket[m] = None \/ path' # held[m]]_vars
  BY <1>1
<1> QED
  BY <1>2, AddressInvariance, PTL DEF Spec, CloseUnlinks
=============================================================================
