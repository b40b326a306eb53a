------------------------------- MODULE Address -------------------------------
(***************************************************************************)
(* The life of a manager around its pool, and the address it listens on:   *)
(* run and Listener of src/manager.rs, poly_initialize and poly_shutdown   *)
(* of native/sapi.c.  Several managers are configured with one Unix path   *)
(* or one TCP port; each is started, fails to start, serves, is stopped,   *)
(* is killed and is started again, in any interleaving with the others.    *)
(*                                                                         *)
(* The pool is reduced to what PoolPromise says of it: children come while *)
(* it is open, leave at any time, and a drain ends when there are none.    *)
(* Children inherit the listening socket, and those of a manager that was  *)
(* killed hold it until they are gone.                                     *)
(*                                                                         *)
(* A Unix socket has an inode, which the kernel gives to a new file only   *)
(* when neither a path nor an open descriptor refers to it any more.  The  *)
(* operator may remove the path at any time, of a dead manager or of a     *)
(* living one, except between two adjacent system calls of a manager that  *)
(* is creating or removing it: bind, lstat and chmod, or lstat and unlink. *)
(***************************************************************************)
EXTENDS Integers

CONSTANTS
  Managers,   (* the managers configured with this address                  *)
  Inodes,     (* the inodes the file system has for sockets                 *)
  Port,       (* the TCP socket                                             *)
  None        (* no socket                                                  *)

ASSUME Sockets == Port \notin Inodes /\ None \notin Inodes \cup {Port}

VARIABLES
  pc,         (* [Managers -> place in run]                                 *)
  stop,       (* a stop signal is pending for the manager                   *)
  held,       (* the listening socket that is open in the manager           *)
  socket,     (* the identity in Listener.socket                            *)
  children,   (* the manager has children                                   *)
  path,       (* the inode the configured path leads to                     *)
  mode,       (* its permissions: "umask" or "0660"                         *)
  orphaned    (* sockets held by children of managers that were killed      *)

vars == <<pc, stop, held, socket, children, path, mode, orphaned>>

Places == {"ended", "killed", "started", "masked", "initialized", "alone",
           "bound", "identified", "serving", "draining", "dropping",
           "unlinking", "closing", "shutdown"}

Init ==
  /\ pc = [m \in Managers |-> "ended"]
  /\ stop = [m \in Managers |-> FALSE]
  /\ held = [m \in Managers |-> None]
  /\ socket = [m \in Managers |-> None]
  /\ children = [m \in Managers |-> FALSE]
  /\ path = None /\ mode = "umask" /\ orphaned = {}

\* A manager process exists.
Up(m) == pc[m] \notin {"ended", "killed"}

\* Sockets that something still refers to.
InUse == {path} \cup {held[m] : m \in Managers} \cup orphaned

Goto(m, here, there) ==
  /\ pc[m] = here
  /\ pc' = [pc EXCEPT ![m] = there]

-----------------------------------------------------------------------------
\* Starting.

\* The stop signals are blocked and will be read from a descriptor.
signal_fd(m) ==
  /\ Goto(m, "started", "masked")
  /\ UNCHANGED <<stop, held, socket, children, path, mode, orphaned>>

\* Bad options, a missing helper or directory, or a failing signal_fd.
StartFails(m) ==
  /\ Goto(m, "started", "ended")
  /\ UNCHANGED <<stop, held, socket, children, path, mode, orphaned>>

\* Mutant: signals that came while PHP was starting are forgotten.
poly_initializeDeaf(m) ==
  /\ \/ Goto(m, "masked", "initialized")
     \/ Goto(m, "masked", "ended")
  /\ stop' = [stop EXCEPT ![m] = FALSE]
  /\ UNCHANGED <<held, socket, children, path, mode, orphaned>>

\* PHP starts and preloads, for as long as it takes.  If it fails, run returns
\* at once: there is nothing that poly_shutdown would have to undo.
poly_initialize(m) ==
  /\ \/ Goto(m, "masked", "initialized")
     \/ Goto(m, "masked", "ended")
  /\ UNCHANGED <<stop, held, socket, children, path, mode, orphaned>>

\* No forking from a process with threads.
CountThreads(m) ==
  /\ \/ Goto(m, "initialized", "alone")
     \/ Goto(m, "initialized", "shutdown")
  /\ UNCHANGED <<stop, held, socket, children, path, mode, orphaned>>

\* A Unix socket gets a new inode and fails on a path that exists.
BindUnix(m, i) ==
  /\ Goto(m, "alone", "bound")
  /\ path = None /\ i \notin InUse
  /\ held' = [held EXCEPT ![m] = i]
  /\ path' = i /\ mode' = "umask"
  /\ UNCHANGED <<stop, socket, children, orphaned>>

\* Mutant: the identity of a TCP socket is recorded as well.
BindTcpRecorded(m) ==
  /\ Goto(m, "alone", "serving")
  /\ Port \notin InUse
  /\ held' = [held EXCEPT ![m] = Port]
  /\ socket' = [socket EXCEPT ![m] = Port]
  /\ UNCHANGED <<stop, children, path, mode, orphaned>>

\* A TCP port cannot be bound while anyone listens on it.
BindTcp(m) ==
  /\ Goto(m, "alone", "serving")
  /\ Port \notin InUse
  /\ held' = [held EXCEPT ![m] = Port]
  /\ UNCHANGED <<stop, socket, children, path, mode, orphaned>>

\* The address is taken, or cannot be used.
BindFails(m) ==
  /\ Goto(m, "alone", "shutdown")
  /\ UNCHANGED <<stop, held, socket, children, path, mode, orphaned>>

\* symlink_metadata after bind.  If it fails the socket is closed, and its
\* path stays.
Identify(m) ==
  /\ \/ /\ Goto(m, "bound", "identified")
        /\ socket' = [socket EXCEPT ![m] = path]
        /\ UNCHANGED held
     \/ /\ Goto(m, "bound", "shutdown")
        /\ held' = [held EXCEPT ![m] = None]
        /\ UNCHANGED socket
  /\ UNCHANGED <<stop, children, path, mode, orphaned>>

Restrict(m) ==
  /\ Goto(m, "identified", "serving")
  /\ mode' = "0660"
  /\ UNCHANGED <<stop, held, socket, children, path, orphaned>>

\* Mutant: the error is ignored.
RestrictFailsUnnoticed(m) ==
  /\ Goto(m, "identified", "serving")
  /\ UNCHANGED <<stop, held, socket, children, path, mode, orphaned>>

\* Mutant: there is no Listener yet whose Drop would remove the path.
RestrictFailsBare(m) ==
  /\ Goto(m, "identified", "shutdown")
  /\ held' = [held EXCEPT ![m] = None]
  /\ socket' = [socket EXCEPT ![m] = None]
  /\ UNCHANGED <<stop, children, path, mode, orphaned>>

\* set_permissions fails: the Listener exists already and is dropped.
RestrictFails(m) ==
  /\ Goto(m, "identified", "dropping")
  /\ UNCHANGED <<stop, held, socket, children, path, mode, orphaned>>

-----------------------------------------------------------------------------
\* Serving: what supervise does, as seen from here.

Fork(m) ==
  /\ pc[m] = "serving"
  /\ children' = [children EXCEPT ![m] = TRUE]
  /\ UNCHANGED <<pc, stop, held, socket, path, mode, orphaned>>

ChildrenLeave(m) ==
  /\ children[m]
  /\ children' = [children EXCEPT ![m] = FALSE]
  /\ UNCHANGED <<pc, stop, held, socket, path, mode, orphaned>>

\* A signal that was pending since startup is read like any other.
ReadStopSignal(m) ==
  /\ stop[m] /\ Goto(m, "serving", "draining")
  /\ stop' = [stop EXCEPT ![m] = FALSE]
  /\ UNCHANGED <<held, socket, children, path, mode, orphaned>>

PollFails(m) ==
  /\ Goto(m, "serving", "draining")
  /\ UNCHANGED <<stop, held, socket, children, path, mode, orphaned>>

\* Mutant: the loop is left with the first sign of a drain.
SuperviseEndsEarly(m) ==
  /\ Goto(m, "draining", "dropping")
  /\ UNCHANGED <<stop, held, socket, children, path, mode, orphaned>>

SuperviseEnds(m) ==
  /\ ~children[m] /\ Goto(m, "draining", "dropping")
  /\ UNCHANGED <<stop, held, socket, children, path, mode, orphaned>>

-----------------------------------------------------------------------------
\* Ending.

\* Mutant: a path that was ours is taken to be ours.
CheckIdentityNever(m) ==
  /\ Goto(m, "dropping", IF socket[m] = None THEN "closing" ELSE "unlinking")
  /\ UNCHANGED <<stop, held, socket, children, path, mode, orphaned>>

\* Drop: does the path still lead to the socket that was bound to it?
CheckIdentity(m) ==
  /\ Goto(m, "dropping",
          IF socket[m] # None /\ path = socket[m] THEN "unlinking" ELSE "closing")
  /\ UNCHANGED <<stop, held, socket, children, path, mode, orphaned>>

Unlink(m) ==
  /\ Goto(m, "unlinking", "closing")
  /\ path' = None
  /\ UNCHANGED <<stop, held, socket, children, mode, orphaned>>

\* The fields are dropped after the body of Drop: until here the inode could
\* not be given to another file.
Close(m) ==
  /\ Goto(m, "closing", "shutdown")
  /\ held' = [held EXCEPT ![m] = None]
  /\ socket' = [socket EXCEPT ![m] = None]
  /\ UNCHANGED <<stop, children, path, mode, orphaned>>

\* PHP's modules and the memory shared with children are taken down.
poly_shutdown(m) ==
  /\ Goto(m, "shutdown", "ended")
  /\ stop' = [stop EXCEPT ![m] = FALSE]
  /\ UNCHANGED <<held, socket, children, path, mode, orphaned>>

-----------------------------------------------------------------------------
\* The world around.

\* The operator or a service manager starts a manager, also anew.
Start(m) ==
  /\ ~Up(m)
  /\ pc' = [pc EXCEPT ![m] = "started"]
  /\ UNCHANGED <<stop, held, socket, children, path, mode, orphaned>>

\* SIGKILL, a fault, or a stop signal before the signals are blocked.  The
\* kernel closes the manager's descriptors; its children still have theirs.
Killed(m) ==
  /\ Up(m)
  /\ pc' = [pc EXCEPT ![m] = "killed"]
  /\ stop' = [stop EXCEPT ![m] = FALSE]
  /\ held' = [held EXCEPT ![m] = None]
  /\ socket' = [socket EXCEPT ![m] = None]
  /\ children' = [children EXCEPT ![m] = FALSE]
  /\ orphaned' = IF children[m] THEN orphaned \cup {held[m]} ELSE orphaned
  /\ UNCHANGED <<path, mode>>

StopArrives(m) ==
  /\ Up(m) /\ pc[m] # "started" /\ ~stop[m]
  /\ stop' = [stop EXCEPT ![m] = TRUE]
  /\ UNCHANGED <<pc, held, socket, children, path, mode, orphaned>>

OrphansVanish(s) ==
  /\ s \in orphaned
  /\ orphaned' = orphaned \ {s}
  /\ UNCHANGED <<pc, stop, held, socket, children, path, mode>>

\* Between two system calls on the path.
Halfway(m) == pc[m] \in {"bound", "identified", "unlinking"}

OperatorRemoves ==
  /\ path # None /\ \A m \in Managers : ~Halfway(m)
  /\ path' = None
  /\ UNCHANGED <<pc, stop, held, socket, children, mode, orphaned>>

-----------------------------------------------------------------------------
\* What run does by itself, one thing after the other.
Proceed(m) ==
  \/ signal_fd(m)
  \/ StartFails(m)
  \/ poly_initialize(m)
  \/ CountThreads(m)
  \/ \E i \in Inodes : BindUnix(m, i)
  \/ BindTcp(m)
  \/ BindFails(m)
  \/ Identify(m)
  \/ Restrict(m)
  \/ RestrictFails(m)
  \/ ReadStopSignal(m)
  \/ SuperviseEnds(m)
  \/ CheckIdentity(m)
  \/ Unlink(m)
  \/ Close(m)
  \/ poly_shutdown(m)

Around(m) ==
  \/ Fork(m)
  \/ ChildrenLeave(m)
  \/ PollFails(m)
  \/ Start(m)
  \/ Killed(m)
  \/ StopArrives(m)

Next ==
  \/ \E m \in Managers : Proceed(m) \/ Around(m)
  \/ \E s \in Inodes \cup {Port} : OrphansVanish(s)
  \/ OperatorRemoves

Spec == Init /\ [][Next]_vars

\* The kernel runs every manager, and a pool that drains gets empty.
FairSpec ==
  /\ Spec
  /\ \A m \in Managers :
       /\ WF_vars(Proceed(m))
       /\ WF_vars(pc[m] = "draining" /\ ChildrenLeave(m))

-----------------------------------------------------------------------------
TypeOK ==
  /\ pc \in [Managers -> Places]
  /\ stop \in [Managers -> BOOLEAN]
  /\ held \in [Managers -> Inodes \cup {Port, None}]
  /\ socket \in [Managers -> Inodes \cup {None}]
  /\ children \in [Managers -> BOOLEAN]
  /\ path \in Inodes \cup {None}
  /\ mode \in {"umask", "0660"}
  /\ orphaned \in SUBSET (Inodes \cup {Port})

\* Listener: "Never unlink an existing socket: it may belong to another
\* server."  A path that leads to a socket is only removed by the operator, or
\* by the manager that listens on this very socket; not by one that wants the
\* address, nor by one that had it before, however inodes are reused.
OnlyOwnerUnlinks ==
  [][path # None /\ path' # path =>
       \/ OperatorRemoves
       \/ \E m \in Managers : Unlink(m) /\ held[m] = path]_vars

\* A manager that closes its socket in order, after a drain or an error of
\* startup, leaves no path of its own behind that would block the next start.
\* The error between bind and the Listener is the exception.
CloseUnlinks ==
  [][\A m \in Managers : held[m] # None /\ held'[m] = None =>
       pc'[m] = "killed" \/ socket[m] = None \/ path' # held[m]]_vars

\* README: Unix sockets have mode 0660.  No child accepts on a socket whose
\* permissions are still those of the umask.  (A client may connect in between
\* bind and set_permissions; it waits in the backlog, and is answered if these
\* succeed.)
ServedRestricted ==
  \A m \in Managers : children[m] /\ path = held[m] => mode = "0660"

\* PHP and the memory it shares with the children are taken down when there is
\* no child, and after the address was given back.
ShutdownComesLast ==
  \A m \in Managers : pc[m] = "shutdown" => ~children[m] /\ held[m] = None

-----------------------------------------------------------------------------
\* The inductive invariant.  A manager holds a socket exactly between bind and
\* Close, and no other manager holds the same one; what it recorded is this
\* socket.  While it is halfway through two system calls the path leads there;
\* once it has looked at the path and means to close, the path does not.

Holding(m) ==
  pc[m] \in {"bound", "identified", "serving", "draining", "dropping",
            "unlinking", "closing"}

SocketInv(m) ==
  /\ held[m] # None <=> Holding(m)
  /\ \A n \in Managers : held[m] = held[n] /\ held[m] # None => m = n
  /\ socket[m] # None => socket[m] = held[m] /\ pc[m] # "bound"
  /\ Halfway(m) => path = held[m]
  /\ pc[m] = "closing" /\ path = held[m] => socket[m] = None
  /\ children[m] => pc[m] \in {"serving", "draining"}
  /\ pc[m] \in {"serving", "draining"} /\ path = held[m] => mode = "0660"

Inv == TypeOK /\ \A m \in Managers : SocketInv(m)

-----------------------------------------------------------------------------
\* README: SIGTERM and SIGINT end the manager, also when they come during the
\* start of PHP: the signal is kept until the loop reads it.
StopIsKept == \A m \in Managers : stop[m] ~> ~Up(m)
=============================================================================
