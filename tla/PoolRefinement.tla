--------------------------- MODULE PoolRefinement ---------------------------
(***************************************************************************)
(* The pool of manager and children implements PoolPromise.  A child joins *)
(* when it is forked, takes its connection when poly_connection_accepted   *)
(* marks it active and leaves when it becomes a zombie: what the manager   *)
(* does to learn of this, its table, stamps and marks, are invisible.      *)
(***************************************************************************)
EXTENDS PoolProperties

Serving == {p \in Live : connectionActive[p]}

Phase ==
  CASE pc = "dead"    -> "lost"
    [] pc = "stopped" -> "closed"
    [] OTHER          -> IF draining THEN "draining" ELSE "open"

Promise == INSTANCE PoolPromise
  WITH idle <- Live \ Serving, serving <- Serving, phase <- Phase

\* No step of manager, children or environment, in any interleaving, does
\* what the promise forbids.
PromiseSafety == Promise!Safety

\* Every behaviour of manager and children, fairly scheduled, is one of the
\* promised: bound, one connection each, no fork into a drain, and both the
\* drain and the loss of the manager end with no child.
PromiseKept == Promise!Spec

-----------------------------------------------------------------------------
\* What Address sees of the pool: one manager that listens from before the
\* first fork until the loop ends, or is killed, and whether there are
\* children.  The socket is the TCP port; that of a path is in use just as long.

Managers == {"manager"}

Of(x) == [m \in Managers |-> x]

Listener == INSTANCE Address
  WITH Inodes <- {}, Port <- "port", None <- "none",
       pc <- Of(CASE Phase = "open"     -> "serving"
                  [] Phase = "draining" -> "draining"
                  [] Phase = "closed"   -> "dropping"
                  [] OTHER              -> "killed"),
       stop <- Of(FALSE), socket <- Of("none"), path <- "none", mode <- "umask",
       held <- Of(IF Phase = "lost" THEN "none" ELSE "port"),
       children <- Of(Phase # "lost" /\ Live # {}),
       orphaned <- IF Phase = "lost" /\ Live # {} THEN {"port"} ELSE {}

\* The few actions of Address that stand for supervise and the children.
PoolPart(m) ==
  \/ Listener!Fork(m)
  \/ Listener!ChildrenLeave(m)
  \/ Listener!PollFails(m)
  \/ Listener!SuperviseEnds(m)
  \/ Listener!Killed(m)
  \/ Listener!OrphansVanish("port")

\* Address leaves out nothing the pool does to the listener: every step of
\* manager and children is one of these actions there, or none.
StandsInAddress == [][PoolPart("manager")]_(Listener!vars)
=============================================================================
