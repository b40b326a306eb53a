---------------------------- MODULE PoolPromise ----------------------------
(***************************************************************************)
(* What the pool promises to its clients and to its operator, without the  *)
(* manager's loop, signals, sockets or clocks: at most Workers children,   *)
(* each serving one connection and never a second one; no new child once   *)
(* the pool drains; a drain that ends, with no child left behind; and no   *)
(* child that survives a lost manager for long.                            *)
(***************************************************************************)
EXTENDS Integers, FiniteSets

CONSTANTS Pids, Workers

VARIABLES
  idle,     (* children that have no connection yet                         *)
  serving,  (* children that have had their connection                      *)
  phase     (* the manager: "open", "draining", "closed" or "lost"          *)

vars == <<idle, serving, phase>>

Init == idle = {} /\ serving = {} /\ phase = "open"

\* A new child, always without a connection.
Join(p) ==
  /\ phase = "open"
  /\ p \notin idle \cup serving
  /\ Cardinality(idle \cup serving) < Workers
  /\ idle' = idle \cup {p}
  /\ UNCHANGED <<serving, phase>>

\* A connection for a child that has had none.
Take(p) ==
  /\ p \in idle
  /\ idle' = idle \ {p}
  /\ serving' = serving \cup {p}
  /\ UNCHANGED phase

\* The end of a child, for whatever reason.
Leave(p) ==
  /\ p \in idle \cup serving
  /\ idle' = idle \ {p}
  /\ serving' = serving \ {p}
  /\ UNCHANGED phase

BeginDrain == phase = "open" /\ phase' = "draining" /\ UNCHANGED <<idle, serving>>

Close ==
  /\ phase = "draining" /\ idle \cup serving = {}
  /\ phase' = "closed"
  /\ UNCHANGED <<idle, serving>>

Lose ==
  /\ phase \in {"open", "draining"}
  /\ phase' = "lost"
  /\ UNCHANGED <<idle, serving>>

Next ==
  \/ \E p \in Pids : Join(p) \/ Take(p) \/ Leave(p)
  \/ BeginDrain
  \/ Close
  \/ Lose

Safety == Init /\ [][Next]_vars

\* Nobody outlives a drain or the manager, and a drained pool is closed.
LeaveInTheEnd(p) == phase # "open" /\ Leave(p)

Spec ==
  /\ Safety
  /\ \A p \in Pids : WF_vars(LeaveInTheEnd(p))
  /\ WF_vars(Close)
=============================================================================
