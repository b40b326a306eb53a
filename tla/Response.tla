------------------------------ MODULE Response ------------------------------
(***************************************************************************)
(* What a child promises to the client of its one connection, without PHP, *)
(* its callbacks and the places of poly_serve_one: an answer that only     *)
(* grows and makes sense as far as it goes, or else a request that has     *)
(* failed; an END record for a client that waits for it, a socket that is  *)
(* not closed under the client, and a failure that is not taken back.      *)
(***************************************************************************)
EXTENDS Integers, Sequences

VARIABLES
  received,  (* what the client has got                                     *)
  client,    (* "reading", or "gone"                                        *)
  child,     (* "working", or "gone"                                        *)
  status     (* 1 once the request has failed                               *)

vars == <<received, client, child, status>>

\* The answers to a request: of PHP, of protocol_error, or of nobody.
Answers ==
  {<<"headers", "end">>, <<"headers", "body", "end">>, <<"error", "end">>, <<"end">>}

\* s is where t begins, or all of it.
Begins(s, t) == Len(s) <= Len(t) /\ s = SubSeq(t, 1, Len(s))

\* Output of a PHP that could not be started after all, and the error behind it.
Spoiled == {<<"headers", "error", "end">>, <<"headers", "body", "error", "end">>}

Complete(s) == s \in Answers \cup Spoiled

Init == received = <<>> /\ client = "reading" /\ child = "working" /\ status = 0

\* The answer goes on, on the way to one of the answers; the request may fail,
\* and only then the answer may be spoiled.
Work ==
  /\ child = "working"
  /\ \/ UNCHANGED received
     \/ /\ client = "reading"
        /\ Begins(received, received')
        /\ \/ \E a \in Answers : Begins(received', a)
           \/ status' = 1 /\ \E a \in Spoiled : Begins(received', a)
  /\ status' \in {status, 1}
  /\ UNCHANGED <<client, child>>

\* The client closes its side, at any time.
Leave ==
  /\ client = "reading"
  /\ client' = "gone"
  /\ UNCHANGED <<received, child, status>>

\* The child goes after the client.
Exit ==
  /\ child = "working" /\ client = "gone"
  /\ child' = "gone"
  /\ UNCHANGED <<received, client, status>>

Next == Work \/ Leave \/ Exit

Safety == Init /\ [][Next]_vars

\* A client that stays gets a whole answer and closes its side then; whenever
\* it has closed it, the child goes too.
Spec ==
  /\ Safety
  /\ client = "reading" ~> client = "gone" \/ Complete(received)
  /\ Complete(received) ~> client = "gone"
  /\ client = "gone" ~> child = "gone"
=============================================================================
