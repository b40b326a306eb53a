------------------------- MODULE ExchangeRefinement -------------------------
(***************************************************************************)
(* A child that runs one request, poly_serve_one with all that PHP code    *)
(* may do in between, implements Response.  What the client gets is the    *)
(* wire; buffers, callbacks and the end of PHP are invisible to it.        *)
(***************************************************************************)
EXTENDS Exchange

Promise == INSTANCE Response
  WITH received <- wire, child <- IF pc = "exit" THEN "gone" ELSE "working",
       status <- result

\* Whatever PHP code does and wherever it is abandoned, each step keeps the
\* answer on its way to a whole one, closes no connection under the client and
\* takes no failure back.
ResponsePromise == Promise!Safety

\* And if PHP code comes to an end, the client is answered in full, and the
\* child is gone when the client is: bad request, failed startup, fatal error
\* or response finished early.
ResponseKept == Promise!Spec
=============================================================================
