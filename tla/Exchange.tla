------------------------------ MODULE Exchange ------------------------------
(***************************************************************************)
(* One request in a child, from the accepted connection to the exit        *)
(* status: poly_serve_one of native/sapi.c with the SAPI callbacks PHP     *)
(* makes meanwhile (write_output, send_headers, flush_output, read_post)   *)
(* and fastcgi_finish_request.                                             *)
(*                                                                         *)
(* PHP code is arbitrary: it prints, flushes, reads its body, finishes the *)
(* response, ends well or with a fatal error, in any order, in the script, *)
(* in shutdown and already while PHP starts (a session that is opened then *)
(* may call it, and errors are displayed).  A bailout (longjmp) abandons   *)
(* the callback that raised it; php_request_startup, php_execute_script    *)
(* and php_request_shutdown catch their own.                               *)
(* The client may go at any time.  fcgi_write buffers, so that a write to  *)
(* a client that is gone may succeed all the same.                         *)
(*                                                                         *)
(* wire is what the client receives: a header block, body (one element     *)
(* however long), the plain error of protocol_error, and the END record.   *)
(***************************************************************************)
EXTENDS Integers, Sequences

CONSTANT MaxBody   (* the longest request body, in units of reading *)

ASSUME BodyAssumption == MaxBody \in Nat

VARIABLES
  pc,           (* the place in poly_serve_one                              *)
  from,         (* the code that called fastcgi_finish_request              *)
  client,       (* "reading", or "gone"                                     *)
  wire,         (* what was sent while the client was reading               *)
  ended,        (* req->ended of the FastCGI request                        *)
  finished,     (* response_finished                                        *)
  headersSent,  (* SG(headers_sent)                                         *)
  muted,        (* php_handle_aborted_connection has disabled output        *)
  left,         (* bytes of the body not read yet                           *)
  started,      (* started of poly_serve_one                                *)
  shutDown,     (* php_request_shutdown has run                             *)
  fatal,        (* EG(exit_status) is 255                                   *)
  result        (* result of poly_serve_one                                 *)

poly == <<from, started, shutDown, result>>
fcgi == <<wire, ended, finished>>
php  == <<headersSent, muted, left, fatal>>
vars == <<pc, client, poly, fcgi, php>>

Places == {"dispatch", "startup", "failing", "open", "script", "shutdown", "flushing",
           "ending", "draining", "close", "lingering", "exit"}

Init ==
  /\ pc = "dispatch" /\ client = "reading"
  /\ from = "script" /\ started = FALSE /\ shutDown = FALSE /\ result = 0
  /\ wire = <<>> /\ ended = FALSE /\ finished = FALSE
  /\ headersSent = FALSE /\ muted = FALSE /\ left \in 0..MaxBody /\ fatal = FALSE

-----------------------------------------------------------------------------
\* Output.

LastOf(s) == IF s = <<>> THEN "" ELSE s[Len(s)]

\* Send s to the client; more body is the same body.
Send(s) == wire' = IF client = "gone" \/ (s = <<"body">> /\ LastOf(wire) = "body")
                     THEN wire ELSE wire \o s

\* Mutant: nobody remembers that the headers are out.
WithHeadersAlways(s) == <<"headers">> \o s

\* send_headers runs once per request, in front of whatever comes first.
WithHeaders(s) == IF headersSent THEN s ELSE <<"headers">> \o s

\* PHP's output layer passes on what is printed unless it has been disabled.
Printed == {<<>>} \cup IF muted THEN {} ELSE {<<"body">>}

\* Everything sent goes out; or the request is a HEAD, and PHP's output layer
\* disables itself once the headers are out; or a write to a client that is gone
\* fails and php_handle_aborted_connection disables PHP's output.
Emit(s) ==
  /\ headersSent' = TRUE
  /\ \/ Send(WithHeaders(s)) /\ UNCHANGED muted
     \/ s # <<>> /\ ~headersSent /\ Send(<<"headers">>) /\ muted' = TRUE
     \/ client = "gone" /\ muted' = TRUE /\ UNCHANGED wire

\* User code runs here.
InPHP == pc \in {"startup", "script", "shutdown"}

\* Where a bailout is caught: php_request_startup fails, the script is over,
\* shutdown goes on.
After(place) == IF place = "startup" THEN "failing" ELSE "shutdown"

ExitStatus(dies) == IF dies THEN 1 ELSE 0

\* Mutant: the exit status is read before the script has set it.
BailoutUnreported(place, dies) ==
  /\ pc' = After(place)
  /\ fatal' = dies
  /\ result' = IF place = "script" THEN ExitStatus(fatal) ELSE result

\* A bailout ends the script as any other end does, and result is computed.
Bailout(place, dies) ==
  /\ pc' = After(place)
  /\ fatal' = dies
  /\ result' = IF place = "script" THEN ExitStatus(dies) ELSE result

-----------------------------------------------------------------------------
\* Callbacks from PHP.

\* PHP prints or flushes: send_headers at the first occasion, write_output,
\* flush_output.  If the client is gone the script may be abandoned.
write_output ==
  /\ InPHP
  /\ \/ /\ finished
        /\ UNCHANGED <<pc, poly, fcgi, php>>
     \/ /\ ~finished
        /\ \E s \in Printed : Emit(s)
        /\ \/ UNCHANGED <<pc, fatal, result>>
           \/ client = "gone" /\ muted' /\ Bailout(pc, fatal)
        /\ UNCHANGED <<from, started, shutDown, ended, finished, left>>
  /\ UNCHANGED client

\* Mutant: the connection is read after the response is finished.
read_postAlways(n) ==
  /\ InPHP
  /\ n <= left
  /\ left' = left - n
  /\ UNCHANGED <<pc, client, poly, fcgi, headersSent, muted, fatal>>

\* Mutant: a read is not cut to what is left.
read_postUnbounded(n) ==
  /\ InPHP
  /\ ~finished /\ left > 0
  /\ left' = left - n
  /\ UNCHANGED <<pc, client, poly, fcgi, headersSent, muted, fatal>>

\* The body is read while PHP starts, in user code, and what is left of it in
\* the end; never more than CONTENT_LENGTH in all.
read_post(n) ==
  /\ InPHP
  /\ ~finished /\ n <= left
  /\ left' = left - n
  /\ UNCHANGED <<pc, client, poly, fcgi, headersSent, muted, fatal>>

\* The script returns, exits, or dies of a fatal error.
ScriptEnds(dies) ==
  /\ pc = "script"
  /\ Bailout(pc, dies)
  /\ UNCHANGED <<client, from, started, shutDown, fcgi, headersSent, muted, left>>

\* Startup fails on code that it runs or on a limit; or a shutdown function
\* dies, when result is computed already.
CodeDies ==
  /\ pc \in {"startup", "shutdown"}
  /\ Bailout(pc, TRUE)
  /\ UNCHANGED <<client, from, started, shutDown, fcgi, headersSent, muted, left>>

-----------------------------------------------------------------------------
\* fastcgi_finish_request.

FinishCalled ==
  /\ InPHP /\ ~finished
  /\ pc' = "flushing" /\ from' = pc
  /\ UNCHANGED <<client, started, shutDown, result, fcgi, php>>

\* php_output_end_all and sapi_send_headers; a failing write or an output
\* handler of the script may bail out, and the response stays unfinished.
FinishFlushes ==
  /\ pc = "flushing"
  /\ \E s \in Printed : Emit(s)
  /\ \/ pc' = "ending" /\ UNCHANGED <<fatal, result>>
     \/ client = "gone" /\ muted' /\ Bailout(from, fatal)
     \/ Bailout(from, TRUE)
  /\ UNCHANGED <<client, from, started, shutDown, ended, finished, left>>

\* fcgi_end writes the END record, unless it has before.
End == ended' = TRUE /\ IF ended THEN UNCHANGED wire ELSE Send(<<"end">>)

\* Mutant: the socket is half-closed without an END record.
FinishWithoutEnd ==
  /\ pc = "ending"
  /\ pc' = "draining"
  /\ UNCHANGED <<client, poly, fcgi, php>>

FinishEnds ==
  /\ pc = "ending"
  /\ pc' = "draining"
  /\ End
  /\ UNCHANGED <<client, poly, finished, php>>

\* fcgi_close half-closes, reads until the client has closed its side too and
\* closes the socket; only then is the response marked finished.
FinishReturns ==
  /\ pc = "draining" /\ client = "gone"
  /\ pc' = from
  /\ finished' = TRUE
  /\ UNCHANGED <<client, poly, wire, ended, php>>

-----------------------------------------------------------------------------
\* poly_serve_one.

\* protocol_error: the request is invalid, its script is missing or is not
\* permitted.  PHP is not started.
Refuse ==
  /\ pc = "dispatch"
  /\ pc' = "close"
  /\ Send(<<"error">>)
  /\ UNCHANGED <<client, poly, ended, finished, php>>

Dispatch ==
  /\ pc = "dispatch"
  /\ pc' = "startup"
  /\ UNCHANGED <<client, poly, fcgi, php>>

\* A bailout while the request is set up, before PHP starts.
SetUpFails ==
  /\ pc = "dispatch"
  /\ pc' = "close"
  /\ result' = 1
  /\ UNCHANGED <<client, from, started, shutDown, fcgi, php>>

\* protocol_error again, behind whatever startup has sent; if startup finished the
\* response, it reaches nobody.
StartupFails ==
  /\ pc = "failing"
  /\ pc' = "close"
  /\ result' = 1
  /\ Send(<<"error">>)
  /\ UNCHANGED <<client, from, started, shutDown, ended, finished, php>>

\* Mutant: a request that has started is not marked so.
RequestStartupUnmarked ==
  /\ pc = "startup"
  /\ pc' = "open"
  /\ fatal' = FALSE
  /\ UNCHANGED <<client, poly, fcgi, headersSent, muted, left>>

RequestStartup ==
  /\ pc = "startup"
  /\ pc' = "open"
  /\ started' = TRUE
  /\ fatal' = FALSE
  /\ UNCHANGED <<client, from, shutDown, result, fcgi, headersSent, muted, left>>

ScriptOpened ==
  /\ pc = "open"
  /\ pc' = "script"
  /\ UNCHANGED <<client, poly, fcgi, php>>

\* The script vanished after it was checked: 404 through PHP's output, which may
\* hold it back.  Here it is poly_serve_one that catches a bailout, of a failed
\* write or of an output handler.
ScriptGone ==
  /\ pc = "open"
  /\ pc' = "shutdown"
  /\ \/ UNCHANGED <<wire, headersSent, muted>>
     \/ ~finished /\ \E s \in Printed : Emit(s)
  /\ result' \in {0, 1}
  /\ UNCHANGED <<client, from, started, shutDown, ended, finished, left, fatal>>

\* php_request_shutdown, its user code being over: what is buffered and the
\* headers go out, the rest of the body is read.  PHP ignores its failures; a
\* bailout that it lets through makes the result 1.
RequestShutdown ==
  /\ pc = "shutdown"
  /\ pc' = "close"
  /\ shutDown' = TRUE
  /\ \/ finished /\ UNCHANGED <<wire, headersSent, muted, left>>
     \/ ~finished /\ (\E s \in Printed : Emit(s)) /\ left' \in 0..left
  /\ result' \in {result, 1}
  /\ UNCHANGED <<client, from, started, ended, finished, fatal>>

\* Mutant: only a request that was started is finished.
FinishRequestIfStarted ==
  /\ pc = "close"
  /\ \/ (finished \/ ~started) /\ pc' = "exit" /\ UNCHANGED <<wire, ended>>
     \/ ~finished /\ started /\ pc' = "lingering" /\ End
  /\ UNCHANGED <<client, poly, finished, php>>

\* fcgi_finish_request, unless PHP has finished the response already.
FinishRequest ==
  /\ pc = "close"
  /\ \/ finished /\ pc' = "exit" /\ UNCHANGED <<wire, ended>>
     \/ ~finished /\ pc' = "lingering" /\ End
  /\ UNCHANGED <<client, poly, finished, php>>

\* fcgi_close waits for the client's side again; then result is returned.
CloseConnection ==
  /\ pc = "lingering" /\ client = "gone"
  /\ pc' = "exit"
  /\ UNCHANGED <<client, poly, fcgi, php>>

-----------------------------------------------------------------------------
ClientLeaves ==
  /\ client = "reading"
  /\ client' = "gone"
  /\ UNCHANGED <<pc, poly, fcgi, php>>

\* _exit(result).
Over == pc = "exit" /\ UNCHANGED vars

\* What poly_serve_one and the library do once PHP code lets them.
Serve ==
  \/ Refuse
  \/ SetUpFails
  \/ Dispatch
  \/ StartupFails
  \/ RequestStartup
  \/ ScriptOpened
  \/ ScriptGone
  \/ FinishFlushes
  \/ FinishEnds
  \/ FinishReturns
  \/ FinishRequest
  \/ CloseConnection

UserCode ==
  \/ write_output
  \/ \E n \in 1..MaxBody : read_post(n)
  \/ FinishCalled
  \/ CodeDies

UserCodeEnds == RequestShutdown \/ \E dies \in BOOLEAN : ScriptEnds(dies)

Next == Serve \/ UserCode \/ UserCodeEnds \/ ClientLeaves \/ Over

Spec == Init /\ [][Next]_vars

\* The client closes a connection it has read to the END record, and PHP code
\* does not run for ever, be it in the script, in shutdown or while PHP starts
\* (RequestStartup is one of Serve): what happens otherwise is the request
\* timeout's business.
FairSpec ==
  /\ Spec
  /\ WF_vars(Serve)
  /\ SF_vars(UserCodeEnds)
  /\ WF_vars(ended /\ ClientLeaves)

-----------------------------------------------------------------------------
TypeOK ==
  /\ pc \in Places
  /\ from \in {"startup", "script", "shutdown"}
  /\ client \in {"reading", "gone"}
  /\ wire \in Seq({"headers", "body", "error", "end"})
  /\ ended \in BOOLEAN
  /\ finished \in BOOLEAN
  /\ headersSent \in BOOLEAN
  /\ muted \in BOOLEAN
  /\ left \in 0..MaxBody
  /\ started \in BOOLEAN
  /\ shutDown \in BOOLEAN
  /\ fatal \in BOOLEAN
  /\ result \in {0, 1}

\* The responses a FastCGI client can make sense of, whole or cut short.
Responses ==
  {<<>>, <<"headers">>, <<"headers", "body">>, <<"headers", "body", "end">>,
   <<"headers", "end">>, <<"error">>, <<"error", "end">>, <<"end">>}

\* What a startup that printed before it failed makes of a response: the text of
\* protocol_error stands behind the output.
Spoiled ==
  {<<"headers", "error">>, <<"headers", "error", "end">>,
   <<"headers", "body", "error">>, <<"headers", "body", "error", "end">>}

\* Whatever PHP code prints, flushes and finishes, and wherever it dies, the
\* client sees one header block at most, before any body, and nothing after
\* the one END record; and only if PHP could not be started, which the child
\* reports, the error message behind output.
ResponseWellFormed ==
  \/ wire \in Responses
  \/ wire \in Spoiled /\ result = 1 /\ ~started

\* A client that has not left is told that the request is over, on each way
\* out of poly_serve_one: bad request, failed startup, fatal error, bailout in
\* the middle of fastcgi_finish_request.  And the child does not exit before the
\* client has closed its side, which would reset the connection and truncate
\* the response.
EndOnEveryPath ==
  /\ pc = "lingering" /\ client = "reading" => LastOf(wire) = "end"
  /\ pc = "exit" => client = "gone"

\* README: PHP request shutdown is completed, after every request that PHP
\* started and after no other.
ShutdownIffStarted == pc \in {"lingering", "exit"} => (shutDown <=> started)

\* Code that runs after fastcgi_finish_request has returned true cannot reach
\* the connection: neither to write nor to read the rest of the body.
FinishedIsOver == [][finished => finished' /\ UNCHANGED <<wire, left, ended>>]_vars

\* A script that dies, on its own or inside fastcgi_finish_request, exits with
\* a status the manager calls abnormal, and nothing later takes that back.  A
\* death in shutdown comes after the status is computed and does not count; one
\* while PHP starts is reported later, by StartupFails.
DeathIsReported ==
  [][/\ result = 1 => result' = 1
     /\ ~fatal /\ fatal' /\ (pc = "script" \/ (pc = "flushing" /\ from = "script"))
          => result' = 1]_vars

-----------------------------------------------------------------------------
\* The inductive invariant.  PlaceInv ties each place to what has happened on
\* the way there; Told is what the client has been sent, if it is still there:
\* of a client that has left, only the beginning of a response is known.  Framed
\* adds to ResponseWellFormed that nothing is printed behind the error.

PlaceInv ==
  /\ pc = "dispatch" => ~headersSent
  /\ pc \in {"dispatch", "startup", "failing"} => ~started
  /\ pc \in {"open", "script", "shutdown"} => started
  /\ pc \in {"flushing", "ending", "draining"} => (started <=> from # "startup")
  /\ shutDown <=> started /\ pc \in {"close", "lingering", "exit"}
  /\ ended <=> finished \/ pc \in {"draining", "lingering", "exit"}
  /\ finished => /\ client = "gone"
                 /\ pc \in {"startup", "failing", "open", "script", "shutdown", "close", "exit"}
  /\ pc = "exit" => client = "gone"
  /\ \/ pc \in {"dispatch", "startup", "failing", "open", "script"}
     \/ pc \in {"flushing", "ending", "draining"} /\ from # "shutdown"
     => result = 0

Unended == IF headersSent THEN {<<"headers">>, <<"headers", "body">>} ELSE {<<>>}

\* protocol_error has had the last word.
Refused == {<<"error">>, <<"headers", "error">>, <<"headers", "body", "error">>}

Told ==
  /\ ~ended => wire \in Unended \/ (pc = "close" /\ ~started /\ wire \in Refused)
  /\ ended => LastOf(wire) = "end"

Framed == ResponseWellFormed /\ (wire \in Spoiled => pc \in {"close", "lingering", "exit"})

Inv == TypeOK /\ Framed /\ PlaceInv /\ (client = "reading" => Told)
=============================================================================
