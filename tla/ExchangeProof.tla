---------------------------- MODULE ExchangeProof ----------------------------
(***************************************************************************)
(* Proofs about Exchange: for a body of any length and PHP code that does  *)
(* what it likes, the response is well framed and ended, PHP is shut down  *)
(* iff it was started, and what is finished or reported stays so.          *)
(***************************************************************************)
EXTENDS ExchangeRefinement, TLAPS, SequenceTheorems

-----------------------------------------------------------------------------
\* Sequences of records.

Records == {"headers", "body", "error", "end"}

\* Two records sent one after the other.
LEMMA Pair ==
  ASSUME NEW a \in Records, NEW b \in Records
  PROVE  <<a>> \o <<b>> = <<a, b>>
<1>1. /\ <<a>> \o <<b>> \in Seq(Records) /\ <<a, b>> \in Seq(Records)
      /\ Len(<<a>> \o <<b>>) = 2 /\ Len(<<a, b>>) = 2
      /\ (<<a>> \o <<b>>)[1] = a /\ (<<a>> \o <<b>>)[2] = b
  BY SMT
<1>2. \A i \in 1..2 : (<<a>> \o <<b>>)[i] = <<a, b>>[i]
  BY <1>1
<1> QED
  BY <1>1, <1>2, SeqEqual

\* A record after two.
LEMMA Triple ==
  ASSUME NEW a \in Records, NEW b \in Records, NEW c \in Records
  PROVE  <<a, b>> \o <<c>> = <<a, b, c>>
<1>1. /\ <<a, b>> \o <<c>> \in Seq(Records) /\ <<a, b, c>> \in Seq(Records)
      /\ Len(<<a, b>> \o <<c>>) = 3 /\ Len(<<a, b, c>>) = 3
      /\ (<<a, b>> \o <<c>>)[1] = a /\ (<<a, b>> \o <<c>>)[2] = b
      /\ (<<a, b>> \o <<c>>)[3] = c
  BY SMT
<1>2. \A i \in 1..3 : (<<a, b>> \o <<c>>)[i] = <<a, b, c>>[i]
  BY <1>1
<1> QED
  BY <1>1, <1>2, SeqEqual

\* A record after three.
LEMMA Quadruple ==
  ASSUME NEW a \in Records, NEW b \in Records, NEW c \in Records, NEW d \in Records
  PROVE  <<a, b, c>> \o <<d>> = <<a, b, c, d>>
<1>1. /\ <<a, b, c>> \o <<d>> \in Seq(Records) /\ <<a, b, c, d>> \in Seq(Records)
      /\ Len(<<a, b, c>> \o <<d>>) = 4 /\ Len(<<a, b, c, d>>) = 4
      /\ (<<a, b, c>> \o <<d>>)[1] = a /\ (<<a, b, c>> \o <<d>>)[2] = b
      /\ (<<a, b, c>> \o <<d>>)[3] = c /\ (<<a, b, c>> \o <<d>>)[4] = d
  BY SMT
<1>2. \A i \in 1..4 : (<<a, b, c>> \o <<d>>)[i] = <<a, b, c, d>>[i]
  BY <1>1
<1> QED
  BY <1>1, <1>2, SeqEqual

\* Nothing in front and nothing behind.
LEMMA Nothing == \A s \in Seq(Records) : <<>> \o s = s /\ s \o <<>> = s
  BY ConcatEmptySeq

\* A response is a sequence of records.
LEMMA ResponsesAreSeqs == Responses \cup Spoiled \subseteq Seq(Records)
  BY SMT DEF Responses, Spoiled, Records

\* The last record of each beginning of a response.
LEMMA Lasts ==
  /\ LastOf(<<>>) = "" /\ LastOf(<<"headers">>) = "headers"
  /\ LastOf(<<"headers", "body">>) = "body"
  /\ LastOf(<<"end">>) = "end" /\ LastOf(<<"headers", "end">>) = "end"
  /\ LastOf(<<"headers", "body", "end">>) = "end" /\ LastOf(<<"error", "end">>) = "end"
  /\ LastOf(<<"headers", "error", "end">>) = "end"
  /\ LastOf(<<"headers", "body", "error", "end">>) = "end"
  BY SMT DEF LastOf

-----------------------------------------------------------------------------
\* What the helpers do to the wire.

\* A client that is gone gets nothing more.
LEMMA SentToNobody == \A s : client = "gone" /\ Send(s) => wire' = wire
  BY DEF Send

\* What send_headers and write_output may be given.
Printable == {<<>>, <<"body">>}

\* PHP's output is body or nothing.
LEMMA PrintedIs == Printed \subseteq Printable
  BY DEF Printed, Printable

\* To a client that is there, headers go first and once, and body follows.
LEMMA EmitTells ==
  ASSUME client = "reading", wire \in Unended, headersSent \in BOOLEAN,
         NEW s \in Printable, Emit(s)
  PROVE  headersSent' /\ wire' \in {<<"headers">>, <<"headers", "body">>}
<1>1. /\ headersSent'
      /\ Send(WithHeaders(s)) \/ (~headersSent /\ Send(<<"headers">>))
  BY DEF Emit
<1>a. /\ <<>> \in Seq(Records) /\ <<"headers">> \in Seq(Records) /\ <<"body">> \in Seq(Records)
      /\ <<"headers", "body">> \in Seq(Records)
  BY SMT DEF Records
<1>b. "headers" \in Records /\ "body" \in Records
  BY DEF Records
<1>c. <<"headers">> \o <<"body">> = <<"headers", "body">>
  BY <1>b, Pair
<1>d. <<"headers", "body">> # <<"body">> /\ <<"headers">> # <<"body">> /\ <<>> # <<"body">>
  BY SMT
<1>2. CASE ~headersSent
  <2>1. wire = <<>>
    BY <1>2 DEF Unended
  <2>2. WithHeaders(s) = <<"headers">> \/ WithHeaders(s) = <<"headers", "body">>
    BY <1>2, <1>a, <1>c, Nothing DEF WithHeaders, Printable
  <2>3. wire' = wire \o WithHeaders(s) \/ wire' = wire \o <<"headers">>
    BY <1>1, <1>d, <2>2 DEF Send
  <2> QED
    BY <1>1, <1>a, <2>1, <2>2, <2>3, Nothing
<1>3. CASE headersSent
  <2>1. WithHeaders(s) = s /\ Send(WithHeaders(s))
    BY <1>1, <1>3 DEF WithHeaders
  <2>2. wire = <<"headers">> \/ wire = <<"headers", "body">>
    BY <1>3 DEF Unended
  <2>3. CASE s = <<>>
    <3>1. wire' = wire \o <<>>
      BY <1>1, <1>d, <2>1, <2>3 DEF Send
    <3> QED
      BY <1>1, <1>a, <2>2, <3>1, Nothing
  <2>4. CASE s = <<"body">> /\ wire = <<"headers">>
    <3>1. wire' = <<"headers">> \o <<"body">>
      BY <1>1, <2>1, <2>4, Lasts DEF Send
    <3> QED
      BY <1>1, <1>c, <3>1
  <2>5. CASE s = <<"body">> /\ wire = <<"headers", "body">>
    <3>1. wire' = wire
      BY <1>1, <2>1, <2>5, Lasts DEF Send
    <3> QED
      BY <1>1, <2>2, <3>1
  <2> QED
    BY <2>2, <2>3, <2>4, <2>5 DEF Printable
<1> QED
  BY <1>2, <1>3

\* What is emitted to nobody changes PHP's view only.
LEMMA EmitToNobody ==
  ASSUME client = "gone", NEW s, Emit(s)
  PROVE  headersSent' /\ wire' = wire
<1>1. headersSent'
  BY DEF Emit
<1>2. wire' = wire
  BY DEF Emit, Send
<1> QED
  BY <1>1, <1>2

\* END closes every beginning of a response; behind output and the error it
\* closes a spoiled one.
LEMMA EndTells ==
  ASSUME client = "reading", ~ended, wire \in Unended \/ wire \in Refused, End
  PROVE  /\ LastOf(wire') = "end"
         /\ wire' \in Responses \/ (wire' \in Spoiled /\ wire \in Spoiled)
<1>1. wire' = wire \o <<"end">>
  <2>1. <<"end">> # <<"body">>
    BY SMT
  <2> QED
    BY <2>1 DEF End, Send
<1>2. /\ "headers" \in Records /\ "body" \in Records /\ "error" \in Records
      /\ "end" \in Records /\ <<"end">> \in Seq(Records)
  BY SMT DEF Records
<1>3. \/ wire = <<>> \/ wire = <<"headers">> \/ wire = <<"headers", "body">>
      \/ wire = <<"error">> \/ wire = <<"headers", "error">>
      \/ wire = <<"headers", "body", "error">>
  BY DEF Unended, Refused
<1>4. CASE wire = <<>>
  <2>1. wire' = <<"end">>
    BY <1>1, <1>2, <1>4, Nothing
  <2> QED
    BY <2>1, Lasts DEF Responses
<1>5. CASE wire = <<"headers">>
  <2>1. wire' = <<"headers", "end">>
    BY <1>1, <1>2, <1>5, Pair
  <2> QED
    BY <2>1, Lasts DEF Responses
<1>6. CASE wire = <<"error">>
  <2>1. wire' = <<"error", "end">>
    BY <1>1, <1>2, <1>6, Pair
  <2> QED
    BY <2>1, Lasts DEF Responses
<1>7. CASE wire = <<"headers", "body">>
  <2>1. wire' = <<"headers", "body", "end">>
    BY <1>1, <1>2, <1>7, Triple
  <2> QED
    BY <2>1, Lasts DEF Responses
<1>8. CASE wire = <<"headers", "error">>
  <2>1. wire' = <<"headers", "error", "end">>
    BY <1>1, <1>2, <1>8, Triple
  <2> QED
    BY <1>8, <2>1, Lasts DEF Spoiled
<1>9. CASE wire = <<"headers", "body", "error">>
  <2>1. wire' = <<"headers", "body", "error", "end">>
    BY <1>1, <1>2, <1>9, Quadruple
  <2> QED
    BY <1>9, <2>1, Lasts DEF Spoiled
<1> QED
  BY <1>3, <1>4, <1>5, <1>6, <1>7, <1>8, <1>9

\* The plain error comes first, or behind what a failing startup has sent.
LEMMA ErrorTells ==
  ASSUME client = "reading", wire \in Unended, Send(<<"error">>)
  PROVE  /\ wire' \in Refused
         /\ wire = <<>> => wire' = <<"error">>
         /\ wire # <<>> => wire' \in Spoiled
<1>1. /\ "headers" \in Records /\ "body" \in Records /\ "error" \in Records
      /\ <<"error">> # <<"body">> /\ <<"error">> \in Seq(Records)
  BY SMT DEF Records
<1>2. wire' = wire \o <<"error">>
  BY <1>1 DEF Send
<1>3. wire = <<>> \/ wire = <<"headers">> \/ wire = <<"headers", "body">>
  BY DEF Unended
<1>4. <<>> # <<"headers">> /\ <<>> # <<"headers", "body">>
  BY SMT
<1>5. CASE wire = <<>>
  BY <1>1, <1>2, <1>5, Nothing DEF Refused
<1>6. CASE wire = <<"headers">>
  <2>1. wire' = <<"headers", "error">>
    BY <1>1, <1>2, <1>6, Pair
  <2> QED
    BY <1>4, <1>6, <2>1 DEF Refused, Spoiled
<1>7. CASE wire = <<"headers", "body">>
  <2>1. wire' = <<"headers", "body", "error">>
    BY <1>1, <1>2, <1>7, Triple
  <2> QED
    BY <1>4, <1>7, <2>1 DEF Refused, Spoiled
<1> QED
  BY <1>3, <1>5, <1>6, <1>7

-----------------------------------------------------------------------------
\* The invariant.

\* No beginning of a response is spoiled, and no whole one.
LEMMA Beginning ==
  /\ \A s \in {<<>>, <<"headers">>, <<"headers", "body">>, <<"error">>} :
       s \in Responses /\ s \notin Spoiled
  /\ Responses \cap Spoiled = {}
  BY SMT DEF Responses, Spoiled

\* A fresh child has sent nothing.
LEMMA ExchangeInit == Init => Inv
<1> SUFFICES ASSUME Init PROVE Inv
  OBVIOUS
<1>1. <<>> \in Responses /\ <<>> \in Seq(Records)
  BY SMT DEF Responses
<1>2. TypeOK
  BY <1>1 DEF Init, TypeOK, Places, Records
<1>3. PlaceInv
  BY DEF Init, PlaceInv
<1>4. Told
  BY DEF Init, Told, Unended
<1> QED
  BY <1>1, <1>2, <1>3, <1>4, Beginning DEF Inv, Framed, ResponseWellFormed, Init

\* Places after which nothing is printed.
Late == {"close", "lingering", "exit"}

\* Steps that send nothing and end nothing.
Silent == UNCHANGED <<wire, headersSent, ended>> /\ (client' = client \/ client' = "gone")

\* What a spoiled response rests on stays.
Settled == pc \in Late => pc' \in Late /\ started' = started /\ result' = result

\* What the wire holds stays a response, and a client that is there has been
\* told everything.
LEMMA WireNext ==
  ASSUME Inv, [Next]_vars
  PROVE  Framed' /\ (client' = "reading" => Told')
<1>a. TypeOK /\ Framed /\ PlaceInv /\ (client = "reading" => Told)
  BY DEF Inv
<1>b. client \in {"reading", "gone"} /\ headersSent \in BOOLEAN
  BY <1>a DEF TypeOK
<1>c. ASSUME wire' = wire, Settled PROVE Framed'
  BY <1>a, <1>c, Beginning DEF Framed, ResponseWellFormed, Settled, Late
<1>d. ASSUME wire' = wire, Settled, client' = "gone"
      PROVE  Framed' /\ (client' = "reading" => Told')
  BY <1>c, <1>d
\* The four ways a step can touch the wire.
<1>1. ASSUME Silent, Settled, pc = "close" => pc' = "close" \/ ended
      PROVE  Framed' /\ (client' = "reading" => Told')
  <2>1. Framed'
    BY <1>c, <1>1 DEF Silent
  <2>2. client' = "reading" => Told'
    BY <1>a, <1>b, <1>1 DEF Silent, Settled, Late, Told, Unended, LastOf
  <2> QED
    BY <2>1, <2>2
<1>2. ASSUME NEW s \in Printable, Emit(s), UNCHANGED <<client, ended>>, ~ended, pc \notin Late
      PROVE  Framed' /\ (client' = "reading" => Told')
  <2>1. CASE client = "gone"
    BY <1>d, <1>2, <2>1, EmitToNobody DEF Settled
  <2>2. CASE client = "reading"
    <3>1. headersSent' /\ wire' \in {<<"headers">>, <<"headers", "body">>}
      BY <1>a, <1>b, <1>2, <2>2, EmitTells DEF Told, Late
    <3> QED
      BY <1>2, <3>1, Beginning DEF Framed, ResponseWellFormed, Told, Unended
  <2> QED
    BY <1>b, <2>1, <2>2
<1>3. ASSUME Send(<<"error">>), UNCHANGED <<client, ended, headersSent>>, pc' = "close",
             pc = "dispatch" \/ (pc = "failing" /\ result' = 1), ~started'
      PROVE  Framed' /\ (client' = "reading" => Told')
  <2>1. CASE client = "gone"
    BY <1>d, <1>3, <2>1, SentToNobody DEF Settled, Late
  <2>2. CASE client = "reading"
    <3>1. ~ended /\ wire \in Unended /\ (pc = "dispatch" => wire = <<>>)
      BY <1>a, <1>3, <2>2 DEF PlaceInv, Told, Unended
    <3>2. /\ wire' \in Refused
          /\ wire' = <<"error">> \/ (wire' \in Spoiled /\ result' = 1)
      BY <1>3, <2>2, <3>1, ErrorTells
    <3> QED
      BY <1>3, <3>1, <3>2, Beginning DEF Framed, ResponseWellFormed, Told, Late
  <2> QED
    BY <1>b, <2>1, <2>2
<1>4. ASSUME End, ~ended, Settled, UNCHANGED <<client, headersSent>>
      PROVE  Framed' /\ (client' = "reading" => Told')
  <2>1. CASE client = "gone"
    BY <1>d, <1>4, <2>1, SentToNobody DEF End
  <2>2. CASE client = "reading"
    <3>1. /\ LastOf(wire') = "end"
          /\ wire' \in Responses \/ (wire' \in Spoiled /\ wire \in Spoiled)
      BY <1>a, <1>4, <2>2, EndTells DEF Told
    <3>2. ended'
      BY <1>4 DEF End
    <3>3. wire \in Spoiled => result' = 1 /\ ~started' /\ pc' \in Late
      BY <1>a, <1>4, Beginning DEF Framed, ResponseWellFormed, Settled, Late
    <3> QED
      BY <3>1, <3>2, <3>3, Beginning DEF Framed, ResponseWellFormed, Told, LastOf, Late
  <2> QED
    BY <1>b, <2>1, <2>2
\* Each action goes one of these ways.
<1> USE DEF Late
<1>5. CASE \/ \E n \in 1..MaxBody : read_post(n)
           \/ \E dies \in BOOLEAN : ScriptEnds(dies)
           \/ CodeDies \/ FinishCalled \/ SetUpFails \/ Dispatch \/ RequestStartup
           \/ ScriptOpened \/ FinishReturns \/ CloseConnection \/ ClientLeaves \/ Over
  <2>1. Silent
    BY <1>5
    DEF Silent, read_post, ScriptEnds, CodeDies, FinishCalled, SetUpFails, Dispatch,
        RequestStartup, ScriptOpened, FinishReturns, CloseConnection, ClientLeaves, Over,
        vars, fcgi, php
  <2>2. Settled /\ (pc = "close" => pc' = "close" \/ ended)
    BY <1>a, <1>5
    DEF Settled, read_post, ScriptEnds, CodeDies, FinishCalled, SetUpFails, Dispatch,
        RequestStartup, ScriptOpened, FinishReturns, CloseConnection, ClientLeaves, Over,
        InPHP, vars, poly
  <2> QED
    BY <1>1, <2>1, <2>2
<1>6. CASE write_output
  <2>1. CASE finished
    BY <1>1, <1>6, <2>1 DEF write_output, InPHP, Silent, Settled, fcgi, php, poly
  <2>2. CASE ~finished
    BY <1>a, <1>2, <1>6, <2>2, PrintedIs DEF write_output, InPHP, PlaceInv
  <2> QED
    BY <2>1, <2>2
<1>7. CASE FinishFlushes
  BY <1>a, <1>2, <1>7, PrintedIs DEF FinishFlushes, PlaceInv
<1>8. CASE RequestShutdown \/ ScriptGone
  <2>1. CASE UNCHANGED <<wire, headersSent, muted>>
    BY <1>1, <1>8, <2>1 DEF RequestShutdown, ScriptGone, Silent, Settled
  <2>2. CASE ~finished /\ \E s \in Printed : Emit(s)
    BY <1>a, <1>2, <1>8, <2>2, PrintedIs DEF RequestShutdown, ScriptGone, PlaceInv
  <2> QED
    BY <1>8, <2>1, <2>2 DEF RequestShutdown, ScriptGone
<1>9. CASE Refuse \/ StartupFails
  BY <1>a, <1>3, <1>9 DEF Refuse, StartupFails, PlaceInv, poly, php
<1>10. CASE FinishEnds
  BY <1>a, <1>4, <1>10 DEF FinishEnds, PlaceInv, Settled, php
<1>11. CASE FinishRequest
  <2>1. CASE finished
    BY <1>a, <1>1, <1>11, <2>1 DEF FinishRequest, PlaceInv, Silent, Settled, poly, php
  <2>2. CASE ~finished
    BY <1>a, <1>4, <1>11, <2>2 DEF FinishRequest, PlaceInv, Settled, poly, php
  <2> QED
    BY <2>1, <2>2
<1>12. CASE UNCHANGED vars
  BY <1>1, <1>12 DEF vars, Silent, Settled, fcgi, php, poly
<1> QED
  BY <1>5, <1>6, <1>7, <1>8, <1>9, <1>10, <1>11, <1>12
  DEF Next, Serve, UserCode, UserCodeEnds

\* Each place keeps what it stands for.  The wire plays no part.
LEMMA PlaceNext == Inv /\ [Next]_vars => PlaceInv'
<1> SUFFICES ASSUME Inv, [Next]_vars PROVE PlaceInv'
  OBVIOUS
<1>a. TypeOK /\ PlaceInv
  BY DEF Inv
<1> USE DEF PlaceInv, TypeOK, Places
<1>1. CASE \/ \E n \in 1..MaxBody : read_post(n)
           \/ Dispatch \/ RequestStartup \/ ScriptOpened \/ CloseConnection
           \/ ClientLeaves \/ Over
  BY <1>a, <1>1
  DEF read_post, Dispatch, RequestStartup, ScriptOpened, CloseConnection, ClientLeaves,
      Over, InPHP, vars, fcgi, php, poly
<1>2. CASE write_output
  <2>1. CASE finished
    BY <1>a, <1>2, <2>1 DEF write_output, InPHP, fcgi, php, poly
  <2>2. CASE ~finished
    <3>1. /\ InPHP /\ UNCHANGED <<from, started, shutDown, ended, finished, client>>
          /\ \/ pc' = pc /\ result' = result
             \/ pc' = After(pc) /\ (pc # "script" => result' = result)
      BY <1>2, <2>2 DEF write_output, Bailout
    <3> QED
      BY <1>a, <2>2, <3>1 DEF InPHP, After
  <2> QED
    BY <2>1, <2>2
<1>3. CASE CodeDies \/ \E dies \in BOOLEAN : ScriptEnds(dies)
  <2>1. /\ pc \in {"startup", "script", "shutdown"}
        /\ pc' = IF pc = "startup" THEN "failing" ELSE "shutdown"
        /\ pc # "script" => result' = result
        /\ UNCHANGED <<from, started, shutDown, ended, finished, client>>
    BY <1>3 DEF CodeDies, ScriptEnds, Bailout, After, fcgi
  <2> QED
    BY <1>a, <2>1
<1>4. CASE FinishCalled
  BY <1>a, <1>4 DEF FinishCalled, InPHP, fcgi, php
<1>5. CASE FinishFlushes
  BY <1>a, <1>5 DEF FinishFlushes, Bailout, After
<1>6. CASE FinishEnds \/ FinishReturns
  BY <1>a, <1>6 DEF FinishEnds, FinishReturns, End, poly, php
<1>7. CASE Refuse \/ SetUpFails \/ StartupFails
  BY <1>a, <1>7 DEF Refuse, SetUpFails, StartupFails, poly, fcgi, php
<1>8. CASE ScriptGone
  BY <1>a, <1>8 DEF ScriptGone
<1>9. CASE RequestShutdown
  BY <1>a, <1>9 DEF RequestShutdown
<1>10. CASE FinishRequest
  BY <1>a, <1>10 DEF FinishRequest, End, poly, php
<1>11. CASE UNCHANGED vars
  BY <1>a, <1>11 DEF vars, poly, fcgi, php
<1> QED
  BY <1>1, <1>2, <1>3, <1>4, <1>5, <1>6, <1>7, <1>8, <1>9, <1>10, <1>11
  DEF Next, Serve, UserCode, UserCodeEnds

\* Types; that of the wire follows from its being a response.
LEMMA TypeNext == Inv /\ [Next]_vars => TypeOK'
<1> SUFFICES ASSUME Inv, [Next]_vars PROVE TypeOK'
  OBVIOUS
<1>a. TypeOK
  BY DEF Inv
<1>b. wire' \in Seq(Records)
  BY WireNext, ResponsesAreSeqs DEF Framed, ResponseWellFormed
<1>c. left' \in 0..MaxBody
  <2>a. left \in 0..MaxBody
    BY <1>a DEF TypeOK
  <2>1. ASSUME NEW n \in 1..MaxBody, read_post(n) PROVE left' \in 0..MaxBody
    BY <2>a, <2>1, BodyAssumption DEF read_post
  <2>2. CASE RequestShutdown
    BY <2>a, <2>2, BodyAssumption DEF RequestShutdown
  <2>3. CASE write_output
    BY <2>a, <2>3 DEF write_output, php
  <2> QED
    BY <2>a, <2>1, <2>2, <2>3
    DEF Next, Serve, UserCode, UserCodeEnds, ScriptEnds, CodeDies, FinishCalled,
        FinishFlushes, FinishEnds, FinishReturns, Refuse, SetUpFails, Dispatch, StartupFails,
        RequestStartup, ScriptOpened, ScriptGone, FinishRequest, CloseConnection,
        ClientLeaves, Over, php, vars
<1> DEFINE Rest ==
  /\ pc \in Places /\ from \in {"startup", "script", "shutdown"} /\ client \in {"reading", "gone"}
  /\ ended \in BOOLEAN /\ finished \in BOOLEAN /\ headersSent \in BOOLEAN
  /\ muted \in BOOLEAN /\ started \in BOOLEAN /\ shutDown \in BOOLEAN
  /\ fatal \in BOOLEAN /\ result \in {0, 1}
<1>d. Rest
  BY <1>a DEF TypeOK
<1>e. ASSUME NEW s, Emit(s) PROVE headersSent' \in BOOLEAN /\ muted' \in BOOLEAN
  BY <1>d, <1>e DEF Emit
<1> USE DEF Places
<1>1. Rest'
  <2>1. CASE Dispatch \/ ScriptOpened \/ CloseConnection
    BY <1>d, <2>1 DEF Dispatch, ScriptOpened, CloseConnection, fcgi, php, poly
  <2>2. CASE RequestStartup
    BY <1>d, <2>2 DEF RequestStartup, fcgi, php
  <2>3. CASE ClientLeaves
    BY <1>d, <2>3 DEF ClientLeaves, fcgi, php, poly
  <2>4. CASE \E n \in 1..MaxBody : read_post(n)
    BY <1>d, <2>4 DEF read_post, fcgi, php, poly
  <2>5. CASE Refuse \/ SetUpFails
    BY <1>d, <2>5 DEF Refuse, SetUpFails, fcgi, php, poly
  <2>6. CASE StartupFails
    BY <1>d, <2>6 DEF StartupFails, php
  <2>7. CASE write_output
    <3>1. CASE finished
      BY <1>d, <2>7, <3>1 DEF write_output, fcgi, php, poly
    <3>2. CASE ~finished
      <4>1. headersSent' \in BOOLEAN /\ muted' \in BOOLEAN
        BY <1>e, <2>7, <3>2 DEF write_output
      <4>2. UNCHANGED <<from, started, shutDown, ended, finished, client>>
        BY <2>7, <3>2 DEF write_output
      <4>3. \/ UNCHANGED <<pc, fatal, result>>
            \/ Bailout(pc, fatal)
        BY <2>7, <3>2 DEF write_output
      <4> QED
        BY <1>d, <4>1, <4>2, <4>3 DEF Bailout, ExitStatus, After
    <3> QED
      BY <3>1, <3>2
  <2>8. CASE CodeDies \/ \E dies \in BOOLEAN : ScriptEnds(dies)
    <3>1. CASE CodeDies
      BY <1>d, <3>1 DEF CodeDies, Bailout, ExitStatus, After, fcgi
    <3>2. ASSUME NEW dies \in BOOLEAN, ScriptEnds(dies) PROVE Rest'
      BY <1>d, <3>2 DEF ScriptEnds, Bailout, ExitStatus, After, fcgi
    <3> QED
      BY <2>8, <3>1, <3>2
  <2>9. CASE FinishCalled
    BY <1>d, <2>9 DEF FinishCalled, InPHP, fcgi, php
  <2>10. CASE FinishFlushes
    BY <1>d, <1>e, <2>10 DEF FinishFlushes, Bailout, ExitStatus, After
  <2>11. CASE FinishEnds \/ FinishReturns
    BY <1>d, <2>11 DEF FinishEnds, FinishReturns, End, poly, php
  <2>12. CASE ScriptGone
    BY <1>d, <1>e, <2>12 DEF ScriptGone
  <2>13. CASE RequestShutdown
    BY <1>d, <1>e, <2>13 DEF RequestShutdown
  <2>14. CASE FinishRequest
    BY <1>d, <2>14 DEF FinishRequest, End, poly, php
  <2>15. CASE Over \/ UNCHANGED vars
    BY <1>d, <2>15 DEF Over, vars, poly, fcgi, php
  <2> QED
    BY <2>1, <2>2, <2>3, <2>4, <2>5, <2>6, <2>7, <2>8,
       <2>9, <2>10, <2>11, <2>12, <2>13, <2>14, <2>15
    DEF Next, Serve, UserCode, UserCodeEnds
<1> QED
  BY <1>b, <1>c, <1>1 DEF TypeOK, Records

\* The inductive invariant of one exchange.
THEOREM ExchangeInvariance == Spec => []Inv
<1>1. Inv /\ [Next]_vars => Inv'
  BY TypeNext, WireNext, PlaceNext DEF Inv
<1> QED
  BY <1>1, ExchangeInit, PTL DEF Spec

\* Types, for a body of any length.
THEOREM ExchangeTyping == Spec => []TypeOK
<1>1. Inv => TypeOK
  BY DEF Inv
<1> QED
  BY <1>1, ExchangeInvariance, PTL

\* One header block, then body, then one END: write_output, send_headers and
\* fastcgi_finish_request never mix them up, and the text of protocol_error comes
\* behind output only if PHP failed to start, which the result says.
THEOREM WellFramed == Spec => []ResponseWellFormed
<1>1. Inv => ResponseWellFormed
  BY DEF Inv, Framed
<1> QED
  BY <1>1, ExchangeInvariance, PTL

\* Every way through poly_serve_one tells the client that the request is over, and
\* the child leaves after the client.
THEOREM EveryPathEnds == Spec => []EndOnEveryPath
<1>1. Inv => EndOnEveryPath
  BY DEF Inv, PlaceInv, Told, EndOnEveryPath
<1> QED
  BY <1>1, ExchangeInvariance, PTL

\* PHP is shut down exactly if it was started.
THEOREM ShutdownMatchesStartup == Spec => []ShutdownIffStarted
<1>1. Inv => ShutdownIffStarted
  BY DEF Inv, TypeOK, PlaceInv, ShutdownIffStarted
<1> QED
  BY <1>1, ExchangeInvariance, PTL

\* After fastcgi_finish_request nothing reaches the connection.
THEOREM FinishedForGood == Spec => FinishedIsOver
<1>1. Inv /\ [Next]_vars =>
        [finished => finished' /\ UNCHANGED <<wire, left, ended>>]_vars
  <2> SUFFICES ASSUME Inv, Next, finished
               PROVE  finished' /\ UNCHANGED <<wire, left, ended>>
    BY DEF vars
  <2>1. PlaceInv
    BY DEF Inv
  <2>2. /\ client = "gone"
        /\ pc \in {"startup", "failing", "open", "script", "shutdown", "close", "exit"}
    BY <2>1 DEF PlaceInv
  <2>3. CASE StartupFails
    BY <2>2, <2>3, SentToNobody DEF StartupFails, php
  <2> QED
    BY <2>2, <2>3
    DEF Next, Serve, UserCode, UserCodeEnds, read_post, write_output, ScriptEnds,
        CodeDies, FinishCalled, FinishFlushes, FinishEnds, FinishReturns, Refuse,
        SetUpFails, Dispatch, RequestStartup, ScriptOpened, ScriptGone,
        RequestShutdown, FinishRequest, CloseConnection, ClientLeaves, Over, fcgi, php, vars
<1> QED
  BY <1>1, ExchangeInvariance, PTL DEF Spec, FinishedIsOver

\* The exit status tells of a script that died, and is not taken back.
THEOREM DeathsShow == Spec => DeathIsReported
<1>1. Inv /\ [Next]_vars =>
        [/\ result = 1 => result' = 1
         /\ ~fatal /\ fatal' /\ (pc = "script" \/ (pc = "flushing" /\ from = "script"))
              => result' = 1]_vars
  <2> SUFFICES ASSUME Inv, Next
               PROVE  /\ result = 1 => result' = 1
                      /\ ~fatal /\ fatal' /\ (pc = "script" \/ (pc = "flushing" /\ from = "script"))
                           => result' = 1
    BY DEF vars
  <2>1. PlaceInv /\ TypeOK
    BY DEF Inv
  <2>2. CASE write_output
    BY <2>1, <2>2 DEF write_output, InPHP, PlaceInv, Bailout, poly, php
  <2>3. CASE CodeDies \/ \E dies \in BOOLEAN : ScriptEnds(dies)
    BY <2>1, <2>3 DEF CodeDies, ScriptEnds, PlaceInv, Bailout, ExitStatus
  <2>4. CASE FinishFlushes
    BY <2>1, <2>4 DEF FinishFlushes, PlaceInv, TypeOK, Bailout, ExitStatus
  <2>5. CASE \/ FinishCalled \/ RequestShutdown \/ ScriptGone \/ SetUpFails \/ StartupFails
             \/ RequestStartup
    BY <2>1, <2>5
    DEF FinishCalled, RequestShutdown, ScriptGone, SetUpFails, StartupFails, RequestStartup,
        PlaceInv, php
  <2> QED
    BY <2>2, <2>3, <2>4, <2>5
    DEF Next, Serve, UserCode, UserCodeEnds, read_post, FinishEnds, FinishReturns,
        Refuse, Dispatch, ScriptOpened, FinishRequest, CloseConnection, ClientLeaves, Over,
        poly, php, vars
<1> QED
  BY <1>1, ExchangeInvariance, PTL DEF Spec, DeathIsReported
-----------------------------------------------------------------------------
\* The promise to the client.

\* What is sent goes behind what was sent before.
LEMMA BeginsLonger ==
  ASSUME NEW s \in Seq(Records), NEW u \in Seq(Records)
  PROVE  Promise!Begins(s, s \o u)
<1>1. Len(s) \in Nat /\ Len(s \o u) = Len(s) + Len(u) /\ Len(u) \in Nat /\ s \o u \in Seq(Records)
  BY ConcatProperties, LenProperties
<1>2. \A i \in 1..Len(s) : (s \o u)[i] = s[i]
  BY ConcatProperties
<1>3. /\ SubSeq(s \o u, 1, Len(s)) \in Seq(Records)
      /\ Len(SubSeq(s \o u, 1, Len(s))) = Len(s)
      /\ \A i \in 1..Len(s) : SubSeq(s \o u, 1, Len(s))[i] = (s \o u)[i]
  <2>1. \A i \in 1..Len(s) : (s \o u)[i] \in Records
    BY <1>2, ElementOfSeq
  <2> QED  BY <1>1, <2>1, SubSeqProperties, SMTT(30)
<1>4. SubSeq(s \o u, 1, Len(s)) = s
  BY <1>1, <1>2, <1>3, SeqEqual
<1> QED  BY <1>1, <1>4 DEF Promise!Begins

\* Whatever the client has got is on the way to an answer, or to a spoiled one.
LEMMA OnTheWay ==
  /\ \A s \in Responses : \E a \in Promise!Answers : Promise!Begins(s, a)
  /\ \A s \in Spoiled : \E a \in Promise!Spoiled : Promise!Begins(s, a)
<1>1. /\ "headers" \in Records /\ "body" \in Records /\ "error" \in Records /\ "end" \in Records
      /\ <<"headers">> \in Seq(Records) /\ <<"error">> \in Seq(Records) /\ <<"end">> \in Seq(Records)
      /\ <<"headers", "body">> \in Seq(Records) /\ <<>> \in Seq(Records)
      /\ <<"headers", "error">> \in Seq(Records)
      /\ <<"headers", "body", "error">> \in Seq(Records)
  BY SMT DEF Records
<1>2. /\ <<"headers">> \o <<"end">> = <<"headers", "end">>
      /\ <<"headers", "body">> \o <<"end">> = <<"headers", "body", "end">>
      /\ <<"error">> \o <<"end">> = <<"error", "end">>
      /\ <<>> \o <<"end">> = <<"end">>
      /\ <<"headers", "error">> \o <<"end">> = <<"headers", "error", "end">>
      /\ <<"headers", "body", "error">> \o <<"end">> = <<"headers", "body", "error", "end">>
  BY <1>1, Pair, Triple, Quadruple, Nothing
<1>3. \A s \in Responses \cup Spoiled : Promise!Begins(s, s) /\ Promise!Begins(s, s \o <<"end">>)
  <2> SUFFICES ASSUME NEW s \in Responses \cup Spoiled
               PROVE  Promise!Begins(s, s) /\ Promise!Begins(s, s \o <<"end">>)
    OBVIOUS
  <2>1. s \in Seq(Records)
    BY ResponsesAreSeqs
  <2>2. Promise!Begins(s, s \o <<>>) /\ Promise!Begins(s, s \o <<"end">>) /\ s \o <<>> = s
    BY <1>1, <2>1, BeginsLonger, Nothing
  <2> QED  BY <2>2
<1>4. ASSUME NEW s \in Responses PROVE \E a \in Promise!Answers : Promise!Begins(s, a)
  <2>1. s \o <<"end">> \in Promise!Answers \/ s \in Promise!Answers
    BY <1>2, <1>4 DEF Responses, Promise!Answers
  <2> QED  BY <1>3, <1>4, <2>1
<1>5. ASSUME NEW s \in Spoiled PROVE \E a \in Promise!Spoiled : Promise!Begins(s, a)
  <2>1. s \o <<"end">> \in Promise!Spoiled \/ s \in Promise!Spoiled
    BY <1>2, <1>5 DEF Spoiled, Promise!Spoiled
  <2> QED  BY <1>3, <1>5, <2>1
<1> QED  BY <1>4, <1>5

\* Nothing that is on the wire is taken back, and a client that is gone gets
\* nothing.
LEMMA WireGrows ==
  ASSUME [Next]_vars
  PROVE  \/ wire' = wire
         \/ client # "gone" /\ \E u \in Seq(Records) : wire' = wire \o u
<1>1. /\ <<>> \in Seq(Records) /\ <<"headers">> \in Seq(Records) /\ <<"body">> \in Seq(Records)
      /\ <<"error">> \in Seq(Records) /\ <<"end">> \in Seq(Records)
      /\ <<"headers">> \o <<>> \in Seq(Records) /\ <<"headers">> \o <<"body">> \in Seq(Records)
  BY SMT DEF Records
<1>2. ASSUME NEW s \in Seq(Records), Send(s)
      PROVE  wire' = wire \/ (client # "gone" /\ \E u \in Seq(Records) : wire' = wire \o u)
  BY <1>2 DEF Send
<1>3. ASSUME NEW s \in Printable, Emit(s)
      PROVE  wire' = wire \/ (client # "gone" /\ \E u \in Seq(Records) : wire' = wire \o u)
  <2>1. WithHeaders(s) \in Seq(Records)
    BY <1>1 DEF WithHeaders, Printable
  <2> QED  BY <1>1, <1>2, <1>3, <2>1 DEF Emit
<1>4. <<"body">> \in Printable
  BY DEF Printable
<1>5. CASE write_output \/ FinishFlushes \/ RequestShutdown \/ ScriptGone
  BY <1>3, <1>4, <1>5, PrintedIs
  DEF write_output, FinishFlushes, RequestShutdown, ScriptGone, fcgi
<1>6. CASE Refuse \/ StartupFails
  BY <1>1, <1>2, <1>6 DEF Refuse, StartupFails
<1>7. CASE FinishEnds \/ FinishRequest
  BY <1>1, <1>2, <1>7 DEF FinishEnds, FinishRequest, End
<1> QED
  BY <1>5, <1>6, <1>7
  DEF Next, Serve, UserCode, UserCodeEnds, read_post, ScriptEnds, CodeDies,
      FinishCalled, FinishReturns, SetUpFails, Dispatch, RequestStartup, ScriptOpened,
      CloseConnection, ClientLeaves, Over, fcgi, vars

\* The result only ever turns to failure.
LEMMA ResultGrows ==
  ASSUME Inv, [Next]_vars
  PROVE  result' \in {result, 1}
<1>1. PlaceInv /\ TypeOK
  BY DEF Inv
<1>2. CASE write_output
  BY <1>1, <1>2 DEF write_output, InPHP, PlaceInv, TypeOK, Bailout, ExitStatus, poly
<1>3. CASE CodeDies \/ \E dies \in BOOLEAN : ScriptEnds(dies)
  BY <1>1, <1>3 DEF CodeDies, ScriptEnds, PlaceInv, TypeOK, Bailout, ExitStatus
<1>4. CASE FinishFlushes
  BY <1>1, <1>4 DEF FinishFlushes, PlaceInv, TypeOK, Bailout, ExitStatus
<1>5. CASE FinishCalled \/ RequestShutdown \/ ScriptGone \/ SetUpFails \/ StartupFails
  BY <1>1, <1>5
  DEF FinishCalled, RequestShutdown, ScriptGone, SetUpFails, StartupFails, PlaceInv, TypeOK
<1> QED
  BY <1>2, <1>3, <1>4, <1>5
  DEF Next, Serve, UserCode, UserCodeEnds, read_post, FinishEnds, FinishReturns, Refuse,
      Dispatch, RequestStartup, ScriptOpened, FinishRequest, CloseConnection, ClientLeaves,
      Over, poly, vars

\* Each step of the child, of PHP code or of the client is a step of the
\* promise, or invisible.
LEMMA PromiseStep ==
  ASSUME Inv, Inv', [Next]_vars
  PROVE  [Promise!Next]_(Promise!vars)
<1>1. /\ TypeOK /\ PlaceInv /\ PlaceInv' /\ client \in {"reading", "gone"}
  BY DEF Inv, TypeOK
<1>2. result' \in {result, 1}
  BY ResultGrows
<1>3. CASE ClientLeaves
  BY <1>3 DEF ClientLeaves, poly, fcgi, Promise!Next, Promise!Leave
<1>4. CASE CloseConnection \/ (FinishRequest /\ finished)
  BY <1>1, <1>4 DEF CloseConnection, FinishRequest, PlaceInv, poly, fcgi, Promise!Next, Promise!Exit
<1>5. CASE Over \/ UNCHANGED vars
  BY <1>5 DEF Over, vars, poly, fcgi, Promise!vars
<1>6. CASE /\ ~ClientLeaves /\ ~CloseConnection /\ ~(FinishRequest /\ finished)
           /\ ~Over /\ ~UNCHANGED vars
  <2>1. pc # "exit" /\ pc' # "exit" /\ client' = client
    <3>1. CASE \/ write_output \/ FinishFlushes \/ CodeDies
               \/ \E dies \in BOOLEAN : ScriptEnds(dies)
      BY <3>1 DEF write_output, FinishFlushes, CodeDies, ScriptEnds, Bailout, After, InPHP
    <3>2. CASE FinishReturns
      BY <1>1, <3>2 DEF FinishReturns, TypeOK
    <3> QED
      BY <1>6, <3>1, <3>2
      DEF Next, Serve, UserCode, UserCodeEnds, read_post, FinishCalled, FinishEnds, Refuse,
          SetUpFails, Dispatch, StartupFails, RequestStartup, ScriptOpened, ScriptGone,
          RequestShutdown, FinishRequest, InPHP
  <2>2. \/ wire' = wire
        \/ /\ client = "reading" /\ Promise!Begins(wire, wire')
           /\ \/ \E a \in Promise!Answers : Promise!Begins(wire', a)
              \/ result' = 1 /\ \E a \in Promise!Spoiled : Promise!Begins(wire', a)
    <3>1. wire \in Seq(Records) /\ (wire' \in Responses \/ (wire' \in Spoiled /\ result' = 1))
      BY DEF Inv, TypeOK, Framed, ResponseWellFormed, Records
    <3>2. wire' = wire \/ (client = "reading" /\ \E u \in Seq(Records) : wire' = wire \o u)
      BY <1>1, WireGrows
    <3> QED  BY <3>1, <3>2, BeginsLonger, OnTheWay
  <2> QED  BY <1>2, <2>1, <2>2 DEF Promise!Next, Promise!Work
<1> QED  BY <1>3, <1>4, <1>5, <1>6

\* A child with its request implements the promise to the client, for a body of
\* any length and PHP code that does what it likes.
THEOREM ExchangeKeepsItsPromise == Spec => ResponsePromise
<1>1. Init => Promise!Init
  BY DEF Init, Promise!Init
<1>2. Inv /\ Inv' /\ [Next]_vars => [Promise!Next]_(Promise!vars)
  BY PromiseStep
<1> QED
  BY <1>1, <1>2, ExchangeInvariance, PTL DEF Spec, ResponsePromise, Promise!Safety
=============================================================================
