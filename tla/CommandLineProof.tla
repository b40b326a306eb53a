-------------------------- MODULE CommandLineProof --------------------------
(***************************************************************************)
(* Proofs about CommandLine, for all words and command lines of any        *)
(* length: the loop of parse reads the options that a reader of the whole  *)
(* line would find, and what they name survives the change of directory.   *)
(***************************************************************************)
EXTENDS CommandLine, FiniteSetTheorems, TLAPS

\* An option without a value is followed by an option.
LEMMA AfterFlag ==
  ASSUME NEW i \in Nat \ {0}, args[i] \notin Valued
  PROVE  IsOption(i + 1)
<1>1. i \in 0..(i + 1 - 1) /\ (i + 1 - 1 - i) % 2 = 0
  OBVIOUS
<1>2. \A j \in (i + 1)..(i + 1 - 1) : args[j] \in Valued
  OBVIOUS
<1> QED  BY <1>1, <1>2 DEF IsOption

\* An option with a value is followed by the value and then by an option.
LEMMA AfterValue ==
  ASSUME NEW i \in Nat \ {0}, IsOption(i), args[i] \in Valued
  PROVE  ~IsOption(i + 1) /\ IsOption(i + 2)
<1>1. PICK k \in 0..(i - 1) :
        /\ k = 0 \/ args[k] \notin Valued
        /\ \A j \in (k + 1)..(i - 1) : args[j] \in Valued
        /\ (i - 1 - k) % 2 = 0
  BY DEF IsOption
<1>2. ASSUME IsOption(i + 1) PROVE FALSE
  <2>1. PICK h \in 0..i :
          /\ h = 0 \/ args[h] \notin Valued
          /\ \A j \in (h + 1)..i : args[j] \in Valued
          /\ (i - h) % 2 = 0
    BY <1>2 DEF IsOption
  <2>2. h # i
    BY <2>1
  <2>3. ~(h < k)
    BY <1>1, <2>1
  <2>4. ~(k < h)
    BY <1>1, <2>1, <2>2
  <2> QED  BY <1>1, <2>1, <2>3, <2>4
<1>3. IsOption(i + 2)
  <2>1. CASE args[i + 1] \in Valued
    <3>1. k \in 0..(i + 2 - 1) /\ (i + 2 - 1 - k) % 2 = 0
      BY <1>1
    <3>2. \A j \in (k + 1)..(i + 2 - 1) : args[j] \in Valued
      BY <1>1, <2>1
    <3> QED  BY <1>1, <3>1, <3>2 DEF IsOption
  <2>2. CASE args[i + 1] \notin Valued
    BY <2>2, AfterFlag
  <2> QED  BY <2>1, <2>2
<1> QED  BY <1>2, <1>3

-----------------------------------------------------------------------------
\* Typing, and where the loop stands.

LEMMA LimitsTyped == MaxWorkers \in Nat /\ MaxTimeout \in Nat /\ 30 \in 1..MaxTimeout
  BY DEF MaxWorkers, MaxTimeout

LEMMA InvInit == Init => Inv
<1> SUFFICES ASSUME Init PROVE Inv
  OBVIOUS
<1>1. CommandLineTypeOK
  <2>1. <<>> \in Seq(SettingWords) /\ 30 \in 1..MaxTimeout
    BY LimitsTyped
  <2>2. config \in Configs
    BY <2>1 DEF Init, Defaults, Configs, Places, Place, NoPlace
  <2> QED
    <3>1. args \in Seq(Words) /\ at \in 1..(Len(args) + 1)
      <4>1. args \in Seq(Words)
        BY WordsAreRead, Zenon DEF Init
      <4> QED  BY <4>1 DEF Init
    <3>2. file \in [Keys -> Values]
      BY DEF Init, Values
    <3> QED  BY <2>2, <3>1, <3>2 DEF Init, CommandLineTypeOK
<1>2. IsOption(at) /\ Passed = {}
  BY <1>1 DEF Init, IsOption, Passed, Options
<1>3. ParseInv
  BY <1>2 DEF Init, ParseInv
<1>4. InOrder(Passed)
  <2>1. Given(Passed) = {} /\ Len(config.defines) = 0
    BY <1>2 DEF Given, Init, Defaults
  <2> QED  BY <2>1, FS_EmptySet DEF InOrder
<1>5. Known /\ PathsKnown
  BY <1>2, <1>4 DEF Init, Known, PathsKnown, NonePassed, Defaults, Kept
<1> QED  BY <1>1, <1>3, <1>5 DEF Inv, Init, PreloadAsAsked

\* A value that was accepted has the type of its field.
LEMMA WithTyped ==
  ASSUME CommandLineTypeOK, NEW i \in 1..Len(args), ~Wrong(i), args[i] \in Valued
  PROVE  /\ i + 1 <= Len(args)
         /\ With(config, args[i], args[i + 1]) \in Configs
<1> DEFINE o == args[i]  w == args[i + 1]
<1>1. i + 1 <= Len(args) /\ w \in Words /\ Acceptable(o, w)
  BY DEF CommandLineTypeOK, Wrong
<1> SUFFICES With(config, o, w) \in Configs
  BY <1>1
<1> HIDE DEF o, w
<1>2. PathOf(w) \in Places
  BY <1>1 DEF PathOf, Place, Places
<1>3. config \in Configs /\ args \in Seq(Words)
  BY DEF CommandLineTypeOK
<1>4. CASE o \in {"--root", "-c"}
  BY <1>1, <1>2, <1>3, <1>4 DEF With, Configs
<1>5. CASE o \in {"--listen", "--workers", "--request-timeout"}
  BY <1>1, <1>3, <1>5 DEF With, Configs, Acceptable, Limits
<1>6. CASE o = "-d"
  <2>1. w \in SettingWords
    BY <1>1, <1>6 DEF Acceptable, SettingWords
  <2>2. config.defines \in Seq(SettingWords)
    BY <1>3 DEF Configs
  <2>3. WithDefine(config.defines, w) \in Seq(SettingWords)
    BY <2>1, <2>2 DEF WithDefine
  <2>4. With(config, o, w) = [config EXCEPT !.defines = WithDefine(@, w)]
    BY <1>6 DEF With
  <2> QED  BY <1>3, <2>3, <2>4 DEF Configs
<1>7. o \in {"--root", "-c"} \/ o \in {"--listen", "--workers", "--request-timeout"} \/ o = "-d"
  BY DEF Valued, o
<1> QED  BY <1>1, <1>4, <1>5, <1>6, <1>7

LEMMA TypingStep ==
  ASSUME CommandLineTypeOK, [Next]_vars
  PROVE  CommandLineTypeOK'
<1> USE DEF CommandLineTypeOK
<1>1. CASE Answer
  BY <1>1 DEF Answer, Exit
<1>2. CASE Refuse
  BY <1>2 DEF Refuse, Exit
<1>3. CASE NoPreload
  <2>1. config' \in Configs
    BY <1>3 DEF NoPreload, Configs
  <2> QED  BY <1>3, <2>1 DEF NoPreload, Reading
<1>4. CASE TakeValue
  <2>1. at \in 1..Len(args) /\ ~Wrong(at) /\ args[at] \in Valued
    BY <1>4 DEF TakeValue, Reading
  <2>2. at + 1 <= Len(args) /\ With(config, args[at], args[at + 1]) \in Configs
    BY <2>1, WithTyped
  <2> QED  BY <1>4, <2>2 DEF TakeValue
<1>5. CASE AllRead
  BY <1>5 DEF AllRead
<1>6. CASE Canonicalize
  <2>1. \A p \in Places : Resolved(p, cwd) \in Places
    BY DEF Resolved, Places, Place
  <2>2. config' \in Configs
    BY <1>6, <2>1 DEF Canonicalize, Configs
  <2> QED  BY <1>6, <2>2 DEF Canonicalize
<1>7. CASE PathRefused
  BY <1>7 DEF PathRefused, Exit
<1>8. CASE ChangeDirectory
  BY <1>8 DEF ChangeDirectory
<1>9. CASE RunFails
  BY <1>9 DEF RunFails, Exit
<1>10. CASE poly_initialize
  BY <1>10 DEF poly_initialize, Exit, Files
<1>11. CASE Done \/ UNCHANGED vars
  BY <1>11 DEF Done, vars
<1> QED
  BY <1>1, <1>2, <1>3, <1>4, <1>5, <1>6, <1>7, <1>8, <1>9, <1>10, <1>11 DEF Next

\* parse never accepts a value out of its limits, and the configuration that
\* run gets keeps its types.
THEOREM CommandLineTyping == Spec => []CommandLineTypeOK
<1>1. Init => CommandLineTypeOK
  BY InvInit DEF Inv
<1>2. CommandLineTypeOK /\ [Next]_vars => CommandLineTypeOK'
  BY TypingStep
<1> QED  BY <1>1, <1>2, PTL DEF Spec

-----------------------------------------------------------------------------
\* The options of a command line do not move, and the loop passes them one by
\* one.

LEMMA Standing ==
  ASSUME UNCHANGED <<args, at>>
  PROVE  /\ Options' = Options /\ Passed' = Passed
         /\ \A i : IsOption(i)' <=> IsOption(i)
         /\ \A i : Wrong(i)' <=> Wrong(i)
         /\ \A i : Ends(i)' <=> Ends(i)
         /\ \A o : NonePassed(o)' <=> NonePassed(o)
         /\ \A o, i : LastPassed(o, i)' <=> LastPassed(o, i)
<1>1. \A i : IsOption(i)' <=> IsOption(i)
  BY DEF IsOption
<1>2. Options' = Options
  BY <1>1 DEF Options
<1>3. Passed' = Passed
  BY <1>2 DEF Passed
<1>4. \A i : (Wrong(i)' <=> Wrong(i)) /\ (Ends(i)' <=> Ends(i))
  BY DEF Wrong, Ends
<1>5. \A o : NonePassed(o)' <=> NonePassed(o)
  BY <1>3 DEF NonePassed
<1>6. \A o, i : LastPassed(o, i)' <=> LastPassed(o, i)
  BY <1>3 DEF LastPassed
<1> QED  BY <1>1, <1>2, <1>3, <1>4, <1>5, <1>6

LEMMA Moving ==
  ASSUME CommandLineTypeOK, at <= Len(args), IsOption(at), args' = args,
         \/ args[at] \notin Valued /\ at' = at + 1
         \/ args[at] \in Valued /\ at' = at + 2
  PROVE  /\ IsOption(at)' /\ at \in Options
         /\ Options' = Options
         /\ Passed' = Passed \cup {at}
         /\ \A i : Ends(i)' <=> Ends(i)
<1>1. at \in Nat \ {0} /\ Len(args) \in Nat
  BY DEF CommandLineTypeOK
<1>2. \A i : (IsOption(i)' <=> IsOption(i)) /\ (Ends(i)' <=> Ends(i))
  BY DEF IsOption, Ends, Wrong
<1>3. Options' = Options /\ at \in Options
  BY <1>1, <1>2 DEF Options
<1>4. CASE args[at] \notin Valued /\ at' = at + 1
  <2>1. IsOption(at + 1)
    BY <1>1, <1>4, AfterFlag
  <2>2. IsOption(at)'
    BY <1>4, <2>1 DEF IsOption
  <2>3. \A i \in 1..Len(args) : i < at + 1 <=> i < at \/ i = at
    BY <1>1
  <2>4. Passed' = Passed \cup {at}
    BY <1>1, <1>3, <1>4, <2>3 DEF Passed, Options
  <2> QED  BY <1>2, <1>3, <2>2, <2>4
<1>5. CASE args[at] \in Valued /\ at' = at + 2
  <2>1. IsOption(at + 2) /\ ~IsOption(at + 1)
    BY <1>1, <1>5, AfterValue
  <2>2. IsOption(at)'
    BY <1>5, <2>1 DEF IsOption
  <2>3. at + 1 \notin Options
    BY <2>1 DEF Options
  <2>4. \A i \in Options : i < at + 2 <=> i < at \/ i = at
    BY <1>1, <2>3 DEF Options
  <2>5. Passed' = Passed \cup {at}
    BY <1>1, <1>3, <1>5, <2>4 DEF Passed
  <2> QED  BY <1>2, <1>3, <2>2, <2>5
<1> QED  BY <1>4, <1>5

\* The option just passed is the last of its kind, and nothing else is new.
LEMMA Latest ==
  ASSUME NEW p, p = at, at \in Nat, args' = args, Passed' = Passed \cup {p}, NEW o
  PROVE  /\ args[p] = o => p \in Passed' /\ LastPassed(o, p)' /\ ~NonePassed(o)'
         /\ args[p] # o =>
              /\ NonePassed(o)' <=> NonePassed(o)
              /\ \A i : LastPassed(o, i) => LastPassed(o, i)'
<1>1. \A i \in Passed : i \in Nat /\ i < p
  BY DEF Passed, Options
<1>2. CASE args[p] = o
  BY <1>1, <1>2 DEF LastPassed, NonePassed
<1>3. CASE args[p] # o
  BY <1>1, <1>3 DEF LastPassed, NonePassed
<1> QED  BY <1>2, <1>3

LEMMA ParseStep ==
  ASSUME Inv, [Next]_vars
  PROVE  ParseInv'
<1> USE DEF Inv, ParseInv
<1>0. CommandLineTypeOK /\ at \in Nat \ {0} /\ Len(args) \in Nat /\ args \in Seq(Words)
  BY DEF CommandLineTypeOK
<1>1. CASE Answer \/ Refuse
  <2>1. UNCHANGED <<args, at>> /\ at \in Options /\ Ends(at) /\ pc' = "exit"
    BY <1>0, <1>1 DEF Answer, Refuse, Reading, Exit, Options, Ends
  <2>2. CASE Answer
    <3>1. ~Wrong(at)
      BY <2>2 DEF Answer, Wrong, Help, Version, Valued
    <3>2. (args[at] \in Help /\ command' = "help") \/ (args[at] \in Version /\ command' = "version")
      BY <2>2 DEF Answer
    <3> QED  BY <2>1, <3>1, <3>2, Standing
  <2>3. CASE Refuse
    <3>1. Wrong(at) /\ command' = "error"
      BY <2>3 DEF Refuse
    <3> QED  BY <2>1, <3>1, Standing
  <2> QED  BY <1>1, <2>2, <2>3
<1>2. CASE NoPreload \/ TakeValue
  <2>1. /\ at <= Len(args) /\ IsOption(at) /\ args' = args /\ ~Ends(at)
        /\ UNCHANGED <<pc, command, cwd>> /\ pc = "parse"
        /\ \/ args[at] \notin Valued /\ at' = at + 1
           \/ args[at] \in Valued /\ at' = at + 2
    BY <1>0, <1>2 DEF NoPreload, TakeValue, Reading, Ends, Help, Version, Valued
  <2>2. IsOption(at)' /\ Passed' = Passed \cup {at} /\ \A i : Ends(i)' <=> Ends(i)
    BY <1>0, <2>1, Moving
  <2> QED  BY <2>1, <2>2
<1>3. CASE AllRead \/ Canonicalize \/ PathRefused \/ ChangeDirectory \/ RunFails \/ poly_initialize
  <2>1. UNCHANGED <<args, at>>
    BY <1>3 DEF AllRead, Canonicalize, PathRefused, ChangeDirectory, RunFails, poly_initialize
  <2>2. pc = "parse" => AllRead /\ at = Len(args) + 1
    BY <1>0, <1>3 DEF AllRead, Canonicalize, PathRefused, ChangeDirectory, RunFails,
                      poly_initialize, CommandLineTypeOK
  <2> QED
    BY <1>3, <2>1, <2>2, Standing
       DEF AllRead, Canonicalize, PathRefused, ChangeDirectory, RunFails, poly_initialize, Exit
<1>4. CASE Done \/ UNCHANGED vars
  <2>1. UNCHANGED <<args, at, pc, command, cwd>>
    BY <1>4 DEF Done, vars
  <2> QED  BY <2>1, Standing
<1> QED
  BY <1>1, <1>2, <1>3, <1>4 DEF Next
-----------------------------------------------------------------------------
\* The overrides, in order.

\* A rank is a position in a list that holds as many elements as there are.
LEMMA Ranked ==
  ASSUME NEW G, IsFiniteSet(G), G \subseteq Nat, NEW i \in G
  PROVE  /\ Cardinality(G) \in Nat
         /\ Cardinality({j \in G : j <= i}) \in 1..Cardinality(G)
<1> DEFINE below == {j \in G : j <= i}
<1>1. below \subseteq G /\ i \in below
  OBVIOUS
<1> HIDE DEF below
<1>2. IsFiniteSet(below) /\ Cardinality(below) <= Cardinality(G)
  BY <1>1, FS_Subset
<1>3. Cardinality(below) \in Nat /\ Cardinality(G) \in Nat
  BY <1>2, FS_CardinalityType
<1>4. Cardinality(below) # 0
  BY <1>1, <1>2, FS_EmptySet
<1>5. Cardinality(below) \in 1..Cardinality(G)
  BY <1>2, <1>3, <1>4
<1> QED  BY <1>3, <1>5 DEF below

\* The options passed are finitely many, and come before the next.
LEMMA PassedFinite ==
  ASSUME CommandLineTypeOK
  PROVE  IsFiniteSet(Given(Passed)) /\ \A i \in Given(Passed) : i \in Nat /\ i < at
<1>1. Len(args) \in Nat /\ IsFiniteSet(1..Len(args))
  BY FS_Interval DEF CommandLineTypeOK
<1>2. \A i \in Given(Passed) : i \in 1..Len(args) /\ i < at
  BY DEF Given, Passed, Options
<1>3. Given(Passed) \subseteq 1..Len(args)
  BY <1>2
<1>4. \A i \in Given(Passed) : i \in Nat /\ i < at
  BY <1>1, <1>2
<1> QED  BY <1>1, <1>3, <1>4, FS_Subset

\* An override read last has the last rank, and the others keep theirs.
LEMMA InOrderDefine ==
  ASSUME CommandLineTypeOK, InOrder(Passed), NEW p, p = at, args[p] = "-d", args' = args,
         Passed' = Passed \cup {p}, config'.defines = Append(config.defines, args[p + 1])
  PROVE  InOrder(Passed)'
<1> DEFINE G == Given(Passed)
<1>1. IsFiniteSet(G) /\ (\A i \in G : i \in Nat /\ i < p) /\ p \in Nat
  BY PassedFinite DEF CommandLineTypeOK
<1>2. Given(Passed)' = G \cup {p}
  BY DEF Given
<1>3. p \notin G
  BY <1>1
<1>4. config.defines \in Seq(SettingWords)
  BY DEF CommandLineTypeOK, Configs
<1>5. /\ Len(config.defines) = Cardinality(G)
      /\ \A i \in G : config.defines[Cardinality({j \in G : j <= i})] = args[i + 1]
  BY DEF InOrder
<1> HIDE DEF G
<1>6. Cardinality(G) \in Nat /\ Cardinality(G \cup {p}) = Cardinality(G) + 1
  BY <1>1, <1>3, FS_AddElement, FS_CardinalityType
<1>7. Len(config'.defines) = Cardinality(G) + 1
  BY <1>4, <1>5
<1>8. ASSUME NEW i \in G \cup {p}
      PROVE  config'.defines[Cardinality({j \in G \cup {p} : j <= i})] = args[i + 1]
  <2>1. CASE i = p
    <3>1. \A j \in G \cup {p} : j <= i
      BY <1>1, <2>1
    <3>2. {j \in G \cup {p} : j <= i} = G \cup {p}
      BY <3>1
    <3>3. config'.defines[Len(config.defines) + 1] = args[p + 1]
      BY <1>4
    <3> QED  BY <1>5, <1>6, <2>1, <3>2, <3>3
  <2>2. CASE i \in G
    <3>1. {j \in G \cup {p} : j <= i} = {j \in G : j <= i}
      BY <1>1, <2>2
    <3>2. Cardinality({j \in G : j <= i}) \in 1..Cardinality(G)
      BY <1>1, <2>2, Ranked
    <3> DEFINE n == Cardinality({j \in G : j <= i})
    <3>3. n \in 1..Len(config.defines) /\ config.defines[n] = args[i + 1]
      BY <1>5, <2>2, <3>2
    <3> HIDE DEF n
    <3>4. config'.defines[n] = config.defines[n]
      BY <1>4, <3>3
    <3> QED  BY <3>1, <3>3, <3>4 DEF n
  <2> QED  BY <2>1, <2>2
<1> QED  BY <1>2, <1>6, <1>7, <1>8 DEF InOrder

\* An option of another kind changes nothing about them.
LEMMA InOrderOther ==
  ASSUME InOrder(Passed), args' = args, Given(Passed)' = Given(Passed),
         config'.defines = config.defines
  PROVE  InOrder(Passed)'
BY DEF InOrder

LEMMA GivenOther ==
  ASSUME NEW p, args[p] # "-d", args' = args, Passed' = Passed \cup {p}
  PROVE  Given(Passed)' = Given(Passed)
BY DEF Given

-----------------------------------------------------------------------------
\* What the fields hold.

\* An option with a value: the field that belongs to it.
LEMMA KnownTakeValue ==
  ASSUME Inv, TakeValue
  PROVE  Known'
<1>0. PICK p, o, w : p = at /\ o = args[at] /\ w = args[at + 1]
  OBVIOUS
<1>1. /\ at \in Nat \ {0} /\ at <= Len(args) /\ ~Wrong(at) /\ o \in Valued
      /\ args' = args /\ at' = at + 2 /\ config' = With(config, o, w)
      /\ IsOption(at) /\ config \in Configs
  BY <1>0 DEF Inv, CommandLineTypeOK, ParseInv, TakeValue, Reading
<1>2. Passed' = Passed \cup {p}
  BY <1>0, <1>1, Moving DEF Inv
<1>3. Acceptable(o, w)
  BY <1>0, <1>1 DEF Wrong
<1>4. p \in Nat /\ p = at /\ args[p] = o
  BY <1>0, <1>1
<1>5. \A q : /\ o = q => p \in Passed' /\ LastPassed(q, p)' /\ ~NonePassed(q)'
             /\ o # q => /\ NonePassed(q)' <=> NonePassed(q)
                         /\ \A i : LastPassed(q, i) => LastPassed(q, i)'
  <2>1. p = at /\ at \in Nat /\ args' = args /\ args[p] = o
    BY <1>1, <1>4
  <2> QED  BY <2>1, <1>2, Latest
<1>6. args'[p + 1] = w /\ \A i : args'[i + 1] = args[i + 1]
  BY <1>0, <1>1
<1>7. o # "--no-preload" /\ \A i \in Passed : i \in Passed'
  BY <1>1, <1>2 DEF Valued
<1>8. Known
  BY DEF Inv
<1>9. \/ NonePassed("--workers")' /\ config'.workers = Cpus
      \/ \E i \in Passed' : LastPassed("--workers", i)' /\ config'.workers = Number[args'[i + 1]]
  <2>1. CASE o = "--workers"
    <3>1. config'.workers = Number[w]
      BY <1>1, <2>1 DEF With, Configs
    <3>2. p \in Passed' /\ LastPassed("--workers", p)'
      BY <1>5, <2>1
    <3> QED  BY <1>6, <3>1, <3>2
  <2>2. CASE o # "--workers"
    <3>1. config'.workers = config.workers
      BY <1>1, <2>2 DEF With, Configs
    <3> QED  BY <1>5, <1>6, <1>7, <1>8, <2>2, <3>1 DEF Known
  <2> QED  BY <2>1, <2>2
<1>10. \/ NonePassed("--request-timeout")' /\ config'.timeout = 30
       \/ \E i \in Passed' :
            LastPassed("--request-timeout", i)' /\ config'.timeout = Number[args'[i + 1]]
  <2>1. CASE o = "--request-timeout"
    <3>1. config'.timeout = Number[w]
      BY <1>1, <2>1 DEF With, Configs
    <3>2. p \in Passed' /\ LastPassed("--request-timeout", p)'
      BY <1>5, <2>1
    <3> QED  BY <1>6, <3>1, <3>2
  <2>2. CASE o # "--request-timeout"
    <3>1. config'.timeout = config.timeout
      BY <1>1, <2>2 DEF With, Configs
    <3> QED  BY <1>5, <1>6, <1>7, <1>8, <2>2, <3>1 DEF Known
  <2> QED  BY <2>1, <2>2
<1>11. \/ NonePassed("--listen")' /\ config'.listen = "127.0.0.1:9000"
       \/ \E i \in Passed' :
            /\ LastPassed("--listen", i)' /\ config'.listen = args'[i + 1]
            /\ Endpoint[config'.listen] \in UsableEndpoints
  <2>1. CASE o = "--listen"
    <3>1. config'.listen = w
      BY <1>1, <2>1 DEF With, Configs
    <3>2. Endpoint[w] \in UsableEndpoints
      BY <1>3, <2>1 DEF Acceptable, UsableEndpoints
    <3>3. p \in Passed' /\ LastPassed("--listen", p)'
      BY <1>5, <2>1
    <3> QED  BY <1>6, <3>1, <3>2, <3>3
  <2>2. CASE o # "--listen"
    <3>1. config'.listen = config.listen
      BY <1>1, <2>2 DEF With, Configs
    <3> QED  BY <1>5, <1>6, <1>7, <1>8, <2>2, <3>1 DEF Known
  <2> QED  BY <2>1, <2>2
<1>12. config'.preload <=> NonePassed("--no-preload")'
  <2>1. config'.preload = config.preload
    BY <1>1 DEF With, Configs
  <2> QED  BY <1>5, <1>7, <1>8, <2>1 DEF Known
<1>13. InOrder(Passed)'
  <2>1. InOrder(Passed) /\ CommandLineTypeOK /\ p = at /\ args[p] = o /\ args[p + 1] = w
    BY <1>0, <1>8 DEF Known, Inv
  <2>2. CASE o = "-d"
    <3>1. config'.defines = Append(config.defines, w)
      BY <1>1, <2>2 DEF With, WithDefine, Configs
    <3>2. args[p] = "-d" /\ config'.defines = Append(config.defines, args[p + 1]) /\ args' = args
      BY <1>1, <2>1, <2>2, <3>1
    <3> QED  BY <1>2, <2>1, <3>2, InOrderDefine
  <2>3. CASE o # "-d"
    <3>1. config'.defines = config.defines
      BY <1>1, <2>3 DEF With, Configs, Valued
    <3> QED  BY <1>1, <1>2, <2>1, <2>3, <3>1, GivenOther, InOrderOther
  <2> QED  BY <2>2, <2>3
<1> QED  BY <1>9, <1>10, <1>11, <1>12, <1>13 DEF Known

LEMMA KnownNoPreload ==
  ASSUME Inv, NoPreload
  PROVE  Known'
<1>0. PICK p : p = at
  OBVIOUS
<1>1. /\ at \in Nat \ {0} /\ at <= Len(args) /\ args[at] = "--no-preload" /\ args[at] \notin Valued
      /\ args' = args /\ at' = at + 1 /\ config' = [config EXCEPT !.preload = FALSE]
      /\ IsOption(at) /\ config \in Configs
  BY DEF Inv, CommandLineTypeOK, ParseInv, NoPreload, Reading, Valued
<1>2. Passed' = Passed \cup {p}
  BY <1>0, <1>1, Moving DEF Inv
<1>3. p \in Nat /\ p = at
  BY <1>0, <1>1
<1>4. \A q : /\ args[p] = q => p \in Passed' /\ LastPassed(q, p)' /\ ~NonePassed(q)'
             /\ args[p] # q => /\ NonePassed(q)' <=> NonePassed(q)
                               /\ \A i : LastPassed(q, i) => LastPassed(q, i)'
  <2>1. p = at /\ at \in Nat /\ args' = args
    BY <1>1, <1>3
  <2> QED  BY <2>1, <1>2, Latest
<1>5. /\ config'.workers = config.workers /\ config'.timeout = config.timeout
      /\ config'.listen = config.listen /\ config'.preload = FALSE
      /\ config'.defines = config.defines
  BY <1>1 DEF Configs
<1>6. \A i \in Passed : i \in Passed' /\ args'[i + 1] = args[i + 1]
  BY <1>1, <1>2
<1>7. args[p] = "--no-preload"
  BY <1>0, <1>1
<1>8. ~NonePassed("--no-preload")'
  BY <1>4, <1>7
<1>9. \A q \in {"--workers", "--request-timeout", "--listen"} :
        /\ NonePassed(q)' <=> NonePassed(q)
        /\ \A i : LastPassed(q, i) => LastPassed(q, i)'
  BY <1>4, <1>7
<1>10. InOrder(Passed)'
  <2>1. args' = args /\ args[p] # "-d" /\ InOrder(Passed)
    BY <1>1, <1>7 DEF Inv, Known
  <2> QED  BY <1>2, <1>5, <2>1, GivenOther, InOrderOther
<1> QED  BY <1>5, <1>6, <1>8, <1>9, <1>10 DEF Inv, Known

LEMMA KnownStep ==
  ASSUME Inv, [Next]_vars
  PROVE  Known'
<1>1. CASE TakeValue
  BY <1>1, KnownTakeValue
<1>2. CASE NoPreload
  BY <1>2, KnownNoPreload
<1>3. CASE ~TakeValue /\ ~NoPreload
  <2>1. UNCHANGED <<args, at>>
    BY <1>3 DEF Next, Answer, Refuse, AllRead, Canonicalize, PathRefused, ChangeDirectory,
                RunFails, poly_initialize, Done, vars
  <2>2. config \in Configs
    BY DEF Inv, CommandLineTypeOK
  <2>3. /\ config'.workers = config.workers /\ config'.timeout = config.timeout
        /\ config'.listen = config.listen /\ config'.preload = config.preload
        /\ config'.defines = config.defines
    BY <1>3, <2>2 DEF Next, Answer, Refuse, AllRead, Canonicalize, PathRefused, ChangeDirectory,
                RunFails, poly_initialize, Done, vars, Configs
  <2>4. InOrder(Passed)'
    <3>1. Given(Passed)' = Given(Passed) /\ args' = args
      BY <2>1, Standing DEF Given
    <3> QED  BY <2>3, <3>1, InOrderOther DEF Inv, Known
  <2> QED  BY <2>1, <2>3, <2>4, Standing DEF Inv, Known
<1> QED  BY <1>1, <1>2, <1>3

\* -c and --root as they are written, until parse resolves them.
LEMMA PathsTakeValue ==
  ASSUME Inv, TakeValue
  PROVE  PathsKnown'
<1>0. PICK p, o, w : p = at /\ o = args[at] /\ w = args[at + 1]
  OBVIOUS
<1>1. /\ at \in Nat \ {0} /\ at <= Len(args) /\ o \in Valued
      /\ args' = args /\ at' = at + 2 /\ config' = With(config, o, w)
      /\ IsOption(at) /\ config \in Configs /\ pc = "parse" /\ pc' = pc
  BY <1>0 DEF Inv, CommandLineTypeOK, ParseInv, TakeValue, Reading
<1>2. Passed' = Passed \cup {p}
  BY <1>0, <1>1, Moving DEF Inv
<1>3. \A q : /\ o = q => p \in Passed' /\ LastPassed(q, p)' /\ ~NonePassed(q)'
             /\ o # q => /\ NonePassed(q)' <=> NonePassed(q)
                         /\ \A i : LastPassed(q, i) => LastPassed(q, i)'
  <2>1. p = at /\ at \in Nat /\ args' = args /\ args[p] = o
    BY <1>0, <1>1
  <2> QED  BY <2>1, <1>2, Latest
<1>4. /\ args'[p + 1] = w
      /\ \A i \in Passed : i \in Passed' /\ args'[i + 1] = args[i + 1]
  BY <1>0, <1>1, <1>2
<1>5. \A x : Kept(x) = x
  BY <1>1 DEF Kept
<1>6. /\ \/ NonePassed("-c") /\ config.ini = NoPlace
         \/ \E i \in Passed : LastPassed("-c", i) /\ config.ini = PathOf(args[i + 1])
      /\ \/ NonePassed("--root") /\ config.root = Place("here", ".")
         \/ \E i \in Passed : LastPassed("--root", i) /\ config.root = PathOf(args[i + 1])
  BY <1>1, <1>5 DEF Inv, PathsKnown
<1>7. \/ NonePassed("-c")' /\ config'.ini = NoPlace
      \/ \E i \in Passed' : LastPassed("-c", i)' /\ config'.ini = PathOf(args'[i + 1])
  <2>1. CASE o = "-c"
    <3>1. config'.ini = PathOf(w)
      BY <1>1, <2>1 DEF With, Configs
    <3>2. p \in Passed' /\ LastPassed("-c", p)'
      BY <1>3, <2>1
    <3> QED  BY <1>4, <3>1, <3>2
  <2>2. CASE o # "-c"
    <3>1. config'.ini = config.ini
      BY <1>1, <2>2 DEF With, Configs
    <3> QED  BY <1>3, <1>4, <1>6, <2>2, <3>1
  <2> QED  BY <2>1, <2>2
<1>8. \/ NonePassed("--root")' /\ config'.root = Place("here", ".")
      \/ \E i \in Passed' : LastPassed("--root", i)' /\ config'.root = PathOf(args'[i + 1])
  <2>1. CASE o = "--root"
    <3>1. config'.root = PathOf(w)
      BY <1>1, <2>1 DEF With, Configs
    <3>2. p \in Passed' /\ LastPassed("--root", p)'
      BY <1>3, <2>1
    <3> QED  BY <1>4, <3>1, <3>2
  <2>2. CASE o # "--root"
    <3>1. config'.root = config.root
      BY <1>1, <2>2 DEF With, Configs
    <3> QED  BY <1>3, <1>4, <1>6, <2>2, <3>1
  <2> QED  BY <2>1, <2>2
<1> QED  BY <1>1, <1>7, <1>8 DEF PathsKnown, Kept
LEMMA PathsNoPreload ==
  ASSUME Inv, NoPreload
  PROVE  PathsKnown'
<1>0. PICK p : p = at
  OBVIOUS
<1>1. /\ at \in Nat \ {0} /\ at <= Len(args) /\ args[at] = "--no-preload" /\ args[at] \notin Valued
      /\ args' = args /\ at' = at + 1 /\ config' = [config EXCEPT !.preload = FALSE]
      /\ IsOption(at) /\ config \in Configs /\ pc = "parse" /\ pc' = pc
  BY DEF Inv, CommandLineTypeOK, ParseInv, NoPreload, Reading, Valued
<1>2. Passed' = Passed \cup {p}
  BY <1>0, <1>1, Moving DEF Inv
<1>3. p = at /\ at \in Nat /\ args' = args /\ args[p] = "--no-preload"
  BY <1>0, <1>1
<1>4. \A q \in {"-c", "--root"} :
        /\ NonePassed(q)' <=> NonePassed(q)
        /\ \A i : LastPassed(q, i) => LastPassed(q, i)'
  BY <1>2, <1>3, Latest
<1>5. config'.ini = config.ini /\ config'.root = config.root
  BY <1>1 DEF Configs
<1>6. \A i \in Passed : i \in Passed' /\ args'[i + 1] = args[i + 1]
  BY <1>1, <1>2
<1> QED  BY <1>1, <1>4, <1>5, <1>6 DEF Inv, PathsKnown, Kept

LEMMA PathsStep ==
  ASSUME Inv, [Next]_vars
  PROVE  PathsKnown'
<1>1. CASE TakeValue
  BY <1>1, PathsTakeValue
<1>2. CASE NoPreload
  BY <1>2, PathsNoPreload
<1>3. CASE pc' = "exit"
  BY <1>3 DEF PathsKnown
<1>4. CASE Canonicalize
  <2>1. /\ UNCHANGED <<args, at>> /\ pc = "paths" /\ pc' = "run" /\ cwd = "shell"
        /\ config'.root = Resolved(config.root, "shell")
        /\ config'.ini = Resolved(config.ini, "shell")
    BY <1>4 DEF Canonicalize, Inv, CommandLineTypeOK, Configs, ParseInv
  <2>2. Resolved(NoPlace, "shell") = NoPlace
    BY DEF Resolved, NoPlace, Place
  <2> QED  BY <2>1, <2>2, Standing DEF Inv, PathsKnown, Kept
<1>5. CASE ~TakeValue /\ ~NoPreload /\ ~Canonicalize /\ pc' # "exit"
  <2>1. UNCHANGED <<args, at, config>> /\ (pc' \in {"parse", "paths"} <=> pc \in {"parse", "paths"})
        /\ pc # "exit"
    BY <1>5 DEF Next, Answer, Refuse, AllRead, PathRefused, ChangeDirectory,
                RunFails, poly_initialize, Done, vars, Exit
  <2>2. UNCHANGED <<args, at>>
    BY <2>1
  <2>3. PathsKnown
    BY DEF Inv
  <2> QED  BY <2>1, <2>2, <2>3, Standing DEF PathsKnown, Kept
<1> QED  BY <1>1, <1>2, <1>3, <1>4, <1>5
-----------------------------------------------------------------------------
\* The settings PHP started with, and the theorems.

\* Behind the loop every option has been passed.
LEMMA AllPassed ==
  ASSUME Inv, command = "serve"
  PROVE  /\ Passed = Options
         /\ \A o : NonePassed(o) <=> Absent(o)
         /\ \A o, i : LastPassed(o, i) <=> LastOf(o, i)
<1>1. at = Len(args) + 1 /\ Len(args) \in Nat
  BY DEF Inv, CommandLineTypeOK, ParseInv
<1>2. Passed = Options
  BY <1>1 DEF Passed, Options
<1> QED  BY <1>2 DEF NonePassed, Absent, LastPassed, LastOf

LEMMA EffectiveKept ==
  ASSUME UNCHANGED config, NEW k
  PROVE  Effective(file, k)' = Effective(file', k)
<1>1. config' = config /\ ini_defaults' = ini_defaults /\ Overrides(k)' = Overrides(k)
  BY DEF ini_defaults, Overrides
<1> QED  BY <1>1 DEF Effective

LEMMA PreloadStep ==
  ASSUME Inv, [Next]_vars
  PROVE  PreloadAsAsked'
<1> SUFFICES ASSUME pc' = "started" PROVE PreloadAsAsked'
  BY DEF PreloadAsAsked
<1>1. CASE poly_initialize
  <2>1. /\ UNCHANGED <<args, at>> /\ UNCHANGED config /\ pc = "initialize"
        /\ Minit(file')
    BY <1>1 DEF poly_initialize, Exit
  <2>2. command = "serve"
    BY <2>1 DEF Inv, CommandLineTypeOK, ParseInv
  <2>3. \A k : Effective(file, k)' = Effective(file', k)
    BY <2>1, EffectiveKept
  <2>4. \A o : Absent(o)' <=> Absent(o)
    BY <2>1, Standing DEF Absent
  <2>5. config.preload <=> Absent("--no-preload")
    BY <2>2, AllPassed DEF Inv, Known
  <2>6. ini_defaults["opcache.preload"] = IF config.preload THEN "helper" ELSE "empty"
    BY DEF ini_defaults, Keys
  <2> QED  BY <2>1, <2>3, <2>4, <2>5, <2>6 DEF Minit, PreloadAsAsked
<1>2. CASE Done \/ UNCHANGED vars
  <2>1. UNCHANGED <<args, at>> /\ UNCHANGED config /\ file' = file /\ pc = "started"
    BY <1>2 DEF Done, vars
  <2>2. \A k : Effective(file, k)' = Effective(file, k)
    BY <2>1, EffectiveKept
  <2>3. \A o : Absent(o)' <=> Absent(o)
    BY <2>1, Standing DEF Absent
  <2> QED  BY <2>1, <2>2, <2>3 DEF Inv, PreloadAsAsked
<1>3. ~poly_initialize /\ ~Done /\ ~UNCHANGED vars => FALSE
  BY DEF Next, Answer, Refuse, NoPreload, TakeValue, AllRead, Canonicalize, PathRefused,
         ChangeDirectory, RunFails, Exit, Reading
<1> QED  BY <1>1, <1>2, <1>3

\* The inductive invariant of the start.
THEOREM CommandLineInvariance == Spec => []Inv
<1>1. Init => Inv
  BY InvInit
<1>2. Inv /\ [Next]_vars => Inv'
  BY TypingStep, ParseStep, KnownStep, PathsStep, PreloadStep DEF Inv
<1> QED  BY <1>1, <1>2, PTL DEF Spec

\* parse: the first option that is an error or asks for help or the version
\* decides, for every command line.
THEOREM ParseDecides == Spec => []FirstWordDecides
<1>1. Inv => FirstWordDecides
  <2> SUFFICES ASSUME Inv PROVE FirstWordDecides
    OBVIOUS
  <2>1. command = "serve" => \A i \in Options : ~Ends(i)
    BY AllPassed DEF Inv, ParseInv
  <2>2. ASSUME command \in {"help", "version", "error"}
        PROVE  \A j \in Options : Ends(j) => at <= j
    BY <2>2 DEF Inv, ParseInv, CommandLineTypeOK, Passed, Options
  <2>3. command \in {"help", "version", "error"} =>
          /\ at \in Options /\ Ends(at)
          /\ command = "error" <=> Wrong(at)
          /\ command = "help" => args[at] \in Help
    BY DEF Inv, ParseInv
  <2> QED  BY <2>1, <2>2, <2>3 DEF FirstWordDecides
<1> QED  BY <1>1, CommandLineInvariance, PTL

\* parse: the last value of a repeated option counts, for every command line.
THEOREM ParseKeepsLast == Spec => []LastOptionCounts
<1>1. Inv => LastOptionCounts
  BY AllPassed DEF Inv, Known, LastOptionCounts
<1> QED  BY <1>1, CommandLineInvariance, PTL

\* parse: every override is kept, in the order given, however many there are.
THEOREM ParseKeepsDefines == Spec => []DefinesInOrder
<1>1. Inv => DefinesInOrder
  BY AllPassed DEF Inv, Known, DefinesInOrder
<1> QED  BY <1>1, CommandLineInvariance, PTL

\* run: what the command line named is found where it was after the change of
\* directory, whatever the paths.
THEOREM NamesAreKept == Spec => []NamesSurviveChdir
<1>1. Inv => NamesSurviveChdir
  <2> SUFFICES ASSUME Inv, pc \in {"initialize", "started"} PROVE NamesSurviveChdir
    BY DEF NamesSurviveChdir
  <2>1. command = "serve" /\ pc \notin {"parse", "paths", "exit"} /\ cwd = "root"
    BY DEF Inv, CommandLineTypeOK, ParseInv
  <2>2. \A p : Resolved(Resolved(p, "shell"), cwd) = Resolved(p, "shell")
    BY DEF Resolved, Place
  <2>3. Kept(Place("here", ".")) = Place("shell", ".") /\ Resolved(Place("shell", "."), cwd) = Place("shell", ".")
    BY <2>1 DEF Kept, Resolved, Place
  <2>4. \A p : Kept(p) = Resolved(p, "shell")
    BY <2>1 DEF Kept
  <2>5. \/ Absent("-c") /\ config.ini = NoPlace
        \/ \E i \in Options : LastOf("-c", i) /\ config.ini = Resolved(PathOf(args[i + 1]), "shell")
    BY <2>1, <2>4, AllPassed DEF Inv, PathsKnown
  <2>6. \/ Absent("--root") /\ config.root = Place("shell", ".")
        \/ \E i \in Options : LastOf("--root", i) /\ config.root = Resolved(PathOf(args[i + 1]), "shell")
    BY <2>1, <2>3, <2>4, AllPassed DEF Inv, PathsKnown
  <2>7. ASSUME config.listen \in Words
        PROVE  Resolved(SocketPath(config.listen), cwd) = Resolved(SocketPath(config.listen), "shell")
    <3>1. Endpoint[config.listen] # "relative"
      BY <2>7, WordsAreRead DEF Inv, Known, UsableEndpoints, Defaults
    <3> QED  BY <3>1 DEF SocketPath, Resolved, Place, NoPlace
  <2> QED  BY <2>2, <2>3, <2>5, <2>6, <2>7 DEF NamesSurviveChdir
<1> QED  BY <1>1, CommandLineInvariance, PTL

\* MINIT: a PHP that has started preloads as the command line asked, whatever
\* php.ini and the overrides say.
THEOREM PreloadingIsOwned == Spec => []PreloadAsAsked
<1>1. Inv => PreloadAsAsked
  BY DEF Inv
<1> QED  BY <1>1, CommandLineInvariance, PTL
=============================================================================
