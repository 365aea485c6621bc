--------------------------- MODULE VoiceOrderProofs ---------------------------
(***************************************************************************)
(* Theorems about VoiceOrder, for every set of utterances, every           *)
(* catalogue, every queue depth and every length of the talk.              *)
(***************************************************************************)
EXTENDS VoiceOrder, SequenceTheorems, TLAPS

\* The parameters, with their types.
LEMMA ParametersFact ==
    /\ Depth \in Nat \ {0} /\ MaxSaid \in Nat
    /\ \A r \in Recipes : PressesOf[r] \in Nat
    /\ \A u \in Utterances : /\ u.recipe \in Catalog \cup {NoRecipe}
                             /\ "recipe" \in u.words => u.recipe \in Catalog
BY VoiceAssumption DEF VoiceAssumption

\* Utterances are numbers other than 0.
LEMMA SaidFact == \A i \in Said : i \in Nat /\ i # 0 /\ i \in 0 .. MaxSaid
BY ParametersFact DEF Said

-----------------------------------------------------------------------------
(* Queues.                                                                 *)

\* An element of a queue and its place.
LEMMA PlaceFact ==
    ASSUME NEW S, NEW q \in Seq(S)
    PROVE  /\ Len(q) \in Nat /\ DOMAIN q = 1 .. Len(q) /\ Range(q) \subseteq S
           /\ \A x \in Range(q) : \E j \in DOMAIN q : x = q[j]
           /\ \A j \in DOMAIN q : q[j] \in Range(q)
<1>1. Len(q) \in Nat /\ DOMAIN q = 1 .. Len(q) /\ \A j \in DOMAIN q : q[j] \in S
    BY LenProperties
<1> QED
    BY <1>1 DEF Range

\* The head of a queue and what is behind it.
LEMMA TakeFact ==
    ASSUME NEW S, NEW q \in Seq(S), q # <<>>
    PROVE  /\ 1 \in DOMAIN q /\ Head(q) = q[1] /\ Head(q) \in S /\ Tail(q) \in Seq(S)
           /\ Len(Tail(q)) = Len(q) - 1 /\ DOMAIN Tail(q) = 1 .. Len(q) - 1
           /\ \A j \in DOMAIN Tail(q) : j + 1 \in DOMAIN q /\ Tail(q)[j] = q[j + 1]
           /\ Range(q) = {Head(q)} \cup Range(Tail(q))
           /\ Len(q) <= Depth => Len(Tail(q)) <= Depth
<1>1. Len(q) \in Nat \ {0} /\ DOMAIN q = 1 .. Len(q)
    BY EmptySeq, LenProperties
<1>2. /\ Head(q) \in S /\ Tail(q) \in Seq(S) /\ Len(Tail(q)) = Len(q) - 1
      /\ \A i \in 1 .. Len(Tail(q)) : Tail(q)[i] = q[i + 1]
    BY HeadTailProperties
<1>3. Head(q) = q[1] /\ DOMAIN Tail(q) = 1 .. Len(q) - 1
    BY <1>1, <1>2, LenProperties
<1>4. \A j \in DOMAIN Tail(q) : j + 1 \in DOMAIN q /\ Tail(q)[j] = q[j + 1]
    BY <1>1, <1>2, <1>3
<1>5. \A j \in DOMAIN q : j = 1 \/ (j - 1 \in DOMAIN Tail(q) /\ q[j] = Tail(q)[j - 1])
    BY <1>1, <1>2, <1>3
<1>6. Range(q) = {Head(q)} \cup Range(Tail(q))
  <2>1. Range(q) \subseteq {Head(q)} \cup Range(Tail(q))
    <3> SUFFICES ASSUME NEW j \in DOMAIN q PROVE q[j] \in {Head(q)} \cup Range(Tail(q))
        BY DEF Range
    <3>1. CASE j = 1
        BY <1>3, <3>1
    <3>2. CASE j - 1 \in DOMAIN Tail(q) /\ q[j] = Tail(q)[j - 1]
        BY <3>2 DEF Range
    <3> QED
        BY <1>5, <3>1, <3>2
  <2>2. {Head(q)} \cup Range(Tail(q)) \subseteq Range(q)
      BY <1>1, <1>3, <1>4 DEF Range
  <2> QED
      BY <2>1, <2>2
<1>7. Len(q) <= Depth => Len(Tail(q)) <= Depth
  <2> DEFINE n == Len(q)
  <2>1. n \in Nat /\ Depth \in Nat
      BY <1>1, ParametersFact
  <2> HIDE DEF n
  <2>2. n <= Depth => n - 1 <= Depth
      BY <2>1
  <2> QED
      BY <1>2, <2>2 DEF n
<1> QED
    BY <1>1, <1>2, <1>3, <1>4, <1>6, <1>7

\* A message at the end of a queue.
LEMMA AppendFact ==
    ASSUME NEW S, NEW q \in Seq(S), NEW m \in S
    PROVE  /\ Append(q, m) \in Seq(S) /\ Len(Append(q, m)) = Len(q) + 1
           /\ DOMAIN Append(q, m) = 1 .. Len(q) + 1
           /\ \A j \in DOMAIN q : Append(q, m)[j] = q[j]
           /\ Append(q, m)[Len(q) + 1] = m
           /\ Range(Append(q, m)) = Range(q) \cup {m}
<1>1. Len(q) \in Nat /\ DOMAIN q = 1 .. Len(q)
    BY LenProperties
<1>2. /\ Append(q, m) \in Seq(S) /\ Len(Append(q, m)) = Len(q) + 1
      /\ \A j \in 1 .. Len(q) : Append(q, m)[j] = q[j]
      /\ Append(q, m)[Len(q) + 1] = m
    BY AppendProperties
<1>3. DOMAIN Append(q, m) = 1 .. Len(q) + 1
    BY <1>2, LenProperties
<1>4. \A j \in 1 .. Len(q) + 1 : j \in 1 .. Len(q) \/ j = Len(q) + 1
    BY <1>1
<1>5. 1 .. Len(q) \subseteq 1 .. Len(q) + 1 /\ Len(q) + 1 \in 1 .. Len(q) + 1
    BY <1>1
<1>6. Range(Append(q, m)) = Range(q) \cup {m}
  <2>1. Range(Append(q, m)) \subseteq Range(q) \cup {m}
      BY <1>1, <1>2, <1>3, <1>4 DEF Range
  <2>2. Range(q) \cup {m} \subseteq Range(Append(q, m))
      BY <1>1, <1>2, <1>3, <1>5 DEF Range
  <2> QED
      BY <2>1, <2>2
<1> QED
    BY <1>1, <1>2, <1>3, <1>6

\* A topic: the new message goes to its end, and a full one gives up its oldest.
LEMMA PushFact ==
    ASSUME NEW S, NEW q \in Seq(S), NEW m \in S, Len(q) <= Depth
    PROVE  /\ Push(q, m) \in Seq(S) /\ Len(Push(q, m)) <= Depth
           /\ Range(Push(q, m)) \subseteq Range(q) \cup {m} /\ m \in Range(Push(q, m))
           /\ Range(q) \subseteq Range(Push(q, m)) \cup Overrun(q) /\ Overrun(q) \subseteq Range(q)
           /\ \E d \in {0, 1} : \A j \in DOMAIN Push(q, m) :
                  \/ j < Len(Push(q, m)) /\ j + d \in DOMAIN q /\ Push(q, m)[j] = q[j + d]
                  \/ j = Len(Push(q, m)) /\ Push(q, m)[j] = m
<1>1. Len(q) \in Nat /\ Depth \in Nat \ {0} /\ DOMAIN q = 1 .. Len(q)
    BY LenProperties, ParametersFact
<1>2. CASE Len(q) < Depth
  <2>1. Push(q, m) = Append(q, m) /\ Overrun(q) = {}
      BY <1>2 DEF Push, Overrun
  <2>2. /\ Append(q, m) \in Seq(S) /\ Len(Append(q, m)) = Len(q) + 1 /\ DOMAIN Append(q, m) = 1 .. Len(q) + 1
        /\ \A j \in DOMAIN q : Append(q, m)[j] = q[j]
        /\ Append(q, m)[Len(q) + 1] = m
        /\ Range(Append(q, m)) = Range(q) \cup {m}
      BY AppendFact
  <2>3. Len(Append(q, m)) <= Depth
      BY <1>1, <1>2, <2>2
  <2>4. \A j \in DOMAIN Append(q, m) :
                  \/ j < Len(Append(q, m)) /\ j + 0 \in DOMAIN q /\ Append(q, m)[j] = q[j + 0]
                  \/ j = Len(Append(q, m)) /\ Append(q, m)[j] = m
      BY <1>1, <2>2
  <2> QED
      BY <2>1, <2>2, <2>3, <2>4
<1>3. CASE ~ (Len(q) < Depth)
  <2>1. q # <<>> /\ Len(q) = Depth
    <3> DEFINE n == Len(q)
    <3>1. n \in Nat /\ n <= Depth /\ ~ (n < Depth) /\ Depth \in Nat \ {0}
        BY <1>1, <1>3
    <3> HIDE DEF n
    <3>2. n = Depth /\ n # 0
        BY <3>1
    <3> QED
        BY <3>2, EmptySeq DEF n
  <2>2. Push(q, m) = Append(Tail(q), m) /\ Overrun(q) = {Head(q)}
      BY <1>3 DEF Push, Overrun
  <2> DEFINE t == Tail(q)
  <2>3. /\ t \in Seq(S) /\ Len(t) = Len(q) - 1 /\ DOMAIN t = 1 .. Len(q) - 1
        /\ \A j \in DOMAIN t : j + 1 \in DOMAIN q /\ t[j] = q[j + 1]
        /\ Range(q) = {Head(q)} \cup Range(t)
      BY <2>1, TakeFact
  <2> HIDE DEF t
  <2>4. /\ Append(t, m) \in Seq(S) /\ Len(Append(t, m)) = Len(t) + 1 /\ DOMAIN Append(t, m) = 1 .. Len(t) + 1
        /\ \A j \in DOMAIN t : Append(t, m)[j] = t[j]
        /\ Append(t, m)[Len(t) + 1] = m
        /\ Range(Append(t, m)) = Range(t) \cup {m}
      BY <2>3, AppendFact
  <2>5. Len(Append(t, m)) = Depth /\ Len(t) + 1 = Len(q)
      BY <1>1, <2>1, <2>3, <2>4
  <2>6. ASSUME NEW j \in DOMAIN Append(t, m)
        PROVE  \/ j < Len(Append(t, m)) /\ j + 1 \in DOMAIN q /\ Append(t, m)[j] = q[j + 1]
               \/ j = Len(Append(t, m)) /\ Append(t, m)[j] = m
    <3> DEFINE n == Len(t)
    <3>0. n \in Nat /\ DOMAIN t = 1 .. n /\ Len(Append(t, m)) = n + 1 /\ j \in 1 .. n + 1
        BY <2>3, <2>4, LenProperties
    <3> HIDE DEF n
    <3>1. j \in DOMAIN t \/ j = n + 1
        BY <3>0
    <3>2. CASE j \in DOMAIN t
      <4>1. j < Len(Append(t, m))
          BY <3>0, <3>2
      <4> QED
          BY <2>3, <2>4, <3>2, <4>1
    <3>3. CASE j = n + 1
        BY <2>4, <3>0, <3>3 DEF n
    <3> QED
        BY <3>1, <3>2, <3>3
  <2>7. /\ Push(q, m) = Append(t, m) /\ Len(Append(t, m)) <= Depth
        /\ Range(Append(t, m)) \subseteq Range(q) \cup {m} /\ m \in Range(Append(t, m))
        /\ Range(q) \subseteq Range(Append(t, m)) \cup Overrun(q) /\ Overrun(q) \subseteq Range(q)
      BY <1>1, <2>2, <2>3, <2>4, <2>5 DEF t
  <2> QED
      BY <2>4, <2>6, <2>7
<1> QED
    BY <1>2, <1>3

\* A topic of utterances stays in order: what is taken comes before the rest.
LEMMA IncreasingTail ==
    ASSUME NEW q \in Seq(Nat), q # <<>>, Increasing(q)
    PROVE  Increasing(Tail(q)) /\ \A x \in Range(Tail(q)) : Head(q) < x
<1>1. /\ 1 \in DOMAIN q /\ Head(q) = q[1] /\ Tail(q) \in Seq(Nat) /\ DOMAIN Tail(q) = 1 .. Len(q) - 1
      /\ \A j \in DOMAIN Tail(q) : j + 1 \in DOMAIN q /\ Tail(q)[j] = q[j + 1]
      /\ Len(q) \in Nat
    BY TakeFact, LenProperties
<1>2. \A i, j \in DOMAIN Tail(q) : i < j => i + 1 < j + 1
    BY <1>1
<1>3. \A j \in DOMAIN Tail(q) : 1 < j + 1
    BY <1>1
<1>4. Increasing(Tail(q))
    BY <1>1, <1>2 DEF Increasing
<1>5. \A x \in Range(Tail(q)) : Head(q) < x
  <2>1. \A j \in DOMAIN Tail(q) : q[1] < q[j + 1]
      BY <1>1, <1>3 DEF Increasing
  <2>2. \A j \in DOMAIN Tail(q) : Head(q) < Tail(q)[j]
      BY <1>1, <2>1
  <2> QED
      BY <2>2 DEF Range
<1> QED
    BY <1>4, <1>5

\* And what comes last is the greatest.
LEMMA IncreasingPush ==
    ASSUME NEW q \in Seq(Nat), NEW m \in Nat, Len(q) <= Depth, Increasing(q), \A x \in Range(q) : x < m
    PROVE  Increasing(Push(q, m))
<1>1. PICK d \in {0, 1} : \A j \in DOMAIN Push(q, m) :
                  \/ j < Len(Push(q, m)) /\ j + d \in DOMAIN q /\ Push(q, m)[j] = q[j + d]
                  \/ j = Len(Push(q, m)) /\ Push(q, m)[j] = m
    BY PushFact
<1>2. Push(q, m) \in Seq(Nat) /\ Len(Push(q, m)) \in Nat /\ DOMAIN Push(q, m) = 1 .. Len(Push(q, m))
    BY PushFact, LenProperties
<1> DEFINE p == Push(q, m)
<1> SUFFICES ASSUME NEW i \in DOMAIN p, NEW j \in DOMAIN p, i < j PROVE p[i] < p[j]
    BY DEF Increasing
<1> HIDE DEF p
<1>3. i \in Nat /\ j \in Nat /\ i < Len(p) /\ i + d < j + d
    BY <1>2 DEF p
<1>4. i + d \in DOMAIN q /\ p[i] = q[i + d]
    BY <1>1, <1>3 DEF p
<1>5. CASE j + d \in DOMAIN q /\ p[j] = q[j + d]
    BY <1>3, <1>4, <1>5 DEF Increasing
<1>6. CASE p[j] = m
    BY <1>4, <1>6 DEF Range
<1> QED
    BY <1>1, <1>5, <1>6 DEF p

-----------------------------------------------------------------------------
(* What the mapper makes of an utterance.                                  *)

\* The parser decides on something, for every utterance.
LEMMA ParseFact ==
    ASSUME NEW u \in Utterances
    PROVE  Parse(u) \subseteq Decisions /\ \A d \in Parse(u) : d.intent # "none"
<1>1. \A r \in Recipes : Order(r) \in Decisions /\ Order(r).intent # "none"
    BY ParametersFact DEF Order, Decisions
<1>2. \A i \in {"recovery", "cancel", "confirm", "unknown"} : Speaks(i) \in Decisions /\ Speaks(i).intent # "none"
    BY DEF Speaks, Decisions, Spoken
<1>3. /\ Catalog \subseteq Recipes /\ Mix \in Recipes /\ Colors \in Recipes
      /\ "recipe" \in u.words => u.recipe \in Recipes
    BY ParametersFact DEF Recipes
<1> HIDE DEF Recipes, Decisions
<1> QED
    BY <1>1, <1>2, <1>3 DEF Parse

\* And so does the model, which the parser overrules where it hears a cancellation.
LEMMA AnswerFact ==
    ASSUME NEW u \in Utterances
    PROVE  /\ ParseAndAnswer(u) \subseteq Decisions /\ \A d \in ParseAndAnswer(u) : d.intent # "none"
           /\ Parse(u) = {Speaks("cancel")} => ParseAndAnswer(u) = {Speaks("cancel")}
<1>1. Answers \subseteq Decisions /\ \A d \in Answers : d.intent # "none"
  <2>1. \A r \in Recipes : Order(r) \in Decisions /\ Order(r).intent # "none"
      BY ParametersFact DEF Order, Decisions
  <2>2. \A i \in Spoken \cup {"unknown"} : Speaks(i) \in Decisions /\ Speaks(i).intent # "none"
      BY DEF Speaks, Decisions, Spoken
  <2>3. [Order(Mix) EXCEPT !.n = 0] \in Decisions /\ [Order(Mix) EXCEPT !.n = 0].intent # "none"
      BY DEF Order, Decisions
  <2> QED
      BY <2>1, <2>2, <2>3 DEF Answers
<1>2. Speaks("cancel").intent \in Spoken
    BY DEF Speaks, Spoken
<1>3. Parse(u) = {Speaks("cancel")} => ParseAndAnswer(u) = {Speaks("cancel")}
    BY <1>2 DEF ParseAndAnswer
<1>4. Parse(u) \subseteq Decisions /\ \A d \in Parse(u) : d.intent # "none"
    BY ParseFact
<1> QED
    BY <1>1, <1>3, <1>4 DEF ParseAndAnswer

\* What the mapper that listens may make of an utterance.
LEMMA HeardFact ==
    ASSUME NEW u \in Utterances, NEW d \in IF llm THEN ParseAndAnswer(u) ELSE Parse(u)
    PROVE  /\ d \in Decisions /\ d.intent # "none"
           /\ Parse(u) = {Speaks("cancel")} => d.intent = "cancel"
BY ParseFact, AnswerFact DEF Speaks

-----------------------------------------------------------------------------
(* The types.                                                              *)

\* The requests of an order, one for each of its presses.
LEMMA RequestsFact ==
    ASSUME NEW o \in Press, NEW r, r = RequestsOf(o)
    PROVE  /\ r \in Seq(Press) /\ Len(r) = o.n
           /\ \A k \in 1 .. o.n : r[k] = [id |-> o.id, n |-> k]
           /\ \A x \in Range(r) : x.id = o.id
<1>1. o.n \in Nat /\ o.id \in Said
    BY DEF Press
<1>2. r = [k \in 1 .. o.n |-> [id |-> o.id, n |-> k]] /\ \A k \in 1 .. o.n : [id |-> o.id, n |-> k] \in Press
    BY <1>1 DEF RequestsOf, Press
<1>3. r \in [1 .. o.n -> Press]
    BY <1>2
<1>4. r \in Seq(Press)
    BY <1>1, <1>3, SeqDef
<1>5. DOMAIN r = 1 .. o.n /\ Len(r) \in Nat /\ DOMAIN r = 1 .. Len(r)
    BY <1>2, <1>4, LenProperties
<1> DEFINE l == Len(r)
<1> HIDE DEF l
<1>6. l \in Nat /\ 1 .. l = 1 .. o.n
    BY <1>5 DEF l
<1>7. l = o.n
    BY <1>1, <1>6
<1>8. \A x \in Range(r) : x.id = o.id
    BY <1>2 DEF Range
<1> QED
    BY <1>2, <1>4, <1>7, <1>8 DEF l

\* The variables start with their types.
LEMMA TypeInit == Init => TypeOK
<1>1. <<>> \in Seq(Utterances) /\ <<>> \in Seq(Said) /\ <<>> \in Seq(Press) /\ Len(<<>>) = 0
    BY EmptySeq
<1>2. NoDecision \in Decisions /\ "none" \in Fates /\ MaxSaid \in Nat /\ Depth \in Nat
    BY ParametersFact DEF NoDecision, Decisions, Fates
<1>3. 0 <= MaxSaid /\ 0 <= Depth /\ 0 \in 0 .. MaxSaid
    BY <1>2
<1> SUFFICES ASSUME Init PROVE TypeOK
    OBVIOUS
<1>4. llm \in BOOLEAN /\ fresh \in BOOLEAN /\ old \in BOOLEAN
    BY DEF Init
<1>5. /\ said = <<>> /\ stt = <<>> /\ decisions = <<>> /\ confirmed = <<>> /\ queue = <<>> /\ pressed = <<>>
      /\ last = 0 /\ made = {} /\ lost = {}
    BY DEF Init
<1>6. heard \in [Said -> Decisions] /\ fate \in [Said -> Fates]
    BY <1>2 DEF Init
<1>7. /\ pending \in [id : 0 .. MaxSaid, n : Nat]
      /\ worker \in [pc : {"idle", "waits", "press", "abort"}, id : 0 .. MaxSaid, n : Nat]
    BY <1>3 DEF Init, None, Idle
<1> QED
    BY <1>1, <1>3, <1>4, <1>5, <1>6, <1>7 DEF TypeOK

\* And every step keeps them.
LEMMA TypeStep ==
    ASSUME TypeOK, TopicsInOrder, PendingIsLast, [Next]_vars
    PROVE  TypeOK'
<1>0. /\ said \in Seq(Utterances) /\ Len(said) \in Nat /\ Len(said) <= MaxSaid /\ MaxSaid \in Nat
      /\ stt \in Seq(Said) /\ Len(stt) <= Depth /\ decisions \in Seq(Said) /\ Len(decisions) <= Depth
      /\ confirmed \in Seq(Press) /\ Len(confirmed) <= Depth /\ queue \in Seq(Press)
      /\ pressed \in Seq(Press) /\ Depth \in Nat /\ pending \in [id : 0 .. MaxSaid, n : Nat]
      /\ heard \in [Said -> Decisions] /\ fate \in [Said -> Fates] /\ lost \subseteq Said
    BY ParametersFact, LenProperties DEF TypeOK
<1>1. CASE Say
  <2>1. PICK u \in Utterances : said' = Append(said, u)
      BY <1>1 DEF Say
  <2>2. Len(said) < MaxSaid /\ stt' = Push(stt, Len(said) + 1) /\ lost' = lost \cup Overrun(stt)
      BY <1>1 DEF Say
  <2>3. said' \in Seq(Utterances) /\ Len(said') = Len(said) + 1
      BY <1>0, <2>1, AppendFact
  <2>4. Len(said) + 1 \in Said /\ Len(said) + 1 <= MaxSaid
    <3> DEFINE n == Len(said)
    <3>1. n \in Nat /\ n < MaxSaid /\ MaxSaid \in Nat
        BY <1>0, <2>2
    <3> HIDE DEF n
    <3>2. n + 1 \in 1 .. MaxSaid /\ n + 1 <= MaxSaid
        BY <3>1
    <3> QED
        BY <3>2 DEF n, Said
  <2>5. stt' \in Seq(Said) /\ Len(stt') <= Depth /\ Overrun(stt) \subseteq Said
      BY <1>0, <2>2, <2>4, PushFact, PlaceFact
  <2> QED
      BY <1>0, <1>1, <2>2, <2>3, <2>4, <2>5 DEF Say, TypeOK, mapping, managing, pressing
<1>2. CASE Map
  <2>1. stt # <<>> /\ stt' = Tail(stt)
      BY <1>2 DEF Map
  <2> DEFINE i == Head(stt)
  <2>2. i \in Said /\ stt' \in Seq(Said)
      BY <1>0, <2>1, TakeFact
  <2>3. Len(stt') <= Depth
      BY <1>0, <2>1, TakeFact
  <2>6. said[i] \in Utterances
    <3> DEFINE n == Len(said)
    <3>1. i \in Range(stt)
        BY <1>0, <2>1, TakeFact
    <3>2. n \in Nat /\ i \in Nat /\ i # 0 /\ i <= n
        BY <1>0, <2>2, <3>1, SaidFact DEF TopicsInOrder
    <3> HIDE DEF i, n
    <3>3. i \in 1 .. n
        BY <3>2
    <3> QED
        BY <1>0, <3>3, LenProperties DEF n
  <2> HIDE DEF i
  <2>4. CASE Duplicate(i)
      BY <1>0, <1>2, <2>2, <2>3, <2>4 DEF Map, TypeOK, i, mapping, managing, pressing
  <2>5. CASE ~Duplicate(i)
    <3>1. PICK d \in (IF llm THEN ParseAndAnswer(said[i]) ELSE Parse(said[i])) :
                   /\ heard' = [heard EXCEPT ![i] = d]
                   /\ decisions' = Push(decisions, i) /\ lost' = lost \cup Overrun(decisions)
                   /\ last' = i /\ fresh' = ~llm /\ UNCHANGED llm
        BY <1>2, <2>5 DEF Map, i
    <3>2. decisions' \in Seq(Said) /\ Len(decisions') <= Depth /\ Overrun(decisions) \subseteq Said
        BY <1>0, <2>2, <3>1, PushFact, PlaceFact
    <3>3. d \in Decisions
        BY <2>6, <3>1, HeardFact
    <3> QED
        BY <1>0, <1>2, <2>2, <2>3, <3>1, <3>2, <3>3, SaidFact DEF Map, TypeOK, managing, pressing
  <2> QED
      BY <2>4, <2>5
<1>3. CASE WindowPasses
    BY <1>3 DEF WindowPasses, TypeOK, managing, pressing
<1>4. CASE OnDecision
  <2> DEFINE i == Head(decisions)
  <2>1. i \in Said /\ decisions' \in Seq(Said)
      BY <1>0, <1>4, TakeFact DEF OnDecision
  <2>2. Len(decisions') <= Depth
      BY <1>0, <1>4, TakeFact DEF OnDecision
  <2> HIDE DEF i
  <2>3. None \in [id : 0 .. MaxSaid, n : Nat]
      BY <1>0 DEF None
  <2>4. CASE heard[i].intent # "confirm"
    <3>1. Replace(i)
        BY <1>4, <2>4 DEF OnDecision, i
    <3>2. heard[i].n \in Nat /\ i \in 0 .. MaxSaid
        BY <1>0, <2>1, SaidFact DEF Decisions
    <3>3. pending' \in [id : 0 .. MaxSaid, n : Nat]
        BY <1>0, <2>3, <3>1, <3>2 DEF Replace
    <3>4. old' \in BOOLEAN
        BY <3>1 DEF Replace
    <3> QED
        BY <1>4, <2>1, <2>2, <3>1, <3>3, <3>4 DEF OnDecision, Replace, TypeOK, mapping, pressing
  <2>5. CASE heard[i].intent = "confirm"
    <3>1. Confirm(i)
        BY <1>4, <2>5 DEF OnDecision, i
    <3>2. pending' = None /\ old' = FALSE
        BY <3>1 DEF Confirm
    <3>3. CASE pending = None \/ old
        BY <1>4, <2>1, <2>2, <2>3, <3>1, <3>2, <3>3 DEF OnDecision, Confirm, TypeOK, mapping, pressing
    <3>4. CASE ~ (pending = None \/ old)
      <4>1. pending.id \in Said /\ pending \in Press
          BY <1>0, <3>4 DEF PendingIsLast, Press
      <4>2. confirmed' \in Seq(Press) /\ Len(confirmed') <= Depth
          BY <1>0, <3>1, <3>4, <4>1, PushFact DEF Confirm
      <4>3. made' \subseteq [order : Said, by : Said]
          BY <2>1, <3>1, <3>4, <4>1 DEF Confirm, TypeOK
      <4>4. fate' \in [Said -> Fates]
          BY <1>0, <3>1, <3>4 DEF Confirm, Fates
      <4>5. lost' \subseteq Said
          BY <1>0, <3>1, <3>4 DEF Confirm
      <4> QED
          BY <1>4, <2>1, <2>2, <2>3, <3>2, <4>2, <4>3, <4>4, <4>5 DEF OnDecision, TypeOK, mapping, pressing
    <3> QED
        BY <3>3, <3>4
  <2> QED
      BY <2>4, <2>5
<1>5. CASE PendingAges
    BY <1>5 DEF PendingAges, TypeOK, mapping, pressing
<1>6. CASE OnConfirmed
  <2> DEFINE o == Head(confirmed)
  <2>1. o \in Press /\ confirmed' \in Seq(Press)
      BY <1>0, <1>6, TakeFact DEF OnConfirmed
  <2>2. Len(confirmed') <= Depth
      BY <1>0, <1>6, TakeFact DEF OnConfirmed
  <2>3. /\ o.n = 0 => fate' = [fate EXCEPT ![o.id] = "blocked"] /\ UNCHANGED <<queue, worker>>
        /\ o.n # 0 => fate' = [fate EXCEPT ![o.id] = "queued"] /\ Enqueue(o)
      BY <1>6 DEF OnConfirmed
  <2> HIDE DEF o
  <2>4. fate' \in [Said -> Fates]
      BY <1>0, <2>3 DEF Fates
  <2>5. queue' \in Seq(Press)
    <3>1. queue \o RequestsOf(o) \in Seq(Press)
        BY <1>0, <2>1, RequestsFact, ConcatProperties
    <3> QED
        BY <1>0, <2>3, <3>1 DEF Enqueue
  <2>6. worker' \in [pc : {"idle", "waits", "press", "abort"}, id : 0 .. MaxSaid, n : Nat]
    <3>1. worker \in [pc : {"idle", "waits", "press", "abort"}, id : 0 .. MaxSaid, n : Nat] /\ 0 \in 0 .. MaxSaid
        BY <1>0 DEF TypeOK
    <3> QED
        BY <2>3, <3>1 DEF Enqueue, Idle
  <2> QED
      BY <1>6, <2>1, <2>2, <2>4, <2>5, <2>6 DEF OnConfirmed, TypeOK, mapping, managing
<1>7. CASE WorkerWaits
  <2>1. worker' = [Idle EXCEPT !.pc = "waits"] /\ 0 \in 0 .. MaxSaid
      BY <1>0, <1>7 DEF WorkerWaits
  <2>2. worker' \in [pc : {"idle", "waits", "press", "abort"}, id : 0 .. MaxSaid, n : Nat]
      BY <2>1 DEF Idle
  <2> QED
      BY <1>7, <2>2 DEF WorkerWaits, TypeOK, mapping, managing
<1>8. CASE WorkerTakes
  <2>1. queue # <<>> /\ queue' = Tail(queue) /\ pressed' = Append(pressed, Head(queue))
      BY <1>8 DEF WorkerTakes
  <2>2. Head(queue) \in Press /\ queue' \in Seq(Press)
      BY <1>0, <2>1, TakeFact
  <2>3. pressed' \in Seq(Press)
      BY <1>0, <2>1, <2>2, AppendFact
  <2>4. worker' \in [pc : {"idle", "waits", "press", "abort"}, id : 0 .. MaxSaid, n : Nat]
      BY <1>8, <2>2, SaidFact DEF WorkerTakes, Press
  <2> QED
      BY <1>8, <2>2, <2>3, <2>4 DEF WorkerTakes, TypeOK, mapping, managing
<1>9. CASE PressDone
  <2>1. fate' \in [Said -> Fates]
      BY <1>0, <1>9 DEF PressDone, Fates
  <2>2. worker' \in [pc : {"idle", "waits", "press", "abort"}, id : 0 .. MaxSaid, n : Nat]
      BY <1>0, <1>9 DEF PressDone, Idle
  <2> QED
      BY <1>9, <2>1, <2>2 DEF PressDone, TypeOK, mapping, managing
<1>10. CASE PressFails
  <2>1. fate' \in [Said -> Fates]
      BY <1>0, <1>10 DEF PressFails, Fates
  <2>2. worker' \in [pc : {"idle", "waits", "press", "abort"}, id : 0 .. MaxSaid, n : Nat]
      BY <1>10 DEF PressFails, TypeOK
  <2> QED
      BY <1>10, <2>1, <2>2 DEF PressFails, TypeOK, mapping, managing
<1>11. CASE AbortPending
  <2>1. fate' \in [Said -> Fates]
      BY <1>0, <1>11 DEF AbortPending, Fates
  <2>2. worker' \in [pc : {"idle", "waits", "press", "abort"}, id : 0 .. MaxSaid, n : Nat]
      BY <1>0, <1>11 DEF AbortPending, Idle
  <2>3. queue' \in Seq(Press)
      BY <1>11, EmptySeq DEF AbortPending
  <2> QED
      BY <1>11, <2>1, <2>2, <2>3 DEF AbortPending, TypeOK, mapping, managing
<1>12. CASE UNCHANGED vars
    BY <1>12 DEF TypeOK, vars
<1> QED
    BY <1>1, <1>2, <1>3, <1>4, <1>5, <1>6, <1>7, <1>8, <1>9, <1>10, <1>11, <1>12 DEF Next

-----------------------------------------------------------------------------
(* The talk: what is said, what is made of it, and what is pending.        *)

\* The numbers of the talk.
LEMMA TalkFact ==
    ASSUME TypeOK, TopicsInOrder
    PROVE  /\ Len(said) \in Nat /\ last \in Nat /\ stt \in Seq(Nat) /\ decisions \in Seq(Nat)
           /\ Len(stt) <= Depth /\ Len(decisions) <= Depth
           /\ \A x \in Range(stt) : x \in Said /\ x \in Nat /\ last < x /\ x <= Len(said)
           /\ \A x \in Range(decisions) : x \in Said /\ x \in Nat /\ x <= last
           /\ \A k \in Said : k \in Nat /\ k # 0
           /\ \A k \in Nat : k # 0 /\ k <= Len(said) => k \in Said
           /\ \A m \in made : m.order \in Said /\ m.by \in Said
           /\ last <= Len(said) /\ heard \in [Said -> Decisions]
<1>1. /\ said \in Seq(Utterances) /\ Len(said) <= MaxSaid /\ stt \in Seq(Said) /\ decisions \in Seq(Said)
      /\ last \in 0 .. MaxSaid /\ heard \in [Said -> Decisions] /\ made \subseteq [order : Said, by : Said]
      /\ Len(stt) <= Depth /\ Len(decisions) <= Depth
    BY DEF TypeOK
<1>2. Said \subseteq Nat /\ MaxSaid \in Nat
    BY SaidFact, ParametersFact
<1>3. stt \in Seq(Nat) /\ decisions \in Seq(Nat)
    BY <1>1, <1>2, SeqMonotonic
<1>4. Range(stt) \subseteq Said /\ Range(decisions) \subseteq Said
    BY <1>1, PlaceFact
<1>5. Len(said) \in Nat
    BY <1>1, LenProperties
<1> DEFINE n == Len(said)
<1> HIDE DEF n
<1>6. n \in Nat /\ n <= MaxSaid
    BY <1>1, <1>5 DEF n
<1>7. \A k \in Nat : k # 0 /\ k <= n => k \in Said
    BY <1>2, <1>6 DEF Said
<1>8. last \in Nat
    BY <1>1, <1>2
<1>9. \A m \in made : m.order \in Said /\ m.by \in Said
    BY <1>1
<1> QED
    BY <1>1, <1>3, <1>4, <1>5, <1>7, <1>8, <1>9, SaidFact DEF n, TopicsInOrder

\* Steps of the executor do not touch the talk.
LEMMA TalkSame ==
    ASSUME TalkInv, UNCHANGED <<llm, said, stt, last, heard, decisions, pending, made, lost>>
    PROVE  TalkInv'
BY DEF TalkInv, TopicsInOrder, HeardOK, NothingForgotten, PendingIsLast, MadeIsPast, CancelHolds, LastOrderIsMade,
       Increasing, Mapped, Past, Dropped, Between, NothingLost

\* What is said next comes behind everything that was said.
LEMMA TalkSay ==
    ASSUME TypeOK, TalkInv, Say
    PROVE  TalkInv'
<1> DEFINE n == Len(said)
<1>1. PICK u \in Utterances : said' = Append(said, u)
    BY DEF Say
<1>2. /\ stt' = Push(stt, n + 1) /\ lost' = lost \cup Overrun(stt)
      /\ UNCHANGED <<llm, last, heard, decisions, pending, made>>
    BY DEF Say, mapping, managing
<1>3. TopicsInOrder /\ HeardOK /\ NothingForgotten /\ PendingIsLast /\ MadeIsPast /\ CancelHolds /\ LastOrderIsMade
    BY DEF TalkInv
<1>4. /\ n \in Nat /\ last \in Nat /\ stt \in Seq(Nat) /\ Len(stt) <= Depth /\ last <= n
      /\ \A x \in Range(stt) : x \in Nat /\ last < x /\ x <= n
      /\ \A k \in Said : k \in Nat /\ k # 0
      /\ \A m \in made : m.order \in Said /\ m.by \in Said
    BY <1>3, TalkFact
<1>5. /\ said \in Seq(Utterances) /\ DOMAIN said = 1 .. n /\ Len(said') = n + 1
      /\ \A k \in 1 .. n : said'[k] = said[k]
  <2>1. said \in Seq(Utterances)
      BY DEF TypeOK
  <2>2. DOMAIN said = 1 .. n
      BY <2>1, LenProperties
  <2> QED
      BY <1>1, <2>1, <2>2, AppendFact
<1>6. /\ Range(stt') \subseteq Range(stt) \cup {n + 1} /\ n + 1 \in Range(stt')
      /\ Range(stt) \subseteq Range(stt') \cup Overrun(stt)
  <2> DEFINE i == n + 1
  <2>1. i \in Nat /\ stt' = Push(stt, i)
      BY <1>2, <1>4
  <2> HIDE DEF i
  <2>2. /\ Range(Push(stt, i)) \subseteq Range(stt) \cup {i} /\ i \in Range(Push(stt, i))
        /\ Range(stt) \subseteq Range(Push(stt, i)) \cup Overrun(stt)
      BY <1>4, <2>1, PushFact
  <2> QED
      BY <2>1, <2>2 DEF i
<1> HIDE DEF n
<1>7. TopicsInOrder'
  <2>1. Increasing(stt)
      BY <1>3 DEF TopicsInOrder
  <2>2. n + 1 \in Nat /\ \A x \in Range(stt) : x < n + 1
      BY <1>4
  <2>3. Increasing(Push(stt, n + 1))
      BY <1>4, <2>1, <2>2, IncreasingPush
  <2>4. \A x \in Range(stt') : last < x /\ x <= n + 1
      BY <1>4, <1>6
  <2>5. Increasing(stt')
      BY <1>2, <2>3
  <2>6. last <= n + 1
      BY <1>4
  <2> QED
      BY <1>2, <1>3, <1>5, <2>4, <2>5, <2>6 DEF TopicsInOrder, Increasing
<1>8. \A k \in Said : Mapped(k) => k \in 1 .. n
    BY <1>3, <1>4 DEF HeardOK
<1>9. HeardOK'
  <2>1. \A k \in Said : Mapped(k) => said'[k] = said[k]
      BY <1>5, <1>8
  <2> QED
      BY <1>2, <1>3, <2>1 DEF HeardOK, Mapped, ParseAndAnswer
<1>10. NothingForgotten'
  <2> SUFFICES ASSUME NEW k \in 1 .. n + 1
               PROVE  k \in Range(stt') \/ k \in lost' \/ Mapped(k)' \/ Dropped(k)'
      BY <1>5 DEF NothingForgotten
  <2>1. CASE k = n + 1
      BY <1>6, <2>1
  <2>2. CASE k \in 1 .. n /\ Dropped(k)
    <3>1. PICK j \in 1 .. (k - 1) : Mapped(j) /\ said[j] = said[k] /\ \A x \in (j + 1) .. k : ~Mapped(x)
        BY <2>2 DEF Dropped
    <3>2. j \in 1 .. n
        BY <1>4, <2>2
    <3>3. \A x \in Range(stt') : k < x
        BY <1>4, <1>6, <2>2 DEF Dropped
    <3>4. Mapped(j)' /\ said'[j] = said'[k] /\ \A x \in (j + 1) .. k : ~Mapped(x)'
        BY <1>2, <1>5, <2>2, <3>1, <3>2 DEF Mapped
    <3> QED
        BY <1>2, <2>2, <3>3, <3>4 DEF Dropped
  <2>3. CASE k \in 1 .. n /\ ~Dropped(k)
    <3>1. k \in Range(stt) \/ k \in lost \/ Mapped(k)
        BY <1>3, <2>3 DEF NothingForgotten, n
    <3> QED
        BY <1>2, <1>6, <3>1 DEF Mapped
  <2> QED
      BY <1>4, <2>1, <2>2, <2>3
<1>11. lost \subseteq lost'
    BY <1>2
<1>12. PendingIsLast'
    BY <1>2, <1>3, <1>11 DEF PendingIsLast, Past
<1>13. MadeIsPast'
    BY <1>2, <1>3 DEF MadeIsPast, Past
<1>14. CancelHolds'
  <2> SUFFICES ASSUME NEW m \in made, lost \cap (m.order .. m.by) = {}, NEW k \in Between(m)
               PROVE  Parse(said'[k]) # {Speaks("cancel")}
      BY <1>2, <1>11 DEF CancelHolds, NothingLost, Between, Parse
  <2>1. m.by <= last /\ k \in 1 .. n
      BY <1>3, <1>4 DEF MadeIsPast, Past, Between
  <2> QED
      BY <1>3, <1>5, <2>1 DEF CancelHolds, NothingLost
<1>15. LastOrderIsMade'
    BY <1>2, <1>3, <1>11 DEF LastOrderIsMade, NothingLost, Between
<1> QED
    BY <1>7, <1>9, <1>10, <1>12, <1>13, <1>14, <1>15 DEF TalkInv

\* A duplicate is dropped: what it says has been mapped.
LEMMA TalkDuplicate ==
    ASSUME TypeOK, TalkInv, Map, Duplicate(Head(stt))
    PROVE  TalkInv'
<1>0. PICK i : i = Head(stt)
    OBVIOUS
<1>1. /\ stt # <<>> /\ stt' = Tail(stt) /\ ~llm /\ last # 0 /\ said[i] = said[last]
      /\ UNCHANGED <<llm, said, last, heard, decisions, pending, made, lost>>
    BY <1>0 DEF Map, Duplicate, mapping, managing
<1>2. TopicsInOrder /\ HeardOK /\ NothingForgotten
    BY DEF TalkInv
<1>3. /\ last \in Nat /\ Len(said) \in Nat /\ stt \in Seq(Nat) /\ \A x \in Range(stt) : x \in Nat /\ x \in Said /\ last < x
    BY <1>2, TalkFact
<1>4. Range(stt) = {i} \cup Range(stt') /\ Increasing(stt') /\ \A x \in Range(stt') : i < x
    BY <1>0, <1>1, <1>2, <1>3, TakeFact, IncreasingTail DEF TopicsInOrder
<1>5. TopicsInOrder'
    BY <1>1, <1>2, <1>4 DEF TopicsInOrder, Increasing
<1>6. Dropped(i)'
  <2>1. last \in 1 .. (i - 1) /\ Mapped(last)
      BY <1>1, <1>2, <1>3, <1>4 DEF HeardOK
  <2>2. \A x \in (last + 1) .. i : x \in Said /\ x > last
    <3>1. i \in Said /\ MaxSaid \in Nat
        BY <1>3, <1>4, ParametersFact
    <3> QED
        BY <1>3, <3>1 DEF Said
  <2>3. \A x \in (last + 1) .. i : ~Mapped(x)
      BY <1>2, <2>2 DEF HeardOK
  <2> QED
      BY <1>1, <1>4, <2>1, <2>3 DEF Dropped, Mapped
<1>7. NothingForgotten'
  <2> SUFFICES ASSUME NEW k \in 1 .. Len(said)
               PROVE  k \in Range(stt') \/ k \in lost \/ Mapped(k) \/ Dropped(k)'
      BY <1>1 DEF NothingForgotten, Mapped
  <2>1. CASE k = i
      BY <1>6, <2>1
  <2>2. CASE Dropped(k)
      BY <1>1, <1>4, <2>2 DEF Dropped, Mapped
  <2> QED
      BY <1>2, <1>4, <2>1, <2>2 DEF NothingForgotten
<1>8. (HeardOK /\ PendingIsLast /\ MadeIsPast /\ CancelHolds /\ LastOrderIsMade)'
    BY <1>1 DEF TalkInv, HeardOK, PendingIsLast, MadeIsPast, CancelHolds, LastOrderIsMade, Mapped, Past, Between,
                NothingLost
<1> QED
    BY <1>5, <1>7, <1>8 DEF TalkInv

\* An utterance is mapped: the decision on it comes behind all others.
LEMMA TalkMap ==
    ASSUME TypeOK, TalkInv, Map, ~Duplicate(Head(stt))
    PROVE  TalkInv' /\ \A k \in Said : Past(k) => Past(k)'
<1>0. PICK i : i = Head(stt)
    OBVIOUS
<1>1. stt # <<>> /\ stt' = Tail(stt) /\ UNCHANGED <<llm, said, pending, made>>
    BY DEF Map, managing
<1>2. PICK d \in (IF llm THEN ParseAndAnswer(said[i]) ELSE Parse(said[i])) :
               /\ heard' = [heard EXCEPT ![i] = d]
               /\ decisions' = Push(decisions, i) /\ lost' = lost \cup Overrun(decisions) /\ last' = i
    BY <1>0 DEF Map
<1>3. TopicsInOrder /\ HeardOK /\ NothingForgotten /\ PendingIsLast /\ MadeIsPast /\ CancelHolds /\ LastOrderIsMade
    BY DEF TalkInv
<1>4. /\ last \in Nat /\ Len(said) \in Nat /\ stt \in Seq(Nat) /\ decisions \in Seq(Nat) /\ Len(decisions) <= Depth
      /\ \A x \in Range(stt) : x \in Nat /\ x \in Said /\ last < x /\ x <= Len(said)
      /\ \A x \in Range(decisions) : x \in Nat /\ x <= last
      /\ \A k \in Said : k \in Nat /\ k # 0
      /\ \A m \in made : m.order \in Said /\ m.by \in Said
      /\ heard \in [Said -> Decisions]
    BY <1>3, TalkFact
<1>5. Range(stt) = {i} \cup Range(stt') /\ Increasing(stt') /\ \A x \in Range(stt') : i < x
    BY <1>0, <1>1, <1>3, <1>4, TakeFact, IncreasingTail DEF TopicsInOrder
<1>6. i \in Said /\ i \in Nat /\ last < i /\ i <= Len(said) /\ \A x \in Range(decisions) : x < i
  <2>1. i \in Said /\ i \in Nat /\ last < i /\ i <= Len(said)
      BY <1>4, <1>5
  <2>2. \A x \in Range(decisions) : x < i
      BY <1>4, <2>1
  <2> QED
      BY <2>1, <2>2
<1>7. /\ Range(decisions') \subseteq Range(decisions) \cup {i} /\ i \in Range(decisions')
      /\ Range(decisions) \subseteq Range(decisions') \cup Overrun(decisions)
      /\ Increasing(decisions') /\ lost \subseteq lost'
    BY <1>2, <1>3, <1>4, <1>6, PushFact, IncreasingPush DEF TopicsInOrder
<1>8. d.intent # "none"
  <2>1. said[i] \in Utterances
    <3> DEFINE n == Len(said)
    <3>1. said \in Seq(Utterances) /\ n \in Nat /\ i \in Nat /\ i # 0 /\ i <= n
        BY <1>4, <1>6 DEF TypeOK
    <3> HIDE DEF n
    <3>2. i \in 1 .. n
        BY <3>1
    <3> QED
        BY <3>1, <3>2, ElementOfSeq DEF n
  <2> QED
      BY <1>2, <2>1, HeardFact
<1>9. heard'[i] = d /\ Mapped(i)' /\ \A k \in Said \ {i} : heard'[k] = heard[k] /\ (Mapped(k)' <=> Mapped(k))
    BY <1>2, <1>4, <1>6, <1>8 DEF Mapped
<1>10. \A k \in Said : Past(k) => Past(k)' /\ k # i
    BY <1>2, <1>4, <1>6, <1>7 DEF Past
<1>11. TopicsInOrder'
    BY <1>1, <1>2, <1>4, <1>5, <1>6, <1>7 DEF TopicsInOrder, Increasing
<1>12. HeardOK'
  <2>1. \A k \in Said : k > i => ~Mapped(k)'
      BY <1>3, <1>4, <1>6, <1>9 DEF HeardOK
  <2>2. ASSUME NEW k \in Said, Mapped(k)', k # i
        PROVE  /\ heard'[k] \in IF llm THEN ParseAndAnswer(said[k]) ELSE Parse(said[k])
               /\ k \in lost' \/ k \in Range(decisions') \/ \A x \in Range(decisions') : k < x
    <3>1. Mapped(k) /\ heard'[k] = heard[k]
        BY <1>9, <2>2
    <3>2. k \in Nat /\ k <= last
        BY <1>3, <1>4, <3>1 DEF HeardOK
    <3>3. (\A x \in Range(decisions) : k < x) => \A x \in Range(decisions') : k < x
        BY <1>4, <1>6, <1>7, <3>2
    <3>4. k \in lost \/ k \in Range(decisions) \/ \A x \in Range(decisions) : k < x
        BY <1>3, <3>1 DEF HeardOK
    <3>5. k \in Range(decisions) => k \in lost' \/ k \in Range(decisions')
        BY <1>2, <1>7
    <3>6. k \in lost' \/ k \in Range(decisions') \/ \A x \in Range(decisions') : k < x
        BY <1>7, <3>3, <3>4, <3>5
    <3>7. heard[k] \in IF llm THEN ParseAndAnswer(said[k]) ELSE Parse(said[k])
        BY <1>3, <3>1 DEF HeardOK
    <3> QED
        BY <3>1, <3>6, <3>7
  <2>3. /\ heard'[i] \in IF llm THEN ParseAndAnswer(said[i]) ELSE Parse(said[i])
        /\ i \in Range(decisions')
      BY <1>2, <1>7, <1>9
  <2> QED
      BY <1>1, <1>2, <1>9, <2>1, <2>2, <2>3 DEF HeardOK, Mapped, ParseAndAnswer
<1>13. NothingForgotten'
  <2> SUFFICES ASSUME NEW k \in 1 .. Len(said)
               PROVE  k \in Range(stt') \/ k \in lost' \/ Mapped(k)' \/ Dropped(k)'
      BY <1>1 DEF NothingForgotten
  <2>1. k \in Said
      BY <1>3, <1>4, TalkFact
  <2>2. CASE Dropped(k)
    <3>1. PICK j \in 1 .. (k - 1) : Mapped(j) /\ said[j] = said[k] /\ \A x \in (j + 1) .. k : ~Mapped(x)
        BY <2>2 DEF Dropped
    <3>2. k < i
        BY <1>5, <2>2 DEF Dropped
    <3>3. \A x \in 1 .. k : x \in Said \ {i}
        BY <1>4, <1>6, <2>1, <3>2, ParametersFact DEF Said
    <3>4. j \in 1 .. k /\ (j + 1) .. k \subseteq 1 .. k
        BY <1>4, <2>1
    <3>5. Mapped(j)' /\ \A x \in (j + 1) .. k : ~Mapped(x)'
        BY <1>9, <3>1, <3>3, <3>4
    <3> QED
        BY <1>1, <1>5, <2>2, <3>1, <3>5 DEF Dropped
  <2> QED
      BY <1>3, <1>5, <1>7, <1>9, <2>1, <2>2 DEF NothingForgotten
<1>14. PendingIsLast'
  <2>0. PICK p : p = pending.id
      OBVIOUS
  <2> SUFFICES ASSUME pending # None
               PROVE  /\ p \in Said /\ Past(p)' /\ heard'[p].intent = "make_cocktail"
                      /\ \A m \in made : m.by < p
                      /\ \A k \in Said : k > p /\ Past(k)' /\ lost' \cap (p .. k) = {} =>
                                               heard'[k].intent \notin {"cancel", "make_cocktail"}
      BY <1>1, <2>0 DEF PendingIsLast
  <2>1. /\ p \in Said /\ Past(p) /\ heard[p].intent = "make_cocktail" /\ \A m \in made : m.by < p
        /\ \A k \in Said : k > p /\ Past(k) /\ lost \cap (p .. k) = {} =>
                                 heard[k].intent \notin {"cancel", "make_cocktail"}
      BY <1>3, <2>0 DEF PendingIsLast
  <2>2. Past(p)' /\ heard'[p] = heard[p]
      BY <1>9, <1>10, <2>1
  <2>3. ASSUME NEW k \in Said, k > p, Past(k)', lost' \cap (p .. k) = {}
        PROVE  heard'[k].intent \notin {"cancel", "make_cocktail"}
    <3>1. k < i /\ heard'[k] = heard[k]
        BY <1>4, <1>6, <1>7, <1>9, <2>3 DEF Past
    <3>2. CASE Past(k)
        BY <1>7, <2>1, <2>3, <3>1, <3>2
    <3>3. CASE k > last
      <4>1. heard[k].intent = "none"
          BY <1>3, <3>3 DEF HeardOK, Mapped
      <4> QED
          BY <3>1, <4>1
    <3>4. CASE ~Past(k) /\ k <= last
      <4>1. PICK x \in Range(decisions) : ~ (k < x)
          BY <3>4 DEF Past
      <4>2. x \in Overrun(decisions)
          BY <1>7, <2>3, <4>1 DEF Past
      <4>3. p < x /\ x \in Nat /\ p \in Nat /\ k \in Nat
          BY <1>4, <2>1, <4>1 DEF Past
      <4>4. x \in p .. k
          BY <4>1, <4>3
      <4> QED
          BY <1>2, <2>3, <4>2, <4>4
    <3>5. k > last \/ k <= last
        BY <1>4
    <3> QED
        BY <3>2, <3>3, <3>4, <3>5
  <2> QED
      BY <2>1, <2>2, <2>3
<1>15. MadeIsPast'
    BY <1>1, <1>3, <1>4, <1>10 DEF MadeIsPast
<1>16. CancelHolds'
    BY <1>1, <1>3, <1>7 DEF CancelHolds, NothingLost, Between, Parse
<1>17. LastOrderIsMade'
  <2>1. \A m \in made : \A k \in Between(m) : k \in Said /\ k # i
    <3> SUFFICES ASSUME NEW m \in made, NEW k \in Between(m) PROVE k \in Said /\ k # i
        OBVIOUS
    <3>1. PICK x, y : x = m.order /\ y = m.by
        OBVIOUS
    <3>2. x \in Nat /\ y \in Said /\ y \in Nat /\ y <= last
        BY <1>3, <1>4, <3>1 DEF MadeIsPast, Past
    <3>3. k \in (x + 1) .. (y - 1)
        BY <3>1 DEF Between
    <3>4. k \in 1 .. y /\ k < i
        BY <1>4, <1>6, <3>2, <3>3
    <3> QED
        BY <3>2, <3>4, ParametersFact DEF Said
  <2>2. \A m \in made : NothingLost(m)' => NothingLost(m)
      BY <1>7 DEF NothingLost
  <2> QED
      BY <1>1, <1>3, <1>9, <2>1, <2>2 DEF LastOrderIsMade, Between
<1> QED
    BY <1>10, <1>11, <1>12, <1>13, <1>14, <1>15, <1>16, <1>17 DEF TalkInv

\* What was said between the pending order and the decision that is next, and was not lost, is
\* neither a cancellation nor an order.
LEMMA BetweenFact ==
    ASSUME TypeOK, TalkInv, decisions # <<>>, pending # None, NEW k \in Said, pending.id < k, k < Head(decisions),
           lost \cap (pending.id .. Head(decisions)) = {}
    PROVE  heard[k].intent \notin {"cancel", "make_cocktail"} /\ Parse(said[k]) # {Speaks("cancel")}
<1>0. PICK i, p : i = Head(decisions) /\ p = pending.id
    OBVIOUS
<1>1. TopicsInOrder /\ HeardOK /\ NothingForgotten /\ PendingIsLast
    BY DEF TalkInv
<1>2. /\ last \in Nat /\ Len(said) \in Nat /\ decisions \in Seq(Nat) /\ last <= Len(said)
      /\ \A x \in Range(stt) : x \in Nat /\ last < x
      /\ \A x \in Range(decisions) : x \in Nat /\ x <= last
      /\ \A x \in Said : x \in Nat /\ x # 0
    BY <1>1, TalkFact
<1>3. Range(decisions) = {i} \cup Range(Tail(decisions)) /\ \A x \in Range(Tail(decisions)) : i < x
    BY <1>0, <1>1, <1>2, TakeFact, IncreasingTail DEF TopicsInOrder
<1>4. /\ p \in Said /\ heard[p].intent = "make_cocktail"
      /\ \A x \in Said : x > p /\ Past(x) /\ lost \cap (p .. x) = {} => heard[x].intent \notin {"cancel", "make_cocktail"}
    BY <1>0, <1>1 DEF PendingIsLast
<1>5. i \in Nat /\ i <= last /\ p \in Nat
    BY <1>2, <1>3, <1>4
<1>6. ASSUME NEW x \in Said, p < x, x < i
      PROVE  x \notin lost /\ heard[x].intent \notin {"cancel", "make_cocktail"}
  <2>1. x \in p .. i /\ p .. x \subseteq p .. i /\ x <= last
      BY <1>2, <1>5, <1>6
  <2>2. x \notin lost /\ lost \cap (p .. x) = {}
      BY <1>0, <2>1
  <2>3. CASE Mapped(x)
    <3>1. x \notin Range(decisions)
        BY <1>2, <1>3, <1>5, <1>6
    <3>2. Past(x)
        BY <1>1, <2>1, <2>2, <2>3, <3>1 DEF HeardOK, Past
    <3> QED
        BY <1>4, <1>6, <2>2, <3>2
  <2> QED
      BY <2>2, <2>3 DEF Mapped
<1>7. /\ heard[k].intent \notin {"cancel", "make_cocktail"} /\ k \notin lost
      /\ k \in Nat /\ k < i /\ k > p /\ k \notin Range(stt) /\ k \in 1 .. Len(said)
  <2>1. k \in Nat /\ k # 0 /\ k < i /\ k > p /\ k <= last
      BY <1>0, <1>2, <1>5
  <2>2. k \notin Range(stt)
      BY <1>2, <2>1
  <2>3. k \in 1 .. Len(said)
      BY <1>2, <2>1
  <2> QED
      BY <1>6, <2>1, <2>2, <2>3
<1>8. ASSUME NEW x \in Said, Mapped(x), Parse(said[x]) = {Speaks("cancel")}
      PROVE  heard[x].intent = "cancel"
  <2>1. heard[x] \in IF llm THEN ParseAndAnswer(said[x]) ELSE Parse(said[x])
      BY <1>1, <1>8 DEF HeardOK
  <2>2. said[x] \in Utterances
    <3> DEFINE n == Len(said)
    <3>1. x \in Nat /\ x # 0 /\ x <= last /\ said \in Seq(Utterances)
        BY <1>1, <1>2, <1>8 DEF HeardOK, TypeOK
    <3>2. n \in Nat /\ last <= n
        BY <1>2
    <3> HIDE DEF n
    <3>3. x \in 1 .. n
        BY <1>2, <3>1, <3>2
    <3> QED
        BY <3>1, <3>3, ElementOfSeq DEF n
  <2> QED
      BY <1>8, <2>1, <2>2, HeardFact
<1>9. ASSUME Parse(said[k]) = {Speaks("cancel")} PROVE FALSE
  <2>1. CASE Mapped(k)
      BY <1>7, <1>8, <1>9, <2>1
  <2>2. CASE Dropped(k)
    <3>1. PICK j \in 1 .. (k - 1) : Mapped(j) /\ said[j] = said[k] /\ \A x \in (j + 1) .. k : ~Mapped(x)
        BY <2>2 DEF Dropped
    <3>2. j \in Nat /\ j < k /\ j < i /\ j \in Said
        BY <1>2, <1>5, <1>7, ParametersFact DEF Said
    <3>3. heard[j].intent = "cancel"
        BY <1>8, <1>9, <3>1, <3>2
    <3>4. ~ (p < j) /\ p # j
        BY <1>4, <1>6, <3>2, <3>3
    <3>5. p \in (j + 1) .. k
        BY <1>5, <1>7, <3>2, <3>4
    <3> QED
        BY <1>4, <3>1, <3>5 DEF Mapped
  <2> QED
      BY <1>1, <1>7, <2>1, <2>2 DEF NothingForgotten
<1> QED
    BY <1>7, <1>9

\* A decision reaches the manager: an order takes the pending one's place, a cancellation calls
\* it off, a confirmation makes it.
LEMMA TalkDecision ==
    ASSUME TypeOK, TalkInv, OnDecision
    PROVE  TalkInv' /\ \A k \in Said : Past(k) => Past(k)' /\ k < Head(decisions)
<1>0. PICK i, p : i = Head(decisions) /\ p = pending.id
    OBVIOUS
<1>1. /\ decisions # <<>> /\ decisions' = Tail(decisions)
      /\ IF heard[i].intent = "confirm" THEN Confirm(i) ELSE Replace(i)
      /\ UNCHANGED <<llm, said, stt, last, heard>>
    BY <1>0 DEF OnDecision, mapping
<1>2. UNCHANGED lost
    BY <1>1 DEF Confirm, Replace
<1>3. TopicsInOrder /\ HeardOK /\ NothingForgotten /\ PendingIsLast /\ MadeIsPast /\ CancelHolds /\ LastOrderIsMade
    BY DEF TalkInv
<1>4. /\ last \in Nat /\ decisions \in Seq(Nat)
      /\ \A x \in Range(decisions) : x \in Nat /\ x \in Said /\ x <= last
      /\ \A k \in Said : k \in Nat /\ k # 0
      /\ \A m \in made : m.order \in Said /\ m.by \in Said
    BY <1>3, TalkFact
<1>5. Range(decisions) = {i} \cup Range(decisions') /\ Increasing(decisions') /\ \A x \in Range(decisions') : i < x
    BY <1>0, <1>1, <1>3, <1>4, TakeFact, IncreasingTail DEF TopicsInOrder
<1>6. i \in Nat /\ i \in Said /\ i <= last
    BY <1>4, <1>5
<1>7. Past(i)' /\ \A k \in Said : Past(k) => Past(k)' /\ k < i
    BY <1>1, <1>4, <1>5, <1>6 DEF Past
<1>8. ASSUME NEW k \in Said, Past(k)', ~Past(k), k # i
      PROVE  k > i /\ (k \in lost \/ heard[k].intent = "none")
  <2>1. k \in Nat /\ k <= last /\ ~ (k < i) /\ k \notin Range(decisions)
      BY <1>1, <1>4, <1>5, <1>6, <1>8 DEF Past
  <2>2. k > i
      BY <1>6, <1>8, <2>1
  <2>3. Mapped(k) => k \in lost
      BY <1>3, <1>5, <2>1 DEF HeardOK
  <2> QED
      BY <2>2, <2>3 DEF Mapped
<1>9. TopicsInOrder'
    BY <1>1, <1>3, <1>4, <1>5 DEF TopicsInOrder, Increasing
<1>10. HeardOK'
  <2>1. ASSUME NEW k \in Said, Mapped(k)
        PROVE  k \in lost \/ k \in Range(decisions') \/ \A x \in Range(decisions') : k < x
      BY <1>3, <1>5, <2>1 DEF HeardOK
  <2> QED
      BY <1>1, <1>2, <1>3, <2>1 DEF HeardOK, Mapped, ParseAndAnswer
<1>11. NothingForgotten'
    BY <1>1, <1>2, <1>3 DEF NothingForgotten, Dropped, Mapped
<1>12. \A m \in made : m.order < m.by /\ Past(m.by)' /\ m.by < i
    BY <1>3, <1>4, <1>7 DEF MadeIsPast
<1>13. CASE heard[i].intent # "confirm"
  <2>1. Replace(i)
      BY <1>1, <1>13
  <2>2. UNCHANGED made
      BY <2>1 DEF Replace
  <2>3. MadeIsPast' /\ CancelHolds' /\ LastOrderIsMade'
      BY <1>1, <1>2, <1>3, <1>12, <2>2 DEF MadeIsPast, CancelHolds, LastOrderIsMade, NothingLost, Between, Parse
  <2>4. PendingIsLast'
    <3>1. CASE heard[i].intent = "make_cocktail"
      <4>1. pending'.id = i
          BY <2>1, <3>1 DEF Replace
      <4>2. ASSUME NEW k \in Said, k > i, Past(k)', lost \cap (i .. k) = {}
            PROVE  heard[k].intent \notin {"cancel", "make_cocktail"}
        <5>1. k \in i .. k /\ k # i
            BY <1>4, <1>6, <4>2
        <5>2. ~Past(k)
            BY <1>4, <1>6, <1>7, <4>2
        <5> QED
            BY <1>8, <4>2, <5>1, <5>2
      <4> QED
          BY <1>1, <1>2, <1>6, <1>7, <1>12, <2>2, <3>1, <4>1, <4>2 DEF PendingIsLast
    <3>2. CASE heard[i].intent = "cancel"
        BY <2>1, <3>2 DEF Replace, PendingIsLast, None
    <3>3. CASE heard[i].intent \notin {"cancel", "make_cocktail"}
      <4>1. pending' = pending
          BY <2>1, <3>3 DEF Replace
      <4> SUFFICES ASSUME pending # None
                   PROVE  /\ p \in Said /\ Past(p)' /\ heard[p].intent = "make_cocktail"
                          /\ \A m \in made : m.by < p
                          /\ \A k \in Said : k > p /\ Past(k)' /\ lost \cap (p .. k) = {} =>
                                                   heard[k].intent \notin {"cancel", "make_cocktail"}
          BY <1>0, <1>1, <1>2, <2>2, <4>1 DEF PendingIsLast
      <4>2. /\ p \in Said /\ Past(p) /\ heard[p].intent = "make_cocktail" /\ \A m \in made : m.by < p
            /\ \A k \in Said : k > p /\ Past(k) /\ lost \cap (p .. k) = {} =>
                                     heard[k].intent \notin {"cancel", "make_cocktail"}
          BY <1>0, <1>3 DEF PendingIsLast
      <4>3. ASSUME NEW k \in Said, k > p, Past(k)', lost \cap (p .. k) = {}
            PROVE  heard[k].intent \notin {"cancel", "make_cocktail"}
        <5>1. k \in p .. k
            BY <1>4, <4>2, <4>3
        <5> QED
            BY <1>8, <3>3, <4>2, <4>3, <5>1
      <4> QED
          BY <1>7, <4>2, <4>3
    <3> QED
        BY <3>1, <3>2, <3>3
  <2> QED
      BY <1>0, <1>7, <1>9, <1>10, <1>11, <2>3, <2>4 DEF TalkInv
<1>14. CASE heard[i].intent = "confirm"
  <2>1. Confirm(i)
      BY <1>1, <1>14
  <2>2. PendingIsLast'
      BY <2>1 DEF Confirm, PendingIsLast
  <2>3. CASE pending = None \/ old
    <3>1. UNCHANGED made
        BY <2>1, <2>3 DEF Confirm
    <3>2. MadeIsPast' /\ CancelHolds' /\ LastOrderIsMade'
        BY <1>1, <1>2, <1>3, <1>12, <3>1 DEF MadeIsPast, CancelHolds, LastOrderIsMade, NothingLost, Between, Parse
    <3> QED
        BY <1>0, <1>7, <1>9, <1>10, <1>11, <2>2, <3>2 DEF TalkInv
  <2>4. CASE ~ (pending = None \/ old)
    <3>1. PICK new : new = [order |-> p, by |-> i]
        OBVIOUS
    <3>2. made' = made \cup {new}
        BY <1>0, <2>1, <2>4, <3>1 DEF Confirm
    <3>3. p \in Said /\ p < i /\ \A m \in made : m.by < p
        BY <1>0, <1>3, <1>7, <2>4 DEF PendingIsLast
    <3>4. MadeIsPast'
        BY <1>7, <1>12, <3>1, <3>2, <3>3 DEF MadeIsPast
    <3>5. ASSUME lost \cap (p .. i) = {}, NEW k \in (p + 1) .. (i - 1)
          PROVE  Parse(said[k]) # {Speaks("cancel")} /\ heard[k].intent # "make_cocktail"
      <4>1. k \in Said /\ p < k /\ k < i
          BY <1>4, <1>6, <3>3, ParametersFact DEF Said
      <4> QED
          BY <1>0, <1>1, <2>4, <3>5, <4>1, BetweenFact
    <3>6. CancelHolds'
      <4>1. ASSUME NEW m \in made', NothingLost(m), NEW k \in Between(m)
            PROVE  Parse(said[k]) # {Speaks("cancel")}
        <5>1. CASE m \in made
            BY <1>3, <4>1, <5>1 DEF CancelHolds
        <5>2. CASE m = new
            BY <3>1, <3>5, <4>1, <5>2 DEF NothingLost, Between
        <5> QED
            BY <3>2, <5>1, <5>2
      <4> QED
          BY <1>1, <1>2, <4>1 DEF CancelHolds, NothingLost, Between, Parse
    <3>7. LastOrderIsMade'
      <4>1. ASSUME NEW m \in made', NothingLost(m), NEW k \in Between(m)
            PROVE  heard[k].intent # "make_cocktail"
        <5>1. CASE m \in made
            BY <1>3, <4>1, <5>1 DEF LastOrderIsMade
        <5>2. CASE m = new
            BY <3>1, <3>5, <4>1, <5>2 DEF NothingLost, Between
        <5> QED
            BY <3>2, <5>1, <5>2
      <4>2. \A m \in made : m.order # p
          BY <1>4, <1>12, <3>3
      <4>3. \A m, q \in made' : q.order = m.order => q = m
          BY <1>3, <3>1, <3>2, <4>2 DEF LastOrderIsMade
      <4> QED
          BY <1>1, <1>2, <4>1, <4>3 DEF LastOrderIsMade, NothingLost, Between
    <3> QED
        BY <1>0, <1>7, <1>9, <1>10, <1>11, <2>2, <3>4, <3>6, <3>7 DEF TalkInv
  <2> QED
      BY <2>3, <2>4
<1> QED
    BY <1>13, <1>14

-----------------------------------------------------------------------------
(* The line: confirmed orders, their requests, and the presses.            *)

\* What goes down the line.
LEMMA LineFact ==
    ASSUME TypeOK
    PROVE  /\ confirmed \in Seq(Press) /\ Len(confirmed) <= Depth /\ queue \in Seq(Press) /\ pressed \in Seq(Press)
           /\ Len(queue) \in Nat /\ DOMAIN queue = 1 .. Len(queue)
           /\ Len(pressed) \in Nat /\ DOMAIN pressed = 1 .. Len(pressed)
           /\ \A o \in Ordered \cup Range(confirmed) : o \in Press /\ o.id \in Said /\ o.id \in Nat /\ o.n \in Nat
<1>1. confirmed \in Seq(Press) /\ Len(confirmed) <= Depth /\ queue \in Seq(Press) /\ pressed \in Seq(Press)
    BY DEF TypeOK
<1>2. Range(confirmed) \subseteq Press /\ Range(queue) \subseteq Press /\ Range(pressed) \subseteq Press
    BY <1>1, PlaceFact
<1>3. \A o \in Press : o.id \in Said /\ o.id \in Nat /\ o.n \in Nat
    BY SaidFact DEF Press
<1> QED
    BY <1>1, <1>2, <1>3, LenProperties DEF Ordered

\* Steps that neither confirm an order nor queue one leave the line in order.
LEMMA LineKept ==
    ASSUME TypeOK, LineInOrder, UNCHANGED confirmed, Ordered' \subseteq Ordered, pending' \in {None, pending},
           \A k \in Said : Past(k) => Past(k)'
    PROVE  LineInOrder'
<1>1. \A o \in Ordered \cup Range(confirmed) : o.id \in Said
    BY LineFact
<1>2. /\ \A i, j \in DOMAIN confirmed' : i < j => confirmed'[i].id < confirmed'[j].id
      /\ \A o \in Ordered', c \in Range(confirmed') : o.id < c.id
    BY DEF LineInOrder
<1>3. \A o \in Ordered' \cup Range(confirmed') : Past(o.id)' /\ (pending' # None => o.id < pending'.id)
    BY <1>1 DEF LineInOrder
<1> QED
    BY <1>2, <1>3 DEF LineInOrder

\* A confirmed order goes behind all others.
LEMMA LineDecision ==
    ASSUME TypeOK, TalkInv, LineInv, OnDecision
    PROVE  LineInv'
<1>0. PICK i, p : i = Head(decisions) /\ p = pending.id
    OBVIOUS
<1>1. /\ IF heard[i].intent = "confirm" THEN Confirm(i) ELSE Replace(i)
      /\ UNCHANGED <<queue, pressed, worker>>
    BY <1>0 DEF OnDecision, pressing
<1>2. \A k \in Said : Past(k) => Past(k)' /\ k < i
    BY <1>0, TalkDecision
<1>3. LineInOrder /\ QueueInOrder /\ PressesInOrder /\ QueueIsQueued
    BY DEF LineInv
<1>4. /\ confirmed \in Seq(Press) /\ Len(confirmed) <= Depth
      /\ \A o \in Ordered \cup Range(confirmed) : o.id \in Said /\ Past(o.id) /\ o.id < i
    BY <1>2, <1>3, LineFact DEF LineInOrder
<1>5. Ordered' = Ordered
    BY <1>1 DEF Ordered
<1>6. QueueInOrder' /\ PressesInOrder'
    BY <1>1, <1>3 DEF QueueInOrder, PressesInOrder
<1>7. CASE UNCHANGED <<confirmed, fate>>
  <2>1. LineInOrder'
    <3>1. CASE pending' \in {None, pending}
        BY <1>2, <1>3, <1>5, <1>7, <3>1, LineKept
    <3>2. CASE pending'.id = i
        BY <1>2, <1>3, <1>4, <1>5, <1>7, <3>2 DEF LineInOrder
    <3> QED
        BY <1>1, <3>1, <3>2 DEF Confirm, Replace
  <2>2. QueueIsQueued'
      BY <1>1, <1>3, <1>7 DEF QueueIsQueued
  <2> QED
      BY <1>6, <2>1, <2>2 DEF LineInv
<1>8. CASE ~ UNCHANGED <<confirmed, fate>>
  <2>1. /\ pending # None /\ pending' = None /\ confirmed' = Push(confirmed, pending)
        /\ fate' = [j \in Said |-> IF \E m \in Overrun(confirmed) : m.id = j THEN "lost"
                                   ELSE IF j = p THEN "sent" ELSE fate[j]]
      BY <1>0, <1>1, <1>8 DEF Confirm, Replace
  <2>2. p \in Said /\ Past(p) /\ pending \in Press
      BY <1>0, <2>1 DEF TalkInv, PendingIsLast, TypeOK, Press
  <2>3. \A o \in Ordered \cup Range(confirmed) : o.id < p
      BY <1>0, <1>3, <2>1 DEF LineInOrder
  <2>4. /\ Range(confirmed') \subseteq Range(confirmed) \cup {pending} /\ confirmed' \in Seq(Press)
        /\ Overrun(confirmed) \subseteq Range(confirmed)
      BY <1>4, <2>1, <2>2, PushFact
  <2>5. \A j, k \in DOMAIN confirmed' : j < k => confirmed'[j].id < confirmed'[k].id
    <3>1. PICK d \in {0, 1} : \A j \in DOMAIN confirmed' :
                  \/ j < Len(confirmed') /\ j + d \in DOMAIN confirmed /\ confirmed'[j] = confirmed[j + d]
                  \/ j = Len(confirmed') /\ confirmed'[j] = pending
      <4> DEFINE c == Push(confirmed, pending)
      <4>1. \E d \in {0, 1} : \A j \in DOMAIN c :
                  \/ j < Len(c) /\ j + d \in DOMAIN confirmed /\ c[j] = confirmed[j + d]
                  \/ j = Len(c) /\ c[j] = pending
          BY <1>4, <2>2, PushFact
      <4>2. confirmed' = c
          BY <2>1
      <4> HIDE DEF c
      <4> QED
          BY <4>1, <4>2
    <3> SUFFICES ASSUME NEW j \in DOMAIN confirmed', NEW k \in DOMAIN confirmed', j < k
                 PROVE  confirmed'[j].id < confirmed'[k].id
        OBVIOUS
    <3> DEFINE n == Len(confirmed')
    <3>2. n \in Nat /\ j \in 1 .. n /\ k \in 1 .. n
        BY <2>4, LenProperties
    <3>3. /\ j < n /\ j + d \in DOMAIN confirmed /\ confirmed'[j] = confirmed[j + d]
          /\ \/ k + d \in DOMAIN confirmed /\ confirmed'[k] = confirmed[k + d]
             \/ confirmed'[k] = pending
      <4> HIDE DEF n
      <4>1. j < n /\ j # n
          BY <3>2
      <4> QED
          BY <3>1, <4>1 DEF n
    <3> HIDE DEF n
    <3>4. j + d < k + d
        BY <3>2
    <3>5. confirmed[j + d] \in Range(confirmed)
        BY <1>4, <3>3, PlaceFact
    <3> QED
        BY <1>0, <1>3, <2>3, <3>3, <3>4, <3>5 DEF LineInOrder
  <2>6. LineInOrder'
    <3>1. \A o \in Ordered, c \in Range(confirmed') : o.id < c.id
        BY <1>0, <1>3, <2>3, <2>4 DEF LineInOrder
    <3>2. \A o \in Ordered \cup Range(confirmed') : Past(o.id)'
        BY <1>0, <1>2, <1>4, <2>2, <2>4
    <3> QED
        BY <1>5, <2>1, <2>5, <3>1, <3>2 DEF LineInOrder
  <2>7. QueueIsQueued'
    <3> SUFFICES ASSUME worker.pc # "abort", NEW o \in Range(queue) PROVE fate'[o.id] = "queued"
        BY <1>1 DEF QueueIsQueued
    <3>1. o.id \in Said /\ fate[o.id] = "queued" /\ o \in Ordered /\ o.id \in Nat
        BY <1>3, <1>4, SaidFact DEF QueueIsQueued, Ordered
    <3>2. o.id # p /\ p \in Nat
        BY <2>2, <2>3, <3>1, SaidFact
    <3>3. \A m \in Overrun(confirmed) : m.id # o.id
        BY <1>3, <1>4, <2>4, <3>1, SaidFact DEF LineInOrder
    <3> QED
        BY <2>1, <3>1, <3>2, <3>3
  <2> QED
      BY <1>6, <2>6, <2>7 DEF LineInv
<1> QED
    BY <1>7, <1>8

\* The requests of an order go behind those that wait.
LEMMA LineConfirmed ==
    ASSUME TypeOK, LineInv, OnConfirmed
    PROVE  LineInv'
<1>0. PICK o : o = Head(confirmed)
    OBVIOUS
<1>1. /\ confirmed # <<>> /\ confirmed' = Tail(confirmed)
      /\ o.n = 0 => fate' = [fate EXCEPT ![o.id] = "blocked"] /\ UNCHANGED <<queue, worker>>
      /\ o.n # 0 => /\ fate' = [fate EXCEPT ![o.id] = "queued"] /\ queue' = queue \o RequestsOf(o)
                    /\ worker' = IF worker.pc = "waits" THEN Idle ELSE worker
      /\ UNCHANGED <<last, decisions, pending, pressed>>
    BY <1>0 DEF OnConfirmed, Enqueue, mapping, managing
<1>2. LineInOrder /\ QueueInOrder /\ PressesInOrder /\ QueueIsQueued
    BY DEF LineInv
<1>3. /\ confirmed \in Seq(Press) /\ queue \in Seq(Press) /\ pressed \in Seq(Press) /\ fate \in [Said -> Fates]
      /\ \A c \in Ordered \cup Range(confirmed) : c.id \in Said /\ c.id \in Nat
    BY LineFact DEF TypeOK
<1>4. /\ 1 \in DOMAIN confirmed /\ o = confirmed[1] /\ o \in Press /\ o \in Range(confirmed)
      /\ Range(confirmed) = {o} \cup Range(confirmed')
      /\ DOMAIN confirmed' = 1 .. Len(confirmed) - 1
      /\ \A j \in DOMAIN confirmed' : j + 1 \in DOMAIN confirmed /\ confirmed'[j] = confirmed[j + 1]
    BY <1>0, <1>1, <1>3, TakeFact
<1>5. o.id \in Said /\ o.id \in Nat /\ o.n \in Nat /\ \A x \in Ordered : x.id < o.id
    BY <1>2, <1>3, <1>4 DEF LineInOrder, Press
<1>6. \A c \in Range(confirmed') : o.id < c.id
  <2>1. \A j \in DOMAIN confirmed' : 1 < j + 1
      BY <1>4
  <2>2. \A j \in DOMAIN confirmed' : o.id < confirmed'[j].id
      BY <1>2, <1>4, <2>1 DEF LineInOrder
  <2> QED
      BY <2>2 DEF Range
<1>7. \A i, j \in DOMAIN confirmed' : i < j => confirmed'[i].id < confirmed'[j].id
  <2>1. \A i, j \in DOMAIN confirmed' : i < j => i + 1 < j + 1
      BY <1>4
  <2> QED
      BY <1>2, <1>4, <2>1 DEF LineInOrder
<1>8. Range(queue) \subseteq Ordered /\ Range(pressed) \subseteq Ordered
    BY DEF Ordered
<1>9. CASE o.n = 0
  <2>1. Ordered' = Ordered
      BY <1>1, <1>9 DEF Ordered
  <2>2. LineInOrder'
      BY <1>1, <1>2, <1>4, <1>7, <2>1 DEF LineInOrder, Past
  <2>3. QueueInOrder' /\ PressesInOrder'
      BY <1>1, <1>2, <1>9 DEF QueueInOrder, PressesInOrder
  <2>4. QueueIsQueued'
    <3>1. \A x \in Range(queue) : x.id # o.id
        BY <1>3, <1>5, <1>8
    <3>2. \A x \in Range(queue) : fate'[x.id] = fate[x.id]
        BY <1>1, <1>3, <1>8, <1>9, <3>1
    <3> QED
        BY <1>1, <1>2, <1>9, <3>2 DEF QueueIsQueued
  <2> QED
      BY <2>2, <2>3, <2>4 DEF LineInv
<1>10. CASE o.n # 0
  <2> DEFINE n == Len(queue)
  <2>1. /\ n \in Nat /\ DOMAIN queue = 1 .. n /\ DOMAIN queue' = 1 .. n + o.n
        /\ \A k \in 1 .. n : queue'[k] = queue[k]
        /\ \A k \in DOMAIN queue' : k > n => queue'[k] = [id |-> o.id, n |-> k - n]
        /\ Range(queue) \subseteq Range(queue') /\ \A x \in Range(queue') : x \in Range(queue) \/ x.id = o.id
    <3>1. PICK q, all, r : q = queue /\ all = queue' /\ r = RequestsOf(o)
        OBVIOUS
    <3>2. /\ r \in Seq(Press) /\ Len(r) = o.n /\ \A k \in 1 .. o.n : r[k] = [id |-> o.id, n |-> k]
          /\ \A x \in Range(r) : x.id = o.id
        BY <1>4, <3>1, RequestsFact
    <3>3. q \in Seq(Press) /\ all = q \o r
        BY <1>1, <1>3, <1>10, <3>1
    <3> DEFINE l == Len(q)
    <3>4. /\ all \in Seq(Press) /\ Len(all) = l + Len(r)
          /\ \A k \in 1 .. l + Len(r) : all[k] = IF k <= l THEN q[k] ELSE r[k - l]
        BY <3>2, <3>3, ConcatProperties
    <3>5. l \in Nat /\ DOMAIN q = 1 .. l /\ DOMAIN all = 1 .. l + o.n
        BY <3>2, <3>3, <3>4, LenProperties
    <3> HIDE DEF l
    <3>6. \A k \in 1 .. l : k \in DOMAIN all /\ all[k] = q[k]
        BY <1>5, <3>2, <3>4, <3>5
    <3>7. ASSUME NEW k \in DOMAIN all, k > l PROVE all[k] = [id |-> o.id, n |-> k - l]
      <4>1. k - l \in 1 .. o.n /\ ~ (k <= l) /\ k \in 1 .. l + o.n
          BY <1>5, <3>5, <3>7
      <4>2. all[k] = r[k - l]
          BY <3>2, <3>4, <4>1
      <4> QED
          BY <3>2, <4>1, <4>2
    <3>8. Range(q) \subseteq Range(all)
        BY <3>5, <3>6 DEF Range
    <3>9. ASSUME NEW x \in Range(all) PROVE x \in Range(q) \/ x.id = o.id
      <4>1. PICK k \in DOMAIN all : x = all[k]
          BY DEF Range
      <4>2. k \in 1 .. l \/ k > l
          BY <1>5, <3>5
      <4>3. CASE k \in 1 .. l
        <5>1. k \in DOMAIN q /\ x = q[k]
            BY <3>5, <3>6, <4>1, <4>3
        <5> QED
            BY <5>1 DEF Range
      <4>4. CASE k > l
          BY <3>7, <4>1, <4>4
      <4> QED
          BY <4>2, <4>3, <4>4
    <3> QED
        BY <3>1, <3>5, <3>6, <3>7, <3>8, <3>9 DEF l
  <2>2. \A k \in 1 .. n : queue[k] \in Range(queue)
      BY <1>3, <2>1, PlaceFact
  <2> HIDE DEF n
  <2>3. LineInOrder'
    <3>1. \A x \in Ordered' : x \in Ordered \/ x.id = o.id
        BY <1>1, <2>1 DEF Ordered
    <3>2. \A x \in Ordered', c \in Range(confirmed') : x.id < c.id
        BY <1>2, <1>4, <1>6, <3>1 DEF LineInOrder
    <3>3. \A x \in Ordered' \cup Range(confirmed') : Past(x.id) /\ (pending # None => x.id < pending.id)
        BY <1>2, <1>4, <3>1 DEF LineInOrder
    <3> QED
        BY <1>1, <1>7, <3>2, <3>3 DEF LineInOrder, Past
  <2>4. QueueInOrder'
    <3> SUFFICES ASSUME NEW k \in DOMAIN queue'
                 PROVE  \/ /\ queue'[k].n = 1 /\ \A j \in 1 .. (k - 1) : queue'[j].id < queue'[k].id
                           /\ \A x \in Range(pressed) : x.id < queue'[k].id
                        \/ k > 1 /\ queue'[k] = [queue'[k - 1] EXCEPT !.n = @ + 1]
                        \/ k = 1 /\ pressed # <<>> /\ queue'[1] = [pressed[Len(pressed)] EXCEPT !.n = @ + 1]
        BY <1>1 DEF QueueInOrder
    <3>1. k \in Nat /\ k > 0
        BY <1>5, <2>1
    <3>2. CASE k \in 1 .. n
      <4>1. \A j \in 1 .. k : queue'[j] = queue[j]
          BY <2>1, <3>1, <3>2
      <4>2. /\ queue'[k] = queue[k] /\ \A j \in 1 .. (k - 1) : queue'[j] = queue[j]
            /\ k > 1 => queue'[k - 1] = queue[k - 1]
            /\ k = 1 => queue'[1] = queue[1]
          BY <3>1, <4>1
      <4>3. \/ /\ queue[k].n = 1 /\ \A j \in 1 .. (k - 1) : queue[j].id < queue[k].id
               /\ \A x \in Range(pressed) : x.id < queue[k].id
            \/ k > 1 /\ queue[k] = [queue[k - 1] EXCEPT !.n = @ + 1]
            \/ k = 1 /\ pressed # <<>> /\ queue[1] = [pressed[Len(pressed)] EXCEPT !.n = @ + 1]
          BY <1>2, <2>1, <3>2 DEF QueueInOrder
      <4> QED
          BY <4>2, <4>3
    <3>3. CASE k = n + 1
      <4>1. queue'[k].n = 1 /\ queue'[k].id = o.id
        <5>1. k > n /\ k \in DOMAIN queue' /\ k - n = 1
            BY <2>1, <3>3
        <5>2. queue'[k] = [id |-> o.id, n |-> k - n]
            BY <2>1, <5>1
        <5> QED
            BY <5>1, <5>2
      <4>2. \A j \in 1 .. (k - 1) : queue'[j].id < o.id
          BY <1>5, <1>8, <2>1, <2>2, <3>3
      <4> QED
          BY <1>5, <1>8, <4>1, <4>2
    <3>4. CASE k > n + 1
      <4>1. k - 1 \in DOMAIN queue' /\ k - 1 > n /\ k > n /\ k > 1
          BY <1>5, <2>1, <3>4
      <4>2. queue'[k] = [id |-> o.id, n |-> k - n] /\ queue'[k - 1] = [id |-> o.id, n |-> (k - 1) - n]
          BY <2>1, <4>1
      <4>3. (k - 1) - n + 1 = k - n
          BY <2>1, <3>1
      <4> QED
          BY <4>1, <4>2, <4>3
    <3> QED
        BY <2>1, <3>1, <3>2, <3>3, <3>4
  <2>5. PressesInOrder'
      BY <1>1, <1>2 DEF PressesInOrder
  <2>6. QueueIsQueued'
    <3> SUFFICES ASSUME worker'.pc # "abort", NEW x \in Range(queue') PROVE fate'[x.id] = "queued"
        BY DEF QueueIsQueued
    <3>1. CASE x.id = o.id
        BY <1>1, <1>3, <1>5, <1>10, <3>1
    <3>2. CASE x \in Range(queue) /\ x.id # o.id
      <4>1. worker.pc # "abort"
          BY <1>1, <1>10
      <4> QED
          BY <1>1, <1>2, <1>3, <1>8, <1>10, <3>2, <4>1 DEF QueueIsQueued
    <3> QED
        BY <2>1, <3>1, <3>2
  <2> QED
      BY <2>3, <2>4, <2>5, <2>6 DEF LineInv
<1> QED
    BY <1>9, <1>10

\* The worker takes what has waited longest.
LEMMA LineTakes ==
    ASSUME TypeOK, LineInv, WorkerTakes
    PROVE  LineInv'
<1>1. /\ queue # <<>> /\ queue' = Tail(queue) /\ pressed' = Append(pressed, Head(queue))
      /\ worker.pc = "idle"
      /\ UNCHANGED <<last, decisions, pending, confirmed, fate>>
    BY DEF WorkerTakes, mapping, managing
<1>2. LineInOrder /\ QueueInOrder /\ PressesInOrder /\ QueueIsQueued
    BY DEF LineInv
<1> DEFINE n == Len(queue)
           l == Len(pressed)
<1>3. queue \in Seq(Press) /\ pressed \in Seq(Press) /\ n \in Nat /\ l \in Nat /\ DOMAIN pressed = 1 .. l
    BY LineFact
<1>4. /\ 1 \in DOMAIN queue /\ Head(queue) = queue[1] /\ queue[1] \in Press
      /\ DOMAIN queue' = 1 .. n - 1
      /\ \A j \in DOMAIN queue' : j + 1 \in DOMAIN queue /\ queue'[j] = queue[j + 1]
      /\ Range(queue) = {queue[1]} \cup Range(queue')
    BY <1>1, <1>3, TakeFact
<1>5. /\ Len(pressed') = l + 1 /\ DOMAIN pressed' = 1 .. l + 1
      /\ \A j \in 1 .. l : pressed'[j] = pressed[j]
      /\ pressed'[l + 1] = queue[1]
      /\ Range(pressed') = Range(pressed) \cup {queue[1]}
  <2>1. PICK m : m = queue[1]
      OBVIOUS
  <2>2. pressed' = Append(pressed, m) /\ m \in Press
      BY <1>1, <1>4, <2>1
  <2>3. /\ Len(Append(pressed, m)) = l + 1 /\ DOMAIN Append(pressed, m) = 1 .. l + 1
        /\ \A j \in 1 .. l : Append(pressed, m)[j] = pressed[j]
        /\ Append(pressed, m)[l + 1] = m
        /\ Range(Append(pressed, m)) = Range(pressed) \cup {m}
      BY <1>3, <2>2, AppendFact
  <2> QED
      BY <2>1, <2>2, <2>3
<1> HIDE DEF n, l
<1>6. Ordered' = Ordered
    BY <1>4, <1>5 DEF Ordered
<1>7. LineInOrder'
    BY <1>1, <1>2, <1>6 DEF LineInOrder, Past
<1>8. \/ /\ queue[1].n = 1 /\ \A o \in Range(pressed) : o.id < queue[1].id
      \/ pressed # <<>> /\ queue[1] = [pressed[l] EXCEPT !.n = @ + 1]
    BY <1>2, <1>4 DEF QueueInOrder, l
<1>9. PressesInOrder'
  <2> SUFFICES ASSUME NEW k \in 1 .. l + 1
               PROVE  \/ pressed'[k].n = 1 /\ \A j \in 1 .. (k - 1) : pressed'[j].id < pressed'[k].id
                      \/ k > 1 /\ pressed'[k] = [pressed'[k - 1] EXCEPT !.n = @ + 1]
      BY <1>5 DEF PressesInOrder
  <2>1. CASE k \in 1 .. l
    <3>1. /\ pressed'[k] = pressed[k] /\ \A j \in 1 .. (k - 1) : pressed'[j] = pressed[j]
          /\ k > 1 => pressed'[k - 1] = pressed[k - 1]
        BY <1>3, <1>5, <2>1
    <3>2. \/ pressed[k].n = 1 /\ \A j \in 1 .. (k - 1) : pressed[j].id < pressed[k].id
          \/ k > 1 /\ pressed[k] = [pressed[k - 1] EXCEPT !.n = @ + 1]
        BY <1>2, <1>3, <2>1 DEF PressesInOrder
    <3> QED
        BY <3>1, <3>2
  <2>2. CASE k = l + 1
    <3>1. k - 1 = l
        BY <1>3, <2>2
    <3>2. \A j \in 1 .. l : pressed'[j] = pressed[j] /\ pressed[j] \in Range(pressed)
        BY <1>3, <1>5, PlaceFact
    <3>3. CASE queue[1].n = 1 /\ \A o \in Range(pressed) : o.id < queue[1].id
        BY <1>5, <2>2, <3>1, <3>2, <3>3
    <3>4. CASE pressed # <<>> /\ queue[1] = [pressed[l] EXCEPT !.n = @ + 1]
      <4>1. l # 0
          BY <1>3, <3>4, EmptySeq DEF l
      <4>2. l \in 1 .. l /\ k > 1
          BY <1>3, <2>2, <4>1
      <4> QED
          BY <1>5, <2>2, <3>1, <3>4, <4>2
    <3> QED
        BY <1>8, <3>3, <3>4
  <2> QED
      BY <1>3, <2>1, <2>2
<1>10. QueueInOrder'
  <2> SUFFICES ASSUME NEW k \in DOMAIN queue'
               PROVE  \/ /\ queue'[k].n = 1 /\ \A j \in 1 .. (k - 1) : queue'[j].id < queue'[k].id
                         /\ \A o \in Range(pressed') : o.id < queue'[k].id
                      \/ k > 1 /\ queue'[k] = [queue'[k - 1] EXCEPT !.n = @ + 1]
                      \/ k = 1 /\ pressed' # <<>> /\ queue'[1] = [pressed'[Len(pressed')] EXCEPT !.n = @ + 1]
      BY DEF QueueInOrder
  <2>1. k \in Nat /\ k > 0 /\ k + 1 > 1 /\ k + 1 # 1 /\ k + 1 \in DOMAIN queue /\ (k + 1) - 1 = k
      BY <1>3, <1>4
  <2>2. \/ /\ queue[k + 1].n = 1 /\ \A j \in 1 .. k : queue[j].id < queue[k + 1].id
           /\ \A o \in Range(pressed) : o.id < queue[k + 1].id
        \/ queue[k + 1] = [queue[k] EXCEPT !.n = @ + 1]
    <3>1. PICK x : x = k + 1
        OBVIOUS
    <3>2. \/ /\ queue[x].n = 1 /\ \A j \in 1 .. (x - 1) : queue[j].id < queue[x].id
             /\ \A o \in Range(pressed) : o.id < queue[x].id
          \/ queue[x] = [queue[x - 1] EXCEPT !.n = @ + 1]
        BY <1>2, <2>1, <3>1 DEF QueueInOrder
    <3> QED
        BY <2>1, <3>1, <3>2
  <2>3. CASE /\ queue[k + 1].n = 1 /\ \A j \in 1 .. k : queue[j].id < queue[k + 1].id
             /\ \A o \in Range(pressed) : o.id < queue[k + 1].id
    <3>1. queue'[k].n = 1
        BY <1>4, <2>3
    <3>2. \A j \in 1 .. (k - 1) : j \in DOMAIN queue' /\ j + 1 \in 1 .. k
        BY <1>3, <1>4, <2>1
    <3>3. \A j \in 1 .. (k - 1) : queue'[j].id < queue'[k].id
        BY <1>4, <2>3, <3>2
    <3>4. \A o \in Range(pressed') : o.id < queue'[k].id
      <4>1. 1 \in 1 .. k
          BY <2>1
      <4> QED
          BY <1>4, <1>5, <2>3, <4>1
    <3> QED
        BY <3>1, <3>3, <3>4
  <2>4. CASE queue[k + 1] = [queue[k] EXCEPT !.n = @ + 1]
    <3>1. CASE k = 1
      <4>1. pressed' # <<>>
          BY <1>3, <1>5, EmptySeq
      <4>2. queue'[1] = [queue[1] EXCEPT !.n = @ + 1]
          BY <1>4, <2>4, <3>1
      <4>3. pressed'[Len(pressed')] = queue[1]
          BY <1>5
      <4> QED
          BY <3>1, <4>1, <4>2, <4>3
    <3>2. CASE k > 1
      <4>1. k - 1 \in DOMAIN queue' /\ (k - 1) + 1 = k
          BY <1>3, <1>4, <2>1, <3>2
      <4>2. queue'[k - 1] = queue[k] /\ queue'[k] = queue[k + 1]
          BY <1>4, <4>1
      <4> QED
          BY <2>4, <3>2, <4>2
    <3> QED
        BY <2>1, <3>1, <3>2
  <2> QED
      BY <2>2, <2>3, <2>4
<1>11. QueueIsQueued'
    BY <1>1, <1>2, <1>4 DEF QueueIsQueued
<1> QED
    BY <1>7, <1>9, <1>10, <1>11 DEF LineInv

-----------------------------------------------------------------------------
(* The whole way.                                                          *)

LEMMA VoiceInit == Init => VoiceInv
<1> SUFFICES ASSUME Init PROVE VoiceInv
    OBVIOUS
<1>1. TypeOK
    BY TypeInit
<1>2. /\ said = <<>> /\ stt = <<>> /\ last = 0 /\ decisions = <<>> /\ pending = None /\ made = {}
      /\ confirmed = <<>> /\ queue = <<>> /\ pressed = <<>> /\ heard = [i \in Said |-> NoDecision]
    BY DEF Init
<1>3. Len(<<>>) = 0 /\ DOMAIN <<>> = {} /\ Range(<<>>) = {}
    BY DEF Range
<1>4. \A k \in Said : ~Mapped(k)
    BY <1>2 DEF Mapped, NoDecision
<1>5. TopicsInOrder /\ HeardOK /\ NothingForgotten
    BY <1>2, <1>3, <1>4 DEF TopicsInOrder, Increasing, HeardOK, NothingForgotten
<1>6. PendingIsLast /\ MadeIsPast /\ CancelHolds /\ LastOrderIsMade
    BY <1>2 DEF PendingIsLast, MadeIsPast, CancelHolds, LastOrderIsMade
<1>7. LineInOrder /\ QueueInOrder /\ PressesInOrder /\ QueueIsQueued
    BY <1>2, <1>3 DEF LineInOrder, Ordered, QueueInOrder, PressesInOrder, QueueIsQueued
<1> QED
    BY <1>1, <1>5, <1>6, <1>7 DEF VoiceInv, TalkInv, LineInv

\* A worker whose press ends without an error leaves the orders in the queue as they are.
LEMMA DoneKeeps ==
    ASSUME TypeOK, LineInv, PressDone
    PROVE  QueueIsQueued'
<1>1. /\ worker.pc = "press" /\ UNCHANGED queue
      /\ fate' = IF \E k \in DOMAIN queue : queue[k].id = worker.id THEN fate ELSE [fate EXCEPT ![worker.id] = "completed"]
    BY DEF PressDone
<1>2. queue \in Seq(Press) /\ fate \in [Said -> Fates] /\ \A o \in Range(queue) : o.id \in Said
    BY LineFact DEF TypeOK, Ordered
<1>3. \A o \in Range(queue) : fate[o.id] = "queued"
    BY <1>1 DEF LineInv, QueueIsQueued
<1>4. \A o \in Range(queue) : \E k \in DOMAIN queue : queue[k].id = o.id
    BY <1>2, PlaceFact
<1>5. \A o \in Range(queue) : fate'[o.id] = "queued"
    BY <1>1, <1>2, <1>3, <1>4
<1> QED
    BY <1>1, <1>5 DEF QueueIsQueued

\* Every step keeps the invariant.
LEMMA VoiceStep ==
    ASSUME VoiceInv, [Next]_vars
    PROVE  VoiceInv'
<1>1. TypeOK /\ TalkInv /\ LineInv
    BY DEF VoiceInv
<1>2. TypeOK'
    BY <1>1, TypeStep DEF TalkInv
<1>3. LineInOrder /\ QueueInOrder /\ PressesInOrder /\ QueueIsQueued
    BY <1>1 DEF LineInv
<1>4. UNCHANGED <<last, decisions>> => \A k \in Said : Past(k) => Past(k)'
    BY DEF Past
<1>5. UNCHANGED <<queue, pressed>> => QueueInOrder' /\ PressesInOrder' /\ Ordered' = Ordered
    BY <1>3 DEF QueueInOrder, PressesInOrder, Ordered
<1>6. UNCHANGED <<queue, fate, worker>> => QueueIsQueued'
    BY <1>3 DEF QueueIsQueued
<1>7. CASE Say
  <2>1. TalkInv'
      BY <1>1, <1>7, TalkSay
  <2>2. UNCHANGED <<last, decisions, pending, confirmed, queue, pressed, worker, fate>>
      BY <1>7 DEF Say, mapping, managing, pressing
  <2>3. LineInOrder'
      BY <1>1, <1>3, <1>4, <1>5, <2>2, LineKept
  <2> QED
      BY <1>2, <1>5, <1>6, <2>1, <2>2, <2>3 DEF VoiceInv, LineInv
<1>8. CASE Map
  <2>1. UNCHANGED <<pending, confirmed, queue, pressed, worker, fate>>
      BY <1>8 DEF Map, managing, pressing
  <2>2. CASE Duplicate(Head(stt))
    <3>1. UNCHANGED <<last, decisions>>
        BY <1>8, <2>2 DEF Map, mapping
    <3>2. TalkInv'
        BY <1>1, <1>8, <2>2, TalkDuplicate
    <3>3. LineInOrder'
        BY <1>1, <1>3, <1>4, <1>5, <2>1, <3>1, LineKept
    <3> QED
        BY <1>2, <1>5, <1>6, <2>1, <3>2, <3>3 DEF VoiceInv, LineInv
  <2>3. CASE ~Duplicate(Head(stt))
    <3>1. TalkInv' /\ \A k \in Said : Past(k) => Past(k)'
        BY <1>1, <1>8, <2>3, TalkMap
    <3>2. LineInOrder'
        BY <1>1, <1>3, <1>5, <2>1, <3>1, LineKept
    <3> QED
        BY <1>2, <1>5, <1>6, <2>1, <3>1, <3>2 DEF VoiceInv, LineInv
  <2> QED
      BY <2>2, <2>3
<1>9. CASE OnDecision
    BY <1>1, <1>2, <1>9, TalkDecision, LineDecision DEF VoiceInv
<1>10. CASE OnConfirmed
  <2>1. UNCHANGED <<llm, said, stt, last, heard, decisions, pending, made, lost>>
      BY <1>10 DEF OnConfirmed, mapping, managing
  <2> QED
      BY <1>1, <1>2, <1>10, <2>1, TalkSame, LineConfirmed DEF VoiceInv
<1>11. CASE WorkerTakes
  <2>1. UNCHANGED <<llm, said, stt, last, heard, decisions, pending, made, lost>>
      BY <1>11 DEF WorkerTakes, mapping, managing
  <2> QED
      BY <1>1, <1>2, <1>11, <2>1, TalkSame, LineTakes DEF VoiceInv
<1>12. CASE WindowPasses \/ PendingAges \/ WorkerWaits \/ PressDone \/ PressFails \/ UNCHANGED vars
  <2>1. UNCHANGED <<llm, said, stt, last, heard, decisions, pending, made, lost, confirmed, queue, pressed>>
      BY <1>12 DEF WindowPasses, PendingAges, WorkerWaits, PressDone, PressFails, vars, mapping, managing, pressing
  <2>2. TalkInv'
      BY <1>1, <2>1, TalkSame
  <2>3. LineInOrder'
      BY <1>1, <1>3, <1>4, <1>5, <2>1, LineKept
  <2>4. QueueIsQueued'
    <3>1. CASE PressDone
        BY <1>1, <3>1, DoneKeeps
    <3>2. CASE PressFails
        BY <3>2 DEF PressFails, QueueIsQueued, TypeOK
    <3>3. CASE WorkerWaits
        BY <1>3, <3>3 DEF WorkerWaits, QueueIsQueued
    <3>4. CASE WindowPasses \/ PendingAges \/ UNCHANGED vars
        BY <1>6, <3>4 DEF WindowPasses, PendingAges, vars, pressing
    <3> QED
        BY <1>12, <3>1, <3>2, <3>3, <3>4
  <2> QED
      BY <1>2, <1>5, <2>1, <2>2, <2>3, <2>4 DEF VoiceInv, LineInv
<1>13. CASE AbortPending
  <2>1. /\ UNCHANGED <<llm, said, stt, last, heard, decisions, pending, made, lost, confirmed, pressed>>
        /\ queue' = <<>>
      BY <1>13 DEF AbortPending, mapping, managing
  <2>2. TalkInv'
      BY <1>1, <2>1, TalkSame
  <2>3. DOMAIN queue' = {} /\ Range(queue') = {}
      BY <2>1 DEF Range
  <2>4. LineInOrder'
    <3>1. Ordered' \subseteq Ordered
        BY <2>1, <2>3 DEF Ordered
    <3> QED
        BY <1>1, <1>3, <1>4, <2>1, <3>1, LineKept
  <2>5. QueueInOrder' /\ PressesInOrder' /\ QueueIsQueued'
      BY <1>3, <2>1, <2>3 DEF QueueInOrder, PressesInOrder, QueueIsQueued
  <2> QED
      BY <1>2, <2>2, <2>4, <2>5 DEF VoiceInv, LineInv
<1> QED
    BY <1>7, <1>8, <1>9, <1>10, <1>11, <1>12, <1>13 DEF Next

\* The inductive invariant holds in every state.
THEOREM VoiceInvariance == Spec => []VoiceInv
<1>1. Init => VoiceInv
    BY VoiceInit
<1>2. VoiceInv /\ [Next]_vars => VoiceInv'
    BY VoiceStep
<1> QED
    BY <1>1, <1>2, PTL DEF Spec

\* Every variable keeps its type, and no queue grows beyond its depth.
THEOREM VoiceTypeCorrect == Spec => []TypeOK
<1>1. VoiceInv => TypeOK
    BY DEF VoiceInv
<1> QED
    BY <1>1, VoiceInvariance, PTL

\* What a confirmation makes was not called off before it: the one pending order of the
\* conversation manager, cleared by a cancellation, and the mapper that lets the parser's
\* cancellation stand against the model's answer.
THEOREM CalledOffIsNotMade == Spec => []CancelHolds
<1>1. VoiceInv => CancelHolds
    BY DEF VoiceInv, TalkInv
<1> QED
    BY <1>1, VoiceInvariance, PTL

\* A confirmation makes the order given last, and no order is made twice.
THEOREM LastOrderOnce == Spec => []LastOrderIsMade
<1>1. VoiceInv => LastOrderIsMade
    BY DEF VoiceInv, TalkInv
<1> QED
    BY <1>1, VoiceInvariance, PTL

\* Drinks do not mix: the worker's deque hands the presses out order by order, without a gap.
THEOREM DrinksDoNotMix == Spec => []PressesInOrder
<1>1. VoiceInv => PressesInOrder
    BY DEF VoiceInv, LineInv
<1> QED
    BY <1>1, VoiceInvariance, PTL

\* No press starts for an order that failed or was dropped with the queue: the worker empties the
\* queue before it takes another request.
THEOREM NotPouredOn == Spec => NothingAfterFailure
<1> DEFINE A == \A k \in DOMAIN pressed' : k > Len(pressed) => fate[pressed'[k].id] = "queued"
<1>1. ASSUME VoiceInv, [Next]_vars PROVE A \/ UNCHANGED vars
  <2>1. TypeOK /\ QueueIsQueued
      BY <1>1 DEF VoiceInv, LineInv
  <2>2. pressed \in Seq(Press) /\ Len(pressed) \in Nat /\ DOMAIN pressed = 1 .. Len(pressed) /\ queue \in Seq(Press)
      BY <2>1, LineFact
  <2>3. CASE UNCHANGED pressed
    <3>1. \A k \in 1 .. Len(pressed) : ~ (k > Len(pressed))
        BY <2>2
    <3> QED
        BY <2>2, <2>3, <3>1
  <2>4. CASE WorkerTakes
    <3>1. worker.pc = "idle" /\ queue # <<>> /\ pressed' = Append(pressed, Head(queue))
        BY <2>4 DEF WorkerTakes
    <3>2. Head(queue) \in Press /\ fate[Head(queue).id] = "queued"
        BY <2>1, <2>2, <3>1, TakeFact DEF QueueIsQueued
    <3>3. DOMAIN pressed' = 1 .. Len(pressed) + 1 /\ pressed'[Len(pressed) + 1] = Head(queue)
        BY <2>2, <3>1, <3>2, AppendFact
    <3>4. \A k \in DOMAIN pressed' : k > Len(pressed) => k = Len(pressed) + 1
        BY <2>2, <3>3
    <3> QED
        BY <3>2, <3>3, <3>4
  <2> QED
      BY <1>1, <2>3, <2>4 DEF Next, Say, Map, WindowPasses, OnDecision, PendingAges, OnConfirmed, WorkerWaits, PressDone,
                              PressFails, AbortPending, pressing, vars
<1> HIDE DEF A
<1>2. VoiceInv /\ [Next]_vars => [A]_vars
    BY <1>1
<1>3. Spec => [][A]_vars
    BY <1>2, VoiceInvariance, PTL DEF Spec
<1> QED
    BY <1>3 DEF A, NothingAfterFailure
=============================================================================
