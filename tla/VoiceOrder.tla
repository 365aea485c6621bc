------------------------------ MODULE VoiceOrder ------------------------------
(***************************************************************************)
(* An order by voice: utterances reach the recipe mapper (the parser with  *)
(* its duplicate window, or the LLM whose answers the parser corrects),    *)
(* its decisions reach the conversation manager that keeps one pending     *)
(* order until it is confirmed, and confirmed orders reach the dispenser   *)
(* executor, whose worker thread runs one press after the other.  The      *)
(* nodes are joined by topics that keep the newest Depth messages.         *)
(***************************************************************************)
EXTENDS Naturals, Sequences, FiniteSets, SequencesExt

CONSTANTS
    Utterances,     \* what is said: [words : subset of WordKinds, recipe : recipe named or NoRecipe]
    Catalog,        \* the recipes of the catalogue
    PressesOf,      \* recipe -> presses of its dispensers, the custom ones included
    Depth,          \* queue depth of every subscription
    MaxSaid         \* bound: utterances

NoRecipe == "no_recipe"
Colors == "custom_color_selection"
Mix == "custom_preference_mix"
Recipes == Catalog \cup {Colors, Mix}
\* The lists of words that parse_recipe_command looks for in an utterance.
WordKinds == {"recovery", "reroll", "cancel", "recipe", "colors", "preference", "degree", "random", "confirm"}

ASSUME VoiceAssumption ==
    /\ Utterances \subseteq [words : SUBSET WordKinds, recipe : Catalog \cup {NoRecipe}]
    /\ \A u \in Utterances : "recipe" \in u.words <=> u.recipe # NoRecipe
    /\ PressesOf \in [Recipes -> Nat] /\ \A r \in Catalog : PressesOf[r] > 0
    /\ Depth \in Nat \ {0} /\ MaxSaid \in Nat

Said == 1 .. MaxSaid
None == [id |-> 0, n |-> 0]

VARIABLES
    llm,            \* whether the mapper is the LLM one (fixed at launch)
    said,           \* history: what was said, in the order of /stt_result
    stt,            \* /stt_result at the mapper: indices of said
    last, fresh,    \* the mapper's last utterance, and whether its window is still open
    heard,          \* history: utterance -> what the mapper made of it
    decisions,      \* the decision topic at the manager
    pending, old,   \* the pending order [id, n], and whether pending_timeout_s has passed
    made,           \* history: orders confirmed, [order, by]
    confirmed,      \* the confirmed topic at the executor: [id, n]
    queue,          \* the executor's deque: [id, n] = press n of order id
    worker,         \* the worker thread
    pressed,        \* history: presses that were started
    fate,           \* history: what became of each confirmed order
    lost            \* history: messages dropped by a full queue

vars == <<llm, said, stt, last, fresh, heard, decisions, pending, old, made, confirmed, queue, worker,
          pressed, fate, lost>>
mapping == <<llm, last, fresh, heard>>
managing == <<pending, old, made>>
pressing == <<queue, worker, pressed>>

Idle == [pc |-> "idle", id |-> 0, n |-> 0]
NoDecision == [intent |-> "none", n |-> 0]

Init ==
    /\ llm \in BOOLEAN /\ said = <<>> /\ stt = <<>> /\ last = 0 /\ fresh = FALSE
    /\ heard = [i \in Said |-> NoDecision] /\ decisions = <<>>
    /\ pending = None /\ old = FALSE /\ made = {} /\ confirmed = <<>>
    /\ queue = <<>> /\ worker = Idle /\ pressed = <<>>
    /\ fate = [i \in Said |-> "none"] /\ lost = {}

\* Mutant: the queue has no limit.
PushAll(q, m) == Append(q, m)

\* KEEP_LAST: a full queue gives up its oldest message.
Push(q, m) == IF Len(q) < Depth THEN Append(q, m) ELSE Append(Tail(q), m)
Overrun(q) == IF Len(q) < Depth THEN {} ELSE {Head(q)}

-----------------------------------------------------------------------------
(* The mapper.                                                             *)

\* A decision: its intent and, for an order, the number of presses it asks for.
Order(recipe) == [intent |-> "make_cocktail", n |-> PressesOf[recipe]]
Speaks(intent) == [intent |-> intent, n |-> 0]

Recommends(u) == "reroll" \in u.words \/ ("random" \in u.words /\ ~("preference" \in u.words))
CustomMix(u) ==
    /\ u.words \cap {"recipe", "reroll"} = {} /\ "preference" \in u.words
    /\ "colors" \in u.words => "degree" \in u.words

\* parse_recipe_command: what the deterministic parser may answer; the recommendation is random.
Parse(u) ==
    IF "recovery" \in u.words THEN {Speaks("recovery")}
    ELSE IF "reroll" \in u.words THEN {Order(r) : r \in Catalog}
    ELSE IF "cancel" \in u.words THEN {Speaks("cancel")}
    ELSE IF CustomMix(u) THEN {Order(Mix)}
    ELSE IF "recipe" \in u.words THEN {Order(u.recipe)}
    ELSE IF "colors" \in u.words THEN {Order(Colors)}
    ELSE IF Recommends(u) THEN {Order(r) : r \in Catalog}
    ELSE IF "confirm" \in u.words THEN {Speaks("confirm")}
    ELSE {Speaks("unknown")}

Spoken == {"confirm", "cancel", "recovery"}
\* Whatever the model answers: an intent, or an order with the catalogue's presses or its own.
Answers == {Speaks(i) : i \in Spoken \cup {"unknown"}} \cup {Order(r) : r \in Recipes}
               \cup {[Order(Mix) EXCEPT !.n = 0]}

\* Mutant: the model's word counts for more than the parser's.
ParseAndAnswerTrusting(u) == Parse(u) \cup Answers

\* _map_text: an error of the model falls back on the parser, and its answer is put right by
\* the parser where that one is sure of a command or recommends a recipe.
ParseAndAnswer(u) ==
    IF (\E d \in Parse(u) : d.intent \in Spoken) \/ (Recommends(u) /\ u.words \cap {"recipe", "colors"} = {})
       \/ "reroll" \in u.words
    THEN Parse(u)
    ELSE Parse(u) \cup Answers

Say ==
    /\ Len(said) < MaxSaid
    /\ \E u \in Utterances : said' = Append(said, u)
    /\ stt' = Push(stt, Len(said) + 1) /\ lost' = lost \cup Overrun(stt)
    /\ UNCHANGED <<mapping, decisions, managing, confirmed, pressing, fate>>

Duplicate(i) == ~llm /\ fresh /\ last # 0 /\ said[i] = said[last]

Map ==
    /\ stt # <<>> /\ stt' = Tail(stt)
    /\ LET i == Head(stt)
       IN IF Duplicate(i)
          THEN UNCHANGED <<mapping, decisions, lost>>
          ELSE \E d \in (IF llm THEN ParseAndAnswer(said[i]) ELSE Parse(said[i])) :
                   /\ heard' = [heard EXCEPT ![i] = d]
                   /\ decisions' = Push(decisions, i) /\ lost' = lost \cup Overrun(decisions)
                   /\ last' = i /\ fresh' = ~llm
                   /\ UNCHANGED llm
    /\ UNCHANGED <<said, managing, confirmed, pressing, fate>>

WindowPasses ==
    /\ fresh /\ fresh' = FALSE
    /\ UNCHANGED <<llm, said, stt, last, heard, decisions, managing, confirmed, pressing, fate, lost>>

-----------------------------------------------------------------------------
(* The conversation manager.                                               *)

\* _on_decision but for a confirmation.
Replace(i) ==
    LET d == heard[i]
    IN /\ pending' = CASE d.intent = "make_cocktail" -> [id |-> i, n |-> d.n]
                       [] d.intent = "cancel" -> None
                       [] OTHER -> pending
       /\ old' = (old /\ d.intent \notin {"make_cocktail", "cancel"})
       /\ UNCHANGED <<made, confirmed, fate, lost>>

\* Mutant: the order stays pending after it was confirmed.
ConfirmKeeps(i) ==
    /\ IF pending = None \/ old
       THEN pending' = None /\ old' = FALSE /\ UNCHANGED <<made, confirmed, fate, lost>>
       ELSE /\ made' = made \cup {[order |-> pending.id, by |-> i]}
            /\ confirmed' = Push(confirmed, pending)
            /\ fate' = [fate EXCEPT ![pending.id] = "sent"]
            /\ UNCHANGED <<pending, old, lost>>

\* _handle_confirm: nothing is pending, the order has expired, or it goes to the executors.
Confirm(i) ==
    /\ pending' = None /\ old' = FALSE
    /\ IF pending = None \/ old
       THEN UNCHANGED <<made, confirmed, fate, lost>>
       ELSE /\ made' = made \cup {[order |-> pending.id, by |-> i]}
            /\ confirmed' = Push(confirmed, pending)
            /\ fate' = [j \in Said |-> IF \E m \in Overrun(confirmed) : m.id = j THEN "lost"
                                       ELSE IF j = pending.id THEN "sent" ELSE fate[j]]
            /\ UNCHANGED lost

OnDecision ==
    /\ decisions # <<>> /\ decisions' = Tail(decisions)
    /\ LET i == Head(decisions)
       IN IF heard[i].intent = "confirm" THEN Confirm(i) ELSE Replace(i)
    /\ UNCHANGED <<said, stt, mapping, pressing>>

PendingAges ==
    /\ pending # None /\ ~old /\ old' = TRUE
    /\ UNCHANGED <<said, stt, mapping, decisions, pending, made, confirmed, pressing, fate, lost>>

-----------------------------------------------------------------------------
(* The dispenser executor.                                                 *)

RequestsOf(o) == [k \in 1 .. o.n |-> [id |-> o.id, n |-> k]]

\* Mutant: the requests are queued and the worker is not notified.
EnqueueQuietly(o) == queue' = queue \o RequestsOf(o) /\ UNCHANGED worker

\* All requests of the order in one critical section, and a notify for a worker that waits.
Enqueue(o) ==
    /\ queue' = queue \o RequestsOf(o)
    /\ worker' = IF worker.pc = "waits" THEN Idle ELSE worker

OnConfirmed ==
    /\ confirmed # <<>> /\ confirmed' = Tail(confirmed)
    /\ LET o == Head(confirmed)
       IN IF o.n = 0
          THEN fate' = [fate EXCEPT ![o.id] = "blocked"] /\ UNCHANGED <<queue, worker>>
          ELSE fate' = [fate EXCEPT ![o.id] = "queued"] /\ Enqueue(o)
    /\ UNCHANGED <<said, stt, mapping, decisions, managing, pressed, lost>>

WorkerWaits ==
    /\ worker.pc = "idle" /\ queue = <<>>
    /\ worker' = [Idle EXCEPT !.pc = "waits"]
    /\ UNCHANGED <<said, stt, mapping, decisions, managing, confirmed, queue, pressed, fate, lost>>

\* Mutant: the request added last is taken.
WorkerTakesLast ==
    /\ worker.pc = "idle" /\ queue # <<>>
    /\ queue' = Front(queue)
    /\ worker' = [pc |-> "press", id |-> Last(queue).id, n |-> Last(queue).n]
    /\ pressed' = Append(pressed, Last(queue))
    /\ UNCHANGED <<said, stt, mapping, decisions, managing, confirmed, fate, lost>>

WorkerTakes ==
    /\ worker.pc = "idle" /\ queue # <<>>
    /\ queue' = Tail(queue)
    /\ worker' = [pc |-> "press", id |-> Head(queue).id, n |-> Head(queue).n]
    /\ pressed' = Append(pressed, Head(queue))
    /\ UNCHANGED <<said, stt, mapping, decisions, managing, confirmed, fate, lost>>

\* The launch ends with return code 0, or this is a dry run.
PressDone ==
    /\ worker.pc = "press" /\ worker' = Idle
    /\ fate' = IF \E k \in DOMAIN queue : queue[k].id = worker.id THEN fate
               ELSE [fate EXCEPT ![worker.id] = "completed"]
    /\ UNCHANGED <<said, stt, mapping, decisions, managing, confirmed, queue, pressed, lost>>

\* No ros2, no launch, or a return code: "failed" is published before the queue is emptied.
PressFails ==
    /\ worker.pc = "press" /\ worker' = [worker EXCEPT !.pc = "abort"]
    /\ fate' = [fate EXCEPT ![worker.id] = "failed"]
    /\ UNCHANGED <<said, stt, mapping, decisions, managing, confirmed, queue, pressed, lost>>

\* Mutant: the requests that wait are left in the queue.
AbortPendingKeeps ==
    /\ worker.pc = "abort" /\ worker' = Idle
    /\ UNCHANGED <<said, stt, mapping, decisions, managing, confirmed, queue, pressed, fate, lost>>

\* _abort_pending_requests: the queue is emptied, requests of later orders included.
AbortPending ==
    /\ worker.pc = "abort" /\ worker' = Idle /\ queue' = <<>>
    /\ fate' = [i \in Said |-> IF fate[i] = "queued" THEN "aborted" ELSE fate[i]]
    /\ UNCHANGED <<said, stt, mapping, decisions, managing, confirmed, pressed, lost>>

-----------------------------------------------------------------------------
Next ==
    \/ Say \/ Map \/ WindowPasses \/ OnDecision \/ PendingAges
    \/ OnConfirmed \/ WorkerWaits \/ WorkerTakes \/ PressDone \/ PressFails \/ AbortPending

Spec == Init /\ [][Next]_vars

\* Every node's executor spins, the worker thread is scheduled, and the launch that it waits
\* for ends.
FairSpec ==
    /\ Spec
    /\ WF_vars(Map) /\ WF_vars(OnDecision) /\ WF_vars(OnConfirmed)
    /\ WF_vars(WorkerWaits) /\ WF_vars(WorkerTakes) /\ WF_vars(PressDone \/ PressFails) /\ WF_vars(AbortPending)

-----------------------------------------------------------------------------
Fates == {"none", "sent", "lost", "blocked", "queued", "completed", "failed", "aborted"}
Press == [id : Said, n : Nat]
Decisions == [intent : {"none", "unknown", "make_cocktail"} \cup Spoken, n : Nat]

\* The types of the variables.
TypeOK ==
    /\ llm \in BOOLEAN /\ fresh \in BOOLEAN /\ old \in BOOLEAN
    /\ said \in Seq(Utterances) /\ Len(said) <= MaxSaid
    /\ stt \in Seq(Said) /\ decisions \in Seq(Said) /\ last \in 0 .. MaxSaid /\ heard \in [Said -> Decisions]
    /\ pending \in [id : 0 .. MaxSaid, n : Nat] /\ made \subseteq [order : Said, by : Said]
    /\ confirmed \in Seq(Press) /\ queue \in Seq(Press) /\ pressed \in Seq(Press)
    /\ Len(stt) <= Depth /\ Len(decisions) <= Depth /\ Len(confirmed) <= Depth
    /\ worker \in [pc : {"idle", "waits", "press", "abort"}, id : 0 .. MaxSaid, n : Nat]
    /\ fate \in [Said -> Fates] /\ lost \subseteq Said

\* What is said between an order and the utterance that confirmed it.
Between(m) == (m.order + 1) .. (m.by - 1)
NothingLost(m) == lost \cap (m.order .. m.by) = {}

\* A confirmed order was not called off: between it and the utterance that confirmed it nobody
\* said anything that the parser takes for a cancellation, whichever mapper listens (and if no
\* topic has dropped a message meanwhile).
CancelHolds ==
    \A m \in made : NothingLost(m) => \A k \in Between(m) : Parse(said[k]) # {Speaks("cancel")}

\* The order that a confirmation starts is the last one ordered, and no order is started by two
\* confirmations, however often "yes" is said or heard twice.
LastOrderIsMade ==
    \A m \in made :
        /\ NothingLost(m) => \A k \in Between(m) : heard[k].intent # "make_cocktail"
        /\ \A q \in made : q.order = m.order => q = m

\* Drinks do not mix: the presses started are those of the confirmed orders one order after the
\* other, each order from its first press on and without a gap.
PressesInOrder ==
    \A k \in DOMAIN pressed :
        \/ pressed[k].n = 1 /\ \A j \in 1 .. (k - 1) : pressed[j].id < pressed[k].id
        \/ k > 1 /\ pressed[k] = [pressed[k - 1] EXCEPT !.n = @ + 1]

\* A drink whose press has failed, or whose requests were dropped, is not poured on.
NothingAfterFailure ==
    [][\A k \in DOMAIN pressed' : k > Len(pressed) => fate[pressed'[k].id] = "queued"]_vars

\* Every confirmed order comes to an end: it is refused, poured, failed, dropped with the queue
\* after the failure of another, or lost on the way.
OrdersEnd ==
    \A i \in Said : (fate[i] = "sent") ~> (fate[i] \in {"lost", "blocked", "completed", "failed", "aborted"})

-----------------------------------------------------------------------------
(* The inductive invariant of an order's way.                              *)

Increasing(q) == \A i, j \in DOMAIN q : i < j => q[i] < q[j]
Mapped(k) == heard[k].intent # "none"

\* The manager has gone past utterance i, or it never reaches it.
Past(i) == i <= last /\ \A x \in Range(decisions) : i < x

\* Utterances and decisions come in the order in which they were said.
TopicsInOrder ==
    /\ Increasing(stt) /\ Increasing(decisions) /\ last <= Len(said)
    /\ \A x \in Range(stt) : last < x /\ x <= Len(said)
    /\ \A x \in Range(decisions) : x <= last

\* What the mapper has made of an utterance is on its way to the manager, lost, or gone past it.
HeardOK ==
    /\ \A k \in Said : k > last => ~Mapped(k)
    /\ last # 0 => Mapped(last)
    /\ \A k \in Said : Mapped(k) =>
           /\ heard[k] \in IF llm THEN ParseAndAnswer(said[k]) ELSE Parse(said[k])
           /\ k \in lost \/ k \in Range(decisions) \/ \A x \in Range(decisions) : k < x

\* A duplicate says what the utterance mapped last before it has said.
Dropped(k) ==
    /\ ~llm /\ \A x \in Range(stt) : k < x
    /\ \E j \in 1 .. (k - 1) : Mapped(j) /\ said[j] = said[k] /\ \A x \in (j + 1) .. k : ~Mapped(x)

NothingForgotten ==
    \A k \in 1 .. Len(said) : k \in Range(stt) \/ k \in lost \/ Mapped(k) \/ Dropped(k)

\* The pending order is the last one that has reached the manager, and nobody has called it off.
PendingIsLast ==
    pending # None =>
        /\ pending.id \in Said /\ Past(pending.id) /\ heard[pending.id].intent = "make_cocktail"
        /\ \A m \in made : m.by < pending.id
        /\ \A k \in Said :
               k > pending.id /\ Past(k) /\ lost \cap (pending.id .. k) = {} =>
                   heard[k].intent \notin {"cancel", "make_cocktail"}

MadeIsPast == \A m \in made : m.order < m.by /\ Past(m.by)

\* Orders go down the line in the order of their numbers: pressed and queued, confirmed, pending.
Ordered == Range(pressed) \cup Range(queue)
LineInOrder ==
    /\ \A i, j \in DOMAIN confirmed : i < j => confirmed[i].id < confirmed[j].id
    /\ \A o \in Ordered, c \in Range(confirmed) : o.id < c.id
    /\ \A o \in Ordered \cup Range(confirmed) : Past(o.id) /\ (pending # None => o.id < pending.id)

\* The queue goes on where the presses have come to.
QueueInOrder ==
    \A k \in DOMAIN queue :
        \/ /\ queue[k].n = 1 /\ \A j \in 1 .. (k - 1) : queue[j].id < queue[k].id
           /\ \A o \in Range(pressed) : o.id < queue[k].id
        \/ k > 1 /\ queue[k] = [queue[k - 1] EXCEPT !.n = @ + 1]
        \/ k = 1 /\ pressed # <<>> /\ queue[1] = [pressed[Len(pressed)] EXCEPT !.n = @ + 1]

\* But for a queue that is about to be emptied, what it holds waits for its press.
QueueIsQueued == worker.pc # "abort" => \A o \in Range(queue) : fate[o.id] = "queued"

TalkInv == TopicsInOrder /\ HeardOK /\ NothingForgotten /\ PendingIsLast /\ MadeIsPast /\ CancelHolds /\ LastOrderIsMade
LineInv == LineInOrder /\ QueueInOrder /\ PressesInOrder /\ QueueIsQueued
VoiceInv == TypeOK /\ TalkInv /\ LineInv
=============================================================================
