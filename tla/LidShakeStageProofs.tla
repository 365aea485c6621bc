------------------------- MODULE LidShakeStageProofs -------------------------
(***************************************************************************)
(* Theorems about the lid and shake stage, for every set of parameters of  *)
(* the planner and any number of attempts and requests.                    *)
(***************************************************************************)
EXTENDS LidShakeStage, SequenceTheorems, TLAPS

StepNames ==
    {"check", "preopen", "approach", "refine", "down", "grasp", "lift", "error",
     "transfer", "turn", "seat", "force", "release", "open", "home"}

PlannerStates == {"idle", "run", "recover", "recoverHome", "finally", "dead"}
PlannerRecords == [pc : PlannerStates, at : 0 .. Len(Steps)]
Results == {"none", "ok", "failed", "timeout"}
WaiterRecords == [pc : {"off", "starts", "listens", "over"}, started : BOOLEAN, result : Results]
JournalRecords == [closed : BOOLEAN, held : BOOLEAN, shaken : BOOLEAN]
ChainRecords == [pc : ChainStates, full : BOOLEAN, attempt : 0 .. MaxAttempts, rc : {"none", "ok", "failed"}]

-----------------------------------------------------------------------------
(* The steps of a sequence.                                                *)

\* The pick of the lid has no force control.
LEMMA PickStepsFact ==
    ASSUME NEW c
    PROVE  /\ PickSteps(c) \in Seq(StepNames \ {"force", "release"})
           /\ Len(PickSteps(c)) > 0
<1> DEFINE Names == StepNames \ {"force", "release"}
<1>1. \A s, t \in Seq(Names) : s \o t \in Seq(Names) /\ Len(s \o t) = Len(s) + Len(t)
    BY ConcatProperties, Zenon
<1>2. /\ <<"check", "preopen", "check", "approach">> \in Seq(Names) /\ <<"refine">> \in Seq(Names)
      /\ <<>> \in Seq(Names) /\ <<"down", "grasp", "lift">> \in Seq(Names)
      /\ <<"check", "preopen">> \in Seq(Names) /\ <<"error">> \in Seq(Names)
      /\ <<"approach", "refine", "check", "down", "grasp", "lift">> \in Seq(Names)
    BY DEF StepNames
<1>3. Len(<<"check", "preopen", "check", "approach">>) = 4 /\ Len(<<"check", "preopen">>) = 2
    OBVIOUS
<1>4. \A s \in Seq(Names) : Len(s) \in Nat
    BY LenProperties
<1> HIDE DEF Names
<1>5. CASE c.j6
  <2> DEFINE r == IF c.refine THEN <<"refine">> ELSE <<>>
             front == <<"check", "preopen", "check", "approach">>
             back == <<"down", "grasp", "lift">>
  <2>1. PickSteps(c) = (front \o r) \o back
      BY <1>5, Zenon DEF PickSteps
  <2>2. r \in Seq(Names) /\ front \in Seq(Names) /\ back \in Seq(Names) /\ Len(front) = 4
      BY <1>2, <1>3
  <2> HIDE DEF r, front, back
  <2>3. front \o r \in Seq(Names) /\ Len(front \o r) = 4 + Len(r)
      BY <1>1, <2>2
  <2>4. (front \o r) \o back \in Seq(Names) /\ Len((front \o r) \o back) = Len(front \o r) + Len(back)
      BY <1>1, <2>2, <2>3
  <2>5. Len(r) \in Nat /\ Len(back) \in Nat
      BY <1>4, <2>2
  <2> QED
      BY <2>1, <2>3, <2>4, <2>5 DEF Names
<1>6. CASE ~c.j6
  <2> DEFINE r == IF c.refine THEN <<"approach", "refine", "check", "down", "grasp", "lift">> ELSE <<"error">>
             front == <<"check", "preopen">>
  <2>1. PickSteps(c) = front \o r
      BY <1>6, Zenon DEF PickSteps
  <2>2. r \in Seq(Names) /\ front \in Seq(Names) /\ Len(front) = 2
      BY <1>2, <1>3
  <2> HIDE DEF r, front
  <2>3. front \o r \in Seq(Names) /\ Len(front \o r) = 2 + Len(r)
      BY <1>1, <2>2
  <2>4. Len(r) \in Nat
      BY <1>4, <2>2
  <2> QED
      BY <2>1, <2>3, <2>4 DEF Names
<1> QED
    BY <1>5, <1>6

\* In a twist, force control is enabled before it is released, and never after.
LEMMA TwistStepsFact ==
    ASSUME NEW c, c.twist \in Twists
    PROVE  /\ TwistSteps(c) \in Seq(StepNames)
           /\ \A j, k \in 1 .. Len(TwistSteps(c)) :
                  TwistSteps(c)[j] = "release" /\ TwistSteps(c)[k] = "force" => k < j
<1>1. CASE c.twist = "none"
  <2>1. TwistSteps(c) = <<>>
      BY <1>1 DEF TwistSteps
  <2> QED
      BY <2>1
<1>2. CASE c.twist = "steps"
  <2>1. TwistSteps(c) = <<"check", "transfer", "turn", "home">>
      BY <1>2 DEF TwistSteps
  <2> QED
      BY <2>1 DEF StepNames
<1>3. CASE c.twist = "periodic"
  <2>1. TwistSteps(c) = <<"check", "transfer", "seat", "turn", "open", "home">>
      BY <1>3 DEF TwistSteps
  <2> QED
      BY <2>1 DEF StepNames
<1>4. CASE c.twist = "force"
  <2>1. TwistSteps(c) = <<"check", "transfer", "force", "seat", "turn", "release", "open", "home">>
      BY <1>4 DEF TwistSteps
  <2> QED
      BY <2>1 DEF StepNames
<1> QED
    BY <1>1, <1>2, <1>3, <1>4 DEF Twists

\* A sequence has a step, and no step after a release enables force control.
LEMMA StepsFact ==
    ASSUME cfg \in Configs
    PROVE  /\ Steps \in Seq(StepNames) /\ Len(Steps) \in Nat \ {0}
           /\ \A j, k \in 1 .. Len(Steps) : Steps[j] = "release" /\ Steps[k] = "force" => k < j
<1> DEFINE s == PickSteps(cfg)  t == TwistSteps(cfg)
<1>1. s \in Seq(StepNames) /\ Len(s) \in Nat \ {0} /\ \A k \in 1 .. Len(s) : s[k] \notin {"force", "release"}
  <2>1. s \in Seq(StepNames \ {"force", "release"}) /\ Len(s) > 0
      BY PickStepsFact
  <2> HIDE DEF s
  <2>2. \A k \in 1 .. Len(s) : s[k] \in StepNames \ {"force", "release"}
      BY <2>1, ElementOfSeq, Zenon
  <2>3. s \in Seq(StepNames)
      BY <2>1, SeqMonotonic, Zenon
  <2> QED
      BY <2>1, <2>2, <2>3
<1>2. t \in Seq(StepNames) /\ \A j, k \in 1 .. Len(t) : t[j] = "release" /\ t[k] = "force" => k < j
  <2>1. cfg.twist \in Twists
      BY LidAssumption DEF LidAssumption
  <2> QED
      BY <2>1, TwistStepsFact
<1>3. Steps = s \o t
    BY DEF Steps
<1> HIDE DEF s, t
<1>4. /\ Steps \in Seq(StepNames) /\ Len(Steps) = Len(s) + Len(t)
      /\ \A i \in 1 .. Len(s) + Len(t) : Steps[i] = IF i <= Len(s) THEN s[i] ELSE t[i - Len(s)]
    BY <1>1, <1>2, <1>3, ConcatProperties, Zenon
<1>5. Len(t) \in Nat
    BY <1>2
<1>6. ASSUME NEW j \in 1 .. Len(Steps), NEW k \in 1 .. Len(Steps), Steps[j] = "release", Steps[k] = "force"
      PROVE  k < j
  <2>1. j > Len(s) /\ k > Len(s)
      BY <1>1, <1>4, <1>6
  <2>2. j - Len(s) \in 1 .. Len(t) /\ k - Len(s) \in 1 .. Len(t)
      BY <1>1, <1>4, <1>5, <1>6, <2>1
  <2>3. t[j - Len(s)] = "release" /\ t[k - Len(s)] = "force"
      BY <1>1, <1>4, <1>5, <1>6, <2>1
  <2>4. k - Len(s) < j - Len(s)
      BY <1>2, <2>2, <2>3
  <2> QED
      BY <1>1, <1>5, <2>4
<1> QED
    BY <1>1, <1>4, <1>5, <1>6

-----------------------------------------------------------------------------
(* What a step makes of waiter, journal and planner.                       *)

\* A status is told, and one of success comes with a sequence that is finished.
Told ==
    \/ \E status \in {"done", "failed", "refused", "moving"} : Tell(status) /\ (status = "done" => finished' # {})
    \/ UNCHANGED <<waiter, journal>>

\* What is told keeps the types, and the journal of the lid true.
LEMMA ToldKeeps ==
    ASSUME waiter \in WaiterRecords, journal \in JournalRecords, ClosedFirst, Told,
           finished \subseteq finished', UNCHANGED chain
    PROVE  /\ waiter' \in WaiterRecords /\ journal' \in JournalRecords /\ ClosedFirst'
           /\ journal'.held = journal.held /\ journal'.shaken = journal.shaken
<1>1. CASE UNCHANGED <<waiter, journal>>
    BY <1>1 DEF ClosedFirst
<1>2. ASSUME NEW status \in {"done", "failed", "refused", "moving"}, Tell(status), status = "done" => finished' # {}
      PROVE  /\ waiter' \in WaiterRecords /\ journal' \in JournalRecords /\ ClosedFirst'
             /\ journal'.held = journal.held /\ journal'.shaken = journal.shaken
  <2>1. Heard(status) \in WaiterRecords /\ (Heard(status).result = "ok" => waiter.result = "ok" \/ status = "done")
      BY DEF Heard, WaiterRecords, Results
  <2>2. waiter' = Heard(status) /\ journal' = [journal EXCEPT !.closed = @ \/ waiter'.result = "ok"]
      BY <1>2 DEF Tell
  <2>3. journal'.closed = (journal.closed \/ waiter'.result = "ok")
      BY <2>2 DEF JournalRecords
  <2>4. journal' \in JournalRecords /\ journal'.held = journal.held /\ journal'.shaken = journal.shaken
      BY <2>2 DEF JournalRecords
  <2>5. journal'.closed => finished' # {}
      BY <1>2, <2>1, <2>2, <2>3, Zenon DEF ClosedFirst
  <2>6. waiter'.result = "ok" => journal'.closed
      BY <2>3
  <2>7. chain'.pc \notin {"idle", "wait", "grace"} \/ journal'.held \/ journal'.shaken => journal'.closed
      BY <2>3, <2>4, Zenon DEF ClosedFirst
  <2> QED
      BY <2>1, <2>2, <2>4, <2>5, <2>6, <2>7 DEF ClosedFirst
<1> QED
    BY <1>1, <1>2, Zenon DEF Told

\* The planner's thread goes on to a place: only from one step of a sequence to the next is it still
\* in one, and then force control is on only where the step has enabled it, off where it has released it.
Moved(a) ==
    \E pc \in PlannerStates, n \in 0 .. Len(Steps) :
        /\ Goes(a, pc, n)
        /\ force' \in {force, force \cup {a}, force \ {a}}
        /\ pc = "run" =>
             /\ planner[a].pc = "run" /\ n = planner[a].at + 1
             /\ a \in force' => a \in force \/ Step(a) = "force"
             /\ Step(a) = "release" => a \notin force'

\* A thread that moves keeps its type, and force control off once it was released.
LEMMA MovedKeeps ==
    ASSUME NEW a \in Attempts, cfg \in Configs, planner \in [Attempts -> PlannerRecords], force \subseteq Attempts,
           OpensWithoutForce, Moved(a), UNCHANGED cfg
    PROVE  planner' \in [Attempts -> PlannerRecords]' /\ force' \subseteq Attempts /\ OpensWithoutForce'
<1>1. PICK pc \in PlannerStates, n \in 0 .. Len(Steps) :
        /\ planner' = [planner EXCEPT ![a] = [pc |-> pc, at |-> n]]
        /\ force' \in {force, force \cup {a}, force \ {a}}
        /\ pc = "run" =>
             /\ planner[a].pc = "run" /\ n = planner[a].at + 1
             /\ a \in force' => a \in force \/ Step(a) = "force"
             /\ Step(a) = "release" => a \notin force'
    BY Zenon DEF Moved, Goes
<1>2. Steps' = Steps
    BY DEF Steps
<1>3. PlannerRecords' = PlannerRecords
    BY <1>2, Zenon DEF PlannerRecords
<1>4. [pc |-> pc, at |-> n] \in PlannerRecords
    BY DEF PlannerRecords
<1>5. planner' \in [Attempts -> PlannerRecords]
    BY <1>1, <1>4
<1>6. \A b \in Attempts : planner'[b] = IF b = a THEN [pc |-> pc, at |-> n] ELSE planner[b]
    BY <1>1
<1>7. ASSUME NEW b \in Attempts, planner'[b].pc = "run", NEW k \in 1 .. (planner'[b].at - 1), Steps[k] = "release"
      PROVE  b \notin force'
  <2>1. CASE b # a
    <3>1. planner'[b] = planner[b] /\ (b \in force' => b \in force)
        BY <1>1, <1>6, <2>1
    <3> QED
        BY <1>7, <3>1 DEF OpensWithoutForce
  <2>2. CASE b = a
    <3>1. pc = "run" /\ n = planner[a].at + 1 /\ planner'[b].at = n
        BY <1>1, <1>6, <1>7, <2>2
    <3>2. planner[a].pc = "run" /\ planner[a].at \in 0 .. Len(Steps) /\ Len(Steps) \in Nat
        BY <1>1, <3>1, StepsFact DEF PlannerRecords
    <3>3. CASE k = planner[a].at
        BY <1>1, <1>7, <2>2, <3>1, <3>3 DEF Step
    <3>4. CASE k < planner[a].at
      <4>1. a \notin force
          BY <1>7, <3>2, <3>4 DEF OpensWithoutForce
      <4>2. Step(a) # "force"
          BY <1>7, <3>2, <3>4, StepsFact DEF Step
      <4> QED
          BY <1>1, <2>2, <3>1, <4>1, <4>2
    <3> QED
        BY <3>1, <3>2, <3>3, <3>4
  <2> QED
      BY <2>1, <2>2
<1>8. OpensWithoutForce'
    BY <1>2, <1>7 DEF OpensWithoutForce
<1> QED
    BY <1>1, <1>3, <1>5, <1>8

\* The gripper, the lid and the cup, with their types.
WorldOK ==
    hand \in {"open", "closed"} /\ lid \in {"table", "hand", "turned", "cup"} /\ cup \in {"holder", "hand", "dropped"}

\* What stays of a sequence's step, but for its way of going on.
Sequenced(a) == Moved(a) /\ Told /\ finished' \in {finished, finished \cup {a}}

\* A step that goes on leaves the thread in the sequence, or finishes it.
LEMMA StepOnMoves ==
    ASSUME NEW a \in Attempts, cfg \in Configs, planner \in [Attempts -> PlannerRecords], planner[a].pc = "run",
           StepOn(a), force' \in {force, force \cup {a}, force \ {a}},
           a \in force' => a \in force \/ Step(a) = "force", Step(a) = "release" => a \notin force'
    PROVE  Sequenced(a)
<1>1. CASE planner[a].at < Len(Steps)
  <2>1. Goes(a, "run", planner[a].at + 1) /\ Tell("moving") /\ finished' = finished
      BY <1>1, Zenon DEF StepOn
  <2>2. planner[a].at + 1 \in 0 .. Len(Steps)
      BY <1>1, StepsFact DEF PlannerRecords
  <2>3. Moved(a)
      BY <2>1, <2>2, Zenon DEF Moved, PlannerStates
  <2> QED
      BY <2>1, <2>3, Zenon DEF Sequenced, Told
<1>2. CASE ~ (planner[a].at < Len(Steps))
  <2>1. Goes(a, "idle", 0) /\ Tell("done") /\ finished' = finished \cup {a}
      BY <1>2, Zenon DEF StepOn
  <2>2. 0 \in 0 .. Len(Steps)
      BY StepsFact
  <2>3. Moved(a)
      BY <2>1, <2>2, Zenon DEF Moved, PlannerStates
  <2>4. finished' # {}
      BY <2>1
  <2> QED
      BY <2>1, <2>3, <2>4, Zenon DEF Sequenced, Told
<1> QED
    BY <1>1, <1>2

\* A step that leaves the sequence, for a recovery or for the end, whatever becomes of force control.
LEMMA LeavesMoves ==
    ASSUME NEW a \in Attempts, cfg \in Configs, planner \in [Attempts -> PlannerRecords],
           NEW pc \in {"idle", "recover", "recoverHome", "finally"}, NEW n \in {0, planner[a].at}, Goes(a, pc, n),
           force' \in {force, force \cup {a}, force \ {a}},
           Tell("failed") \/ Tell("refused") \/ Tell("moving") \/ UNCHANGED <<waiter, journal>>,
           finished' = finished
    PROVE  Sequenced(a)
<1>1. n \in 0 .. Len(Steps)
    BY StepsFact DEF PlannerRecords
<1>2. Moved(a)
    BY <1>1, Zenon DEF Moved, PlannerStates
<1> QED
    BY <1>2, Zenon DEF Sequenced, Told

\* The same for a failure.
LEMMA StepOverMoves ==
    ASSUME NEW a \in Attempts, cfg \in Configs, planner \in [Attempts -> PlannerRecords],
           NEW status \in {"", "failed", "refused"}, StepOver(a, status), force' \in {force, force \cup {a}, force \ {a}}
    PROVE  Sequenced(a)
<1>1. Goes(a, "idle", 0) /\ finished' = finished
    BY Zenon DEF StepOver
<1>2. Tell("failed") \/ Tell("refused") \/ UNCHANGED <<waiter, journal>>
    BY Zenon DEF StepOver
<1> QED
    BY <1>1, <1>2, LeavesMoves, Zenon

\* Every step of a planner's thread.
LEMMA SequenceSteps ==
    ASSUME NEW a \in Attempts, cfg \in Configs, planner \in [Attempts -> PlannerRecords], WorldOK, SequenceStep(a)
    PROVE  Sequenced(a) /\ WorldOK' /\ UNCHANGED <<cfg, launch, requests, chain>>
<1>1. CASE CheckStep(a)
  <2>1. Sequenced(a)
      BY <1>1, StepOnMoves, StepOverMoves, Zenon DEF CheckStep, Running
  <2> QED
      BY <1>1, <2>1, Zenon DEF CheckStep, Fixed, WorldOK, world
<1>2. CASE MoveStep(a)
  <2>1. Sequenced(a)
      BY <1>2, StepOnMoves, StepOverMoves, Zenon DEF MoveStep, Running
  <2> QED
      BY <1>2, <2>1, Zenon DEF MoveStep, Fixed, WorldOK, world
<1>3. CASE TurnStep(a)
  <2>1. Sequenced(a)
      BY <1>3, StepOnMoves, StepOverMoves, LeavesMoves, Zenon DEF TurnStep, Running
  <2> QED
      BY <1>3, <2>1, Zenon DEF TurnStep, Fixed, WorldOK, world
<1>4. CASE OpenStep(a)
  <2>1. Sequenced(a)
      BY <1>4, StepOnMoves, StepOverMoves, Zenon DEF OpenStep, Running
  <2>2. Opened \/ UNCHANGED world
      BY <1>4, Zenon DEF OpenStep
  <2>3. WorldOK'
      BY <2>2 DEF Opened, WorldOK, world
  <2> QED
      BY <1>4, <2>1, <2>3, Zenon DEF OpenStep, Fixed
<1>5. CASE GraspStep(a)
  <2>1. Sequenced(a)
      BY <1>5, StepOnMoves, StepOverMoves, Zenon DEF GraspStep, Running
  <2>2. Closed \/ UNCHANGED world
      BY <1>5, Zenon DEF GraspStep
  <2>3. WorldOK'
      BY <2>2 DEF Closed, WorldOK, world
  <2> QED
      BY <1>5, <2>1, <2>3, Zenon DEF GraspStep, Fixed
<1>6. CASE ForceStep(a)
  <2>1. Sequenced(a)
      BY <1>6, StepOnMoves, LeavesMoves, Zenon DEF ForceStep, Running
  <2> QED
      BY <1>6, <2>1, Zenon DEF ForceStep, Fixed, WorldOK, world
<1>7. CASE ReleaseStep(a)
  <2>1. Sequenced(a)
      BY <1>7, StepOnMoves, StepOverMoves, Zenon DEF ReleaseStep, Running
  <2> QED
      BY <1>7, <2>1, Zenon DEF ReleaseStep, Fixed, WorldOK, world
<1>8. CASE Recover(a)
  <2>1. Sequenced(a)
      BY <1>8, LeavesMoves, Zenon DEF Recover
  <2> QED
      BY <1>8, <2>1, Zenon DEF Recover, Fixed, WorldOK, world
<1>9. CASE RecoverHome(a)
  <2>1. Sequenced(a)
      BY <1>9, LeavesMoves, Zenon DEF RecoverHome
  <2> QED
      BY <1>9, <2>1, Zenon DEF RecoverHome, Fixed, WorldOK, world
<1>10. CASE Finally(a)
  <2>1. Sequenced(a)
      BY <1>10, LeavesMoves, Zenon DEF Finally
  <2> QED
      BY <1>10, <2>1, Zenon DEF Finally, Fixed, WorldOK, world
<1> QED
    BY <1>1, <1>2, <1>3, <1>4, <1>5, <1>6, <1>7, <1>8, <1>9, <1>10, Zenon DEF SequenceStep

-----------------------------------------------------------------------------
(* The invariant.                                                          *)

LaunchRecords == [Attempts -> {"none", "view", "up", "orphan", "gone"}]

\* The type invariant, in the words of this module; before and after a step.
LEMMA Types ==
    TypeOK => /\ cfg \in Configs /\ launch \in LaunchRecords
              /\ planner \in [Attempts -> PlannerRecords] /\ finished \subseteq Attempts /\ force \subseteq Attempts
              /\ requests \in 0 .. MaxRequests /\ WorldOK /\ waiter \in WaiterRecords
              /\ chain \in ChainRecords /\ journal \in JournalRecords
BY DEF TypeOK, LaunchRecords, PlannerRecords, PlannerStates, WorldOK, WaiterRecords, Results, ChainRecords, JournalRecords

LEMMA TypesAfter ==
    ASSUME cfg' \in Configs, launch' \in LaunchRecords, planner' \in [Attempts -> PlannerRecords]',
           finished' \subseteq Attempts, force' \subseteq Attempts, requests' \in 0 .. MaxRequests, WorldOK',
           waiter' \in WaiterRecords, chain' \in ChainRecords, journal' \in JournalRecords
    PROVE  TypeOK'
BY Zenon DEF TypeOK, LaunchRecords, PlannerRecords, PlannerStates, WorldOK, WaiterRecords, Results, ChainRecords, JournalRecords

\* A step that leaves the chain's record and what the journal says of the cup alone.
LEMMA ChainRests ==
    ASSUME LidInv, TypeOK', ClosedFirst', OpensWithoutForce', UNCHANGED chain,
           journal'.held = journal.held, journal'.shaken = journal.shaken
    PROVE  LidInv'
<1>1. ShakeIsEarned'
    BY Zenon DEF LidInv, ShakeIsEarned, ClosedFirst
<1>2. HeldInOrder' /\ PickedCupIsKept'
    BY Zenon DEF LidInv, HeldInOrder, PickedCupIsKept
<1> QED
    BY <1>1, <1>2, Zenon DEF LidInv

\* Where the sequences rest, so do their types and their force control.
LEMMA SequencesRest ==
    ASSUME LidInv, UNCHANGED <<cfg, planner, force>>
    PROVE  planner' \in [Attempts -> PlannerRecords]' /\ OpensWithoutForce'
<1>1. Steps' = Steps
    BY Zenon DEF Steps
<1>2. planner \in [Attempts -> PlannerRecords]
    BY Types, Zenon DEF LidInv
<1> QED
    BY <1>1, <1>2, Zenon DEF LidInv, OpensWithoutForce, PlannerRecords

\* The initial states satisfy the invariant.
LEMMA InitLidInv == Init => LidInv
<1> SUFFICES ASSUME Init PROVE LidInv
    OBVIOUS
<1>1. [pc |-> "idle", at |-> 0] \in PlannerRecords
    BY StepsFact DEF Init, PlannerRecords, PlannerStates
<1>2. planner \in [Attempts -> PlannerRecords]
    BY <1>1 DEF Init
<1>3. TypeOK
  <2>1. chain \in ChainRecords /\ waiter \in WaiterRecords /\ journal \in JournalRecords /\ requests \in 0 .. MaxRequests
      BY LidAssumption DEF LidAssumption, Init, ChainRecords, ChainStates, WaiterRecords, Results, JournalRecords
  <2> QED
      BY <1>2, <2>1
      DEF Init, TypeOK, PlannerRecords, PlannerStates, WaiterRecords, Results, ChainRecords, JournalRecords
<1>4. OpensWithoutForce
    BY DEF Init, OpensWithoutForce
<1> QED
    BY <1>3, <1>4 DEF Init, LidInv, ClosedFirst, HeldInOrder, ShakeIsEarned, PickedCupIsKept

\* A step of a launch, of the requests or of the waiter's clock: the gripper and the chain rest.
LEMMA NodesMove ==
    ASSUME LidInv, UNCHANGED <<cfg, finished, world, chain>>, Told,
           launch' \in LaunchRecords, requests' \in 0 .. MaxRequests,
           planner' \in [Attempts -> PlannerRecords]', force' \subseteq Attempts, OpensWithoutForce'
    PROVE  LidInv'
<1>1. /\ waiter' \in WaiterRecords /\ journal' \in JournalRecords /\ ClosedFirst'
      /\ journal'.held = journal.held /\ journal'.shaken = journal.shaken
    BY Types, ToldKeeps, Zenon DEF LidInv
<1>2. TypeOK'
    BY <1>1, Types, TypesAfter, Zenon DEF LidInv, WorldOK, world
<1> QED
    BY <1>1, <1>2, ChainRests, Zenon

\* The invariant is kept by the planner's threads.
LEMMA SequencesKeepLidInv ==
    ASSUME LidInv, NEW a \in Attempts, SequenceStep(a)
    PROVE  LidInv'
<1>0. /\ cfg \in Configs /\ planner \in [Attempts -> PlannerRecords] /\ WorldOK
      /\ finished \subseteq Attempts /\ force \subseteq Attempts
      /\ waiter \in WaiterRecords /\ journal \in JournalRecords /\ ClosedFirst /\ OpensWithoutForce
    BY Types, Zenon DEF LidInv
<1>1. Sequenced(a) /\ WorldOK' /\ UNCHANGED <<cfg, launch, requests, chain>>
    BY <1>0, SequenceSteps, Zenon
<1>2. Moved(a) /\ Told /\ finished \subseteq finished' /\ finished' \subseteq Attempts
    BY <1>0, <1>1 DEF Sequenced
<1>3. planner' \in [Attempts -> PlannerRecords]' /\ force' \subseteq Attempts /\ OpensWithoutForce'
    BY <1>0, <1>1, <1>2, MovedKeeps, Zenon
<1>4. /\ waiter' \in WaiterRecords /\ journal' \in JournalRecords /\ ClosedFirst'
      /\ journal'.held = journal.held /\ journal'.shaken = journal.shaken
    BY <1>0, <1>1, <1>2, ToldKeeps, Zenon
<1>5. TypeOK'
    BY <1>1, <1>2, <1>3, <1>4, Types, TypesAfter, Zenon DEF LidInv
<1> QED
    BY <1>1, <1>3, <1>4, <1>5, ChainRests, Zenon

\* The invariant is kept by the launches and the requests.
LEMMA LaunchesKeepLidInv ==
    ASSUME LidInv, (\E a \in Attempts : LaunchUp(a) \/ LaunchExits(a)) \/ Request \/ PosePlanFails
    PROVE  LidInv'
<1>0. /\ cfg \in Configs /\ launch \in LaunchRecords /\ planner \in [Attempts -> PlannerRecords]
      /\ force \subseteq Attempts /\ requests \in 0 .. MaxRequests /\ OpensWithoutForce
    BY Types, Zenon DEF LidInv
<1>1. ASSUME NEW a \in Attempts, LaunchUp(a) PROVE LidInv'
  <2>1. launch' \in LaunchRecords
      BY <1>0, <1>1 DEF LaunchUp, LaunchRecords
  <2>2. Told /\ UNCHANGED <<cfg, planner, finished, requests, force, world, chain>>
      BY <1>1, Zenon DEF LaunchUp, Told, chaining
  <2> QED
      BY <1>0, <2>1, <2>2, SequencesRest, NodesMove, Zenon
<1>2. ASSUME NEW a \in Attempts, LaunchExits(a) PROVE LidInv'
  <2>1. launch' \in LaunchRecords
      BY <1>0, <1>2 DEF LaunchExits, LaunchRecords
  <2>2. Told /\ UNCHANGED <<cfg, finished, requests, force, world, chain>>
      BY <1>2, Zenon DEF LaunchExits, Told, chaining
  <2>3. Goes(a, "idle", 0) \/ Goes(a, "dead", 0)
      BY <1>2, Zenon DEF LaunchExits
  <2>4. Moved(a)
    <3>1. 0 \in 0 .. Len(Steps)
        BY <1>0, StepsFact
    <3> QED
        BY <2>2, <2>3, <3>1, Zenon DEF Moved, PlannerStates
  <2>5. planner' \in [Attempts -> PlannerRecords]' /\ OpensWithoutForce'
      BY <1>0, <2>2, <2>4, MovedKeeps, Zenon
  <2> QED
      BY <1>0, <2>1, <2>2, <2>5, NodesMove, Zenon
<1>3. CASE Request
  <2>1. requests' \in 0 .. MaxRequests
      BY <1>0, <1>3, LidAssumption DEF LidAssumption, Request
  <2>2. Told /\ UNCHANGED <<cfg, launch, finished, force, world, chain>>
      BY <1>3, Zenon DEF Request, Told
  <2>3. PICK Starts \in SUBSET Attempts :
            planner' = [a \in Attempts |-> IF a \in Starts THEN [pc |-> "run", at |-> 1] ELSE planner[a]]
    <3> DEFINE S == {a \in Attempts : Alive(a) /\ planner[a].pc = "idle"}
    <3>1. planner' = [a \in Attempts |-> IF a \in S THEN [pc |-> "run", at |-> 1] ELSE planner[a]]
        BY <1>3, Zenon DEF Request
    <3>2. S \in SUBSET Attempts
        OBVIOUS
    <3> HIDE DEF S
    <3> QED
        BY <3>1, <3>2, Zenon
  <2>4. Steps' = Steps /\ [pc |-> "run", at |-> 1] \in PlannerRecords
      BY <1>0, <2>2, StepsFact DEF Steps, PlannerRecords, PlannerStates
  <2>5. planner' \in [Attempts -> PlannerRecords]
      BY <1>0, <2>3, <2>4
  <2>6. planner' \in [Attempts -> PlannerRecords]'
      BY <2>4, <2>5, Zenon DEF PlannerRecords
  <2>7. OpensWithoutForce'
    <3>1. ASSUME NEW a \in Attempts, planner'[a].pc = "run", NEW k \in 1 .. (planner'[a].at - 1), Steps[k] = "release"
          PROVE  a \notin force
        BY <1>0, <2>3, <3>1 DEF OpensWithoutForce
    <3> QED
        BY <2>2, <2>4, <3>1 DEF OpensWithoutForce
  <2> QED
      BY <1>0, <2>1, <2>2, <2>6, <2>7, NodesMove, Zenon
<1>4. CASE PosePlanFails
  <2>1. Told /\ UNCHANGED <<cfg, launch, planner, finished, requests, force, world, chain>>
      BY <1>4, Zenon DEF PosePlanFails, Told, nodes
  <2> QED
      BY <1>0, <2>1, SequencesRest, NodesMove, Zenon
<1> QED
    BY <1>1, <1>2, <1>3, <1>4

-----------------------------------------------------------------------------
(* The waiter and the chain.                                               *)

\* A step of the waiter or of the chain: the planners rest, nothing new is heard, and what is to be
\* shown is how the places of the chain and the journal's record of the cup go together.
LEMMA ChainMoves ==
    ASSUME LidInv, UNCHANGED <<cfg, planner, finished, requests, force>>,
           launch' \in LaunchRecords, WorldOK', waiter' \in WaiterRecords, chain' \in ChainRecords, journal' \in JournalRecords,
           waiter'.result = "ok" => waiter.result = "ok", journal'.closed = journal.closed,
           chain'.pc \notin {"idle", "wait", "grace"} \/ journal'.held \/ journal'.shaken => journal.closed,
           chain'.pc \in {"wait", "grace", "open", "grasp", "lift"} => ~journal'.held,
           chain'.pc \in {"camera", "true"} => journal'.shaken,
           chain'.pc \in {"scene", "shake"} \/ journal'.shaken => journal'.held,
           chain'.rc = "ok" => journal'.shaken
    PROVE  LidInv'
<1>1. planner' \in [Attempts -> PlannerRecords]' /\ OpensWithoutForce'
    BY SequencesRest, Zenon
<1>2. TypeOK'
    BY <1>1, Types, TypesAfter, Zenon DEF LidInv
<1>3. ClosedFirst' /\ HeldInOrder'
    BY Zenon DEF LidInv, ClosedFirst, HeldInOrder
<1>4. ShakeIsEarned'
  <2>1. chain'.pc \notin {"idle", "wait", "grace"} \/ journal'.closed => finished' # {}
      BY Zenon DEF LidInv, ClosedFirst
  <2> QED
      BY <2>1, Zenon DEF ShakeIsEarned
<1>5. PickedCupIsKept'
    BY Zenon DEF PickedCupIsKept
<1> QED
    BY <1>1, <1>2, <1>3, <1>4, <1>5, Zenon DEF LidInv

\* What moves of the chain make of its record.
LEMMA AtFact ==
    ASSUME chain \in ChainRecords, NEW pc \in ChainStates, At(pc)
    PROVE  chain' \in ChainRecords /\ chain'.pc = pc /\ chain'.rc = chain.rc
BY DEF At, ChainRecords

LEMMA EndFact ==
    ASSUME chain \in ChainRecords, NEW rc \in {"ok", "failed"}, End(rc)
    PROVE  chain' \in ChainRecords /\ chain'.pc = "idle" /\ chain'.rc = rc
BY DEF End, ChainRecords, ChainStates

\* The invariant is kept by the waiter and the waiting chain.
LEMMA WaitingKeepsLidInv ==
    ASSUME LidInv, WaiterListens \/ WaiterTimesOut \/ Begin \/ Waiting
    PROVE  LidInv'
<1>0. /\ TypeOK /\ launch \in LaunchRecords /\ WorldOK /\ waiter \in WaiterRecords
      /\ chain \in ChainRecords /\ journal \in JournalRecords
      /\ ClosedFirst /\ HeldInOrder /\ ShakeIsEarned
    BY Types, Zenon DEF LidInv
<1> USE DEF ClosedFirst, HeldInOrder, ShakeIsEarned
<1>1. CASE WaiterListens \/ WaiterTimesOut
  <2>1. waiter' \in WaiterRecords /\ (waiter'.result = "ok" => waiter.result = "ok")
      BY <1>0, <1>1 DEF WaiterListens, WaiterTimesOut, WaiterRecords, Results
  <2>2. UNCHANGED <<nodes, world, chaining>>
      BY <1>1, Zenon DEF WaiterListens, WaiterTimesOut
  <2> QED
      BY <1>0, <2>1, <2>2, ChainMoves, Zenon DEF nodes, world, chaining, WorldOK
<1>2. CASE Begin
  <2> DEFINE n == chain.attempt + 1
             From(pc) == [pc |-> pc, full |-> FALSE, attempt |-> n, rc |-> "none"]
  <2>1. n \in Attempts /\ n \in 0 .. MaxAttempts
      BY <1>0, <1>2, LidAssumption DEF LidAssumption, Begin, Attempts, ChainRecords
  <2>2. UNCHANGED <<cfg, planner, finished, requests, force, world, journal>>
      BY <1>2, Zenon DEF Begin
  <2>3. CASE journal.shaken \/ journal.closed
    <3>1. /\ chain' = From(IF journal.shaken THEN "true" ELSE IF journal.held THEN "shake" ELSE "open")
          /\ UNCHANGED <<launch, waiter>>
        BY <1>2, <2>3, Zenon DEF Begin
    <3>2. PICK pc \in {"true", "shake", "open"} :
              /\ chain' = From(pc)
              /\ pc = "true" => journal.shaken
              /\ pc = "shake" => journal.held
              /\ pc = "open" => ~journal.held /\ ~journal.shaken
        BY <3>1, Zenon
    <3>3. chain' \in ChainRecords /\ chain'.pc = pc /\ chain'.rc = "none"
        BY <2>1, <3>2 DEF ChainRecords, ChainStates
    <3>4. journal.closed
        BY <1>0, <2>3
    <3> QED
        BY <1>0, <2>2, <3>1, <3>2, <3>3, <3>4, ChainMoves, Zenon DEF world, WorldOK
  <2>4. CASE ~ (journal.shaken \/ journal.closed)
    <3>1. /\ chain' = [From("wait") EXCEPT !.full = TRUE]
          /\ launch' = [launch EXCEPT ![n] = "view"]
          /\ waiter' = [pc |-> "starts", started |-> FALSE, result |-> "none"]
        BY <1>2, <2>4, Zenon DEF Begin
    <3>2. chain' \in ChainRecords /\ chain'.pc = "wait" /\ chain'.rc = "none"
        BY <2>1, <3>1 DEF ChainRecords, ChainStates
    <3>3. launch' \in LaunchRecords
        BY <1>0, <2>1, <3>1 DEF LaunchRecords
    <3>4. waiter' \in WaiterRecords /\ waiter'.result = "none"
        BY <3>1 DEF WaiterRecords, Results
    <3>5. ~journal.held /\ ~journal.shaken
        BY <1>0, <2>4
    <3> QED
        BY <1>0, <2>2, <3>2, <3>3, <3>4, <3>5, ChainMoves, Zenon DEF world, WorldOK
  <2> QED
      BY <2>3, <2>4
<1>3. CASE WaiterSeen \/ Grace
  <2>1. /\ chain.pc \in {"wait", "grace"} /\ waiter' = [waiter EXCEPT !.pc = "off"]
        /\ (waiter.result = "ok" /\ At("open")) \/ End("failed")
        /\ UNCHANGED <<cfg, planner, finished, requests, force, world, journal>>
      BY <1>3, Zenon DEF WaiterSeen, Grace, nodes
  <2>2. launch' \in LaunchRecords
    <3>1. CASE KillLaunch(chain.attempt)
        BY <1>0, <3>1 DEF KillLaunch, LaunchRecords
    <3>2. CASE UNCHANGED launch
        BY <1>0, <3>2
    <3> QED
        BY <1>3, <3>1, <3>2, Zenon DEF WaiterSeen, Grace, nodes
  <2>3. waiter' \in WaiterRecords /\ waiter'.result = waiter.result
      BY <1>0, <2>1 DEF WaiterRecords
  <2>4. chain' \in ChainRecords /\ ((chain'.pc = "open" /\ chain'.rc = chain.rc /\ waiter.result = "ok") \/ (chain'.pc = "idle" /\ chain'.rc = "failed"))
      BY <1>0, <2>1, AtFact, EndFact, Zenon DEF ChainStates
  <2> QED
      BY <1>0, <2>1, <2>2, <2>3, <2>4, ChainMoves, Zenon DEF world, WorldOK
<1>4. CASE LaunchSeen
  <2>1. chain' \in ChainRecords /\ chain'.pc = "grace" /\ chain'.rc = chain.rc /\ chain.pc = "wait"
      BY <1>0, <1>4, AtFact, Zenon DEF LaunchSeen, ChainStates
  <2>2. UNCHANGED <<nodes, world, waiter, journal>>
      BY <1>4, Zenon DEF LaunchSeen
  <2> QED
      BY <1>0, <2>1, <2>2, ChainMoves, Zenon DEF nodes, world, WorldOK
<1> QED
    BY <1>1, <1>2, <1>3, <1>4, Zenon DEF Waiting

\* The invariant is kept by the pick from the holder and the shake.
LEMMA ShakingKeepsLidInv ==
    ASSUME LidInv, Shaking
    PROVE  LidInv'
<1>0. /\ TypeOK /\ launch \in LaunchRecords /\ WorldOK /\ waiter \in WaiterRecords
      /\ chain \in ChainRecords /\ journal \in JournalRecords
      /\ ClosedFirst /\ HeldInOrder /\ ShakeIsEarned
    BY Types, Zenon DEF LidInv
<1> USE DEF ClosedFirst, HeldInOrder, ShakeIsEarned
<1>1. CASE HolderOpen
  <2>1. chain.pc = "open" /\ (At("grasp") \/ End("failed")) /\ UNCHANGED <<nodes, waiter, journal>>
      BY <1>1, Zenon DEF HolderOpen
  <2>2. WorldOK'
      BY <1>0, <1>1 DEF HolderOpen, Opened, world, WorldOK
  <2>3. chain' \in ChainRecords /\ ((chain'.pc = "grasp" /\ chain'.rc = chain.rc) \/ (chain'.pc = "idle" /\ chain'.rc = "failed"))
      BY <1>0, <2>1, AtFact, EndFact, Zenon DEF ChainStates
  <2> QED
      BY <1>0, <2>1, <2>2, <2>3, ChainMoves, Zenon DEF nodes
<1>2. CASE HolderGrasp
  <2>1. chain.pc = "grasp" /\ (At("lift") \/ End("failed")) /\ UNCHANGED <<nodes, waiter, journal>>
      BY <1>2, Zenon DEF HolderGrasp
  <2>2. WorldOK'
      BY <1>0, <1>2 DEF HolderGrasp, WorldOK
  <2>3. chain' \in ChainRecords /\ ((chain'.pc = "lift" /\ chain'.rc = chain.rc) \/ (chain'.pc = "idle" /\ chain'.rc = "failed"))
      BY <1>0, <2>1, AtFact, EndFact, Zenon DEF ChainStates
  <2> QED
      BY <1>0, <2>1, <2>2, <2>3, ChainMoves, Zenon DEF nodes
<1>3. CASE HolderLift
  <2>1. /\ chain.pc = "lift" /\ UNCHANGED <<nodes, world, waiter>>
        /\ \/ (At("scene") \/ At("shake")) /\ journal' = [journal EXCEPT !.held = TRUE]
           \/ End("failed") /\ UNCHANGED journal
      BY <1>3, Zenon DEF HolderLift
  <2>2. CASE End("failed") /\ UNCHANGED journal
    <3>1. chain' \in ChainRecords /\ chain'.pc = "idle" /\ chain'.rc = "failed"
        BY <1>0, <2>2, EndFact, Zenon
    <3> QED
        BY <1>0, <2>1, <2>2, <3>1, ChainMoves, Zenon DEF nodes, world, WorldOK
  <2>3. CASE (At("scene") \/ At("shake")) /\ journal' = [journal EXCEPT !.held = TRUE]
    <3>1. chain' \in ChainRecords /\ chain'.pc \in {"scene", "shake"} /\ chain'.rc = chain.rc
        BY <1>0, <2>3, AtFact, Zenon DEF ChainStates
    <3>2. journal' \in JournalRecords /\ journal'.closed = journal.closed /\ journal'.held /\ journal'.shaken = journal.shaken
        BY <1>0, <2>3 DEF JournalRecords
    <3> QED
        BY <1>0, <2>1, <3>1, <3>2, ChainMoves, Zenon DEF nodes, world, WorldOK
  <2> QED
      BY <2>1, <2>2, <2>3
<1>4. CASE Scene
  <2>1. chain.pc = "scene" /\ (At("shake") \/ End("failed")) /\ UNCHANGED <<nodes, world, waiter, journal>>
      BY <1>4, Zenon DEF Scene
  <2>2. chain' \in ChainRecords /\ ((chain'.pc = "shake" /\ chain'.rc = chain.rc) \/ (chain'.pc = "idle" /\ chain'.rc = "failed"))
      BY <1>0, <2>1, AtFact, EndFact, Zenon DEF ChainStates
  <2> QED
      BY <1>0, <2>1, <2>2, ChainMoves, Zenon DEF nodes, world, WorldOK
<1>5. CASE Shake
  <2>1. /\ chain.pc = "shake" /\ UNCHANGED <<nodes, world, waiter>>
        /\ \/ At("camera") /\ journal' = [journal EXCEPT !.shaken = TRUE]
           \/ End("failed") /\ UNCHANGED journal
      BY <1>5, Zenon DEF Shake
  <2>2. CASE End("failed") /\ UNCHANGED journal
    <3>1. chain' \in ChainRecords /\ chain'.pc = "idle" /\ chain'.rc = "failed"
        BY <1>0, <2>2, EndFact, Zenon
    <3> QED
        BY <1>0, <2>1, <2>2, <3>1, ChainMoves, Zenon DEF nodes, world, WorldOK
  <2>3. CASE At("camera") /\ journal' = [journal EXCEPT !.shaken = TRUE]
    <3>1. chain' \in ChainRecords /\ chain'.pc = "camera" /\ chain'.rc = chain.rc
        BY <1>0, <2>3, AtFact, Zenon DEF ChainStates
    <3>2. journal' \in JournalRecords /\ journal'.closed = journal.closed /\ journal'.held = journal.held /\ journal'.shaken
        BY <1>0, <2>3 DEF JournalRecords
    <3> QED
        BY <1>0, <2>1, <3>1, <3>2, ChainMoves, Zenon DEF nodes, world, WorldOK
  <2> QED
      BY <2>1, <2>2, <2>3
<1>6. CASE CameraPose
  <2>1. chain.pc \in {"camera", "true"} /\ (End("ok") \/ End("failed")) /\ UNCHANGED <<nodes, world, waiter, journal>>
      BY <1>6, Zenon DEF CameraPose
  <2>2. chain' \in ChainRecords /\ chain'.pc = "idle"
      BY <1>0, <2>1, EndFact, Zenon
  <2> QED
      BY <1>0, <2>1, <2>2, ChainMoves, Zenon DEF nodes, world, WorldOK
<1> QED
    BY <1>1, <1>2, <1>3, <1>4, <1>5, <1>6, Zenon DEF Shaking

\* The invariant is kept by every step.
LEMMA NextLidInv == LidInv /\ [Next]_vars => LidInv'
<1> SUFFICES ASSUME LidInv, [Next]_vars PROVE LidInv'
    OBVIOUS
<1>1. CASE Next
    BY <1>1, SequencesKeepLidInv, LaunchesKeepLidInv, WaitingKeepsLidInv, ShakingKeepsLidInv, Zenon DEF Next
<1>2. CASE UNCHANGED vars
  <2>1. Told /\ UNCHANGED <<cfg, launch, planner, finished, requests, force, world, chain>>
      BY <1>2, Zenon DEF vars, world, Told
  <2>2. launch \in LaunchRecords /\ requests \in 0 .. MaxRequests /\ force \subseteq Attempts
      BY Types, Zenon DEF LidInv
  <2> QED
      BY <2>1, <2>2, SequencesRest, NodesMove, Zenon
<1> QED
    BY <1>1, <1>2

-----------------------------------------------------------------------------
(* The theorems.                                                           *)

\* The invariant holds in every reachable state of the lid and shake stage.
THEOREM LidInvariance == Spec => []LidInv
BY InitLidInv, NextLidInv, PTL DEF Spec

\* The variables have their types; a planner's thread never runs past the end of its sequence.
THEOREM LidTypeCorrect == Spec => []TypeOK
BY LidInvariance, PTL DEF LidInv

\* The cup is taken from the holder only after some planner has run a whole sequence, it is shaken only
\* after its pick, and a stage that ends well has shaken it.
THEOREM ShakeEarned == Spec => []ShakeIsEarned
BY LidInvariance, PTL DEF LidInv

\* A resumed chain does not open the gripper over a cup that the journal has as held.
THEOREM CupKeptToTheShake == Spec => []PickedCupIsKept
BY LidInvariance, PTL DEF LidInv

\* No planner, however many live on and hear the same requests, opens the gripper in a sequence past
\* its release with its force control still on.
THEOREM ReleasedBeforeOpening == Spec => []OpensWithoutForce
BY LidInvariance, PTL DEF LidInv
=============================================================================
