-------------------------- MODULE AutoCupFlowProofs --------------------------
(***************************************************************************)
(* Proofs about AutoCupFlow: types, durability of the snapshot, truth of   *)
(* the journal, and the refinement of StageJournal.                        *)
(***************************************************************************)
EXTENDS AutoCupFlow, WellFoundedInduction, TLAPS

-----------------------------------------------------------------------------
(***************************************************************************)
(* Lemmas about the operators on snapshots.                                *)
(***************************************************************************)

\* next_stage() always finds a stage, or "complete".
LEMMA NextStageType ==
    ASSUME NEW d \in SUBSET Stage
    PROVE  NextStage(d) \in 1 .. Complete
<1> DEFINE open == (Stage \ d) \cup {Complete}
<1>1. open \in SUBSET Nat /\ open # {} /\ open \subseteq 1 .. Complete
  BY SnapshotAssumption DEF Stage, Complete
<1> HIDE DEF open
<1> DEFINE less == {ss \in Nat \X Nat : ss[1] < ss[2]}
<1>a. IsWellFoundedOn(less, Nat)
  BY NatLessThanWellFounded DEF OpToRel
<1> HIDE DEF less
<1>b. \E s \in open : \A t \in open : <<t, s>> \notin less
  BY <1>1, <1>a, WFMin
<1>2. \E s \in open : \A t \in open : s <= t
  <2>1. PICK s \in open : \A t \in open : <<t, s>> \notin less
    BY <1>b
  <2>2. ASSUME NEW t \in open  PROVE s <= t
    <3>1. s \in Nat /\ t \in Nat
      BY <1>1
    <3>2. ~ (t < s)
      BY <2>1, <3>1 DEF less
    <3> QED
      BY <3>1, <3>2
  <2> QED
    BY <2>2
<1>3. (CHOOSE s \in open : \A t \in open : s <= t) \in open
  BY <1>2
<1> QED
  BY <1>1, <1>3 DEF NextStage, open

\* What each method of the store makes of a snapshot is a snapshot of the same
\* run; only complete_stage and complete_run change the completed stages.
LEMMA SnapshotOps ==
    ASSUME NEW s \in Snapshots, NEW i \in Stage
    PROVE  /\ Resumed(s) \in Snapshots
           /\ Resumed(s).run = s.run /\ Resumed(s).done = s.done
           /\ Started(s, i) \in Snapshots
           /\ Started(s, i).run = s.run /\ Started(s, i).done = s.done
           /\ Progressed(s, i) \in Snapshots
           /\ Progressed(s, i).run = s.run /\ Progressed(s, i).done = s.done
           /\ Failed(s, i) \in Snapshots
           /\ Failed(s, i).run = s.run /\ Failed(s, i).done = s.done
           /\ Completed(s, i) \in Snapshots
           /\ Completed(s, i).run = s.run
           /\ Completed(s, i).done = s.done \cup {i}
           /\ RunCompleted(s) \in Snapshots
           /\ RunCompleted(s).run = s.run /\ RunCompleted(s).done = Stage
<1>1. i \in 0 .. Complete /\ i \in 1 .. Complete /\ Complete \in 0 .. Complete
      /\ Complete \in 1 .. Complete
  BY SnapshotAssumption DEF Stage, Complete
<1>2. s.done \cup {i} \in SUBSET Stage
  BY DEF Snapshots
<1>3. NextStage(s.done \cup {i}) \in 1 .. Complete
  BY <1>2, NextStageType
<1>4. /\ Resumed(s) \in Snapshots
      /\ Resumed(s).run = s.run /\ Resumed(s).done = s.done
  BY DEF Resumed, Snapshots, Statuses
<1>5. /\ Started(s, i) \in Snapshots
      /\ Started(s, i).run = s.run /\ Started(s, i).done = s.done
  BY <1>1 DEF Started, Snapshots, Statuses, Steps
<1>6. /\ Progressed(s, i) \in Snapshots
      /\ Progressed(s, i).run = s.run /\ Progressed(s, i).done = s.done
  BY <1>1 DEF Progressed, Snapshots, Statuses, Steps
<1>7. /\ Failed(s, i) \in Snapshots
      /\ Failed(s, i).run = s.run /\ Failed(s, i).done = s.done
  BY <1>1 DEF Failed, Snapshots, Statuses, Steps
<1>8. /\ Completed(s, i) \in Snapshots
      /\ Completed(s, i).run = s.run
      /\ Completed(s, i).done = s.done \cup {i}
  BY <1>1, <1>2, <1>3 DEF Completed, Snapshots, Statuses, Steps
<1>9. /\ RunCompleted(s) \in Snapshots
      /\ RunCompleted(s).run = s.run /\ RunCompleted(s).done = Stage
  BY <1>1 DEF RunCompleted, Snapshots, Statuses, Steps
<1> QED
  BY <1>4, <1>5, <1>6, <1>7, <1>8, <1>9

\* A new snapshot has no completed stage.
LEMMA NewOps ==
    ASSUME NEW r \in RunIds, NEW o \in Orders \cup {NoOrder}
    PROVE  /\ NewSnapshot(r, "running", o) \in Snapshots
           /\ NewSnapshot(r, "running", o).run = r
           /\ NewSnapshot(r, "running", o).done = {}
           /\ Blocked(r, o) \in Snapshots
           /\ Blocked(r, o).run = r /\ Blocked(r, o).done = {}
<1>1. 1 \in 1 .. Complete /\ 0 \in 0 .. Complete
  BY SnapshotAssumption DEF Complete
<1> QED
  BY <1>1 DEF NewSnapshot, Blocked, Snapshots, Statuses, Steps
-----------------------------------------------------------------------------
(***************************************************************************)
(* Type correctness.  That a reader has a snapshot to change needs the     *)
(* fact that nothing is under way when no router runs.                     *)
(***************************************************************************)
TInv == TypeOK /\ OffIsQuiet

\* The initial state is well typed.
LEMMA InitTyped == Init => TInv
<1> SUFFICES ASSUME Init PROVE TInv
  OBVIOUS
<1>1. 1 \in 1 .. Complete
  BY SnapshotAssumption DEF Complete
<1>2. pipe \in [Stage -> Seq(Lines)]
  <2>1. <<>> \in Seq(Lines)
    OBVIOUS
  <2> QED
    BY <2>1 DEF Init
<1>3. ledger \in [RunIds -> [Stage -> Outcomes]]
  BY DEF Init, Outcomes
<1>4. TypeOK
  BY <1>1, <1>2, <1>3 DEF Init, TypeOK
<1>5. OffIsQuiet
  BY DEF Init, OffIsQuiet, Writers
<1> QED
  BY <1>4, <1>5 DEF TInv

\* A process that ends, in whatever way, leaves nothing running behind.
LEMMA VanishTyped == TInv /\ Vanish => TInv'
<1> SUFFICES ASSUME TInv, Vanish PROVE TInv'
  OBVIOUS
<1>1. 1 \in 1 .. Complete
  BY SnapshotAssumption DEF Complete
<1>2. pipe' \in [Stage -> Seq(Lines)]
  <2>1. <<>> \in Seq(Lines)
    OBVIOUS
  <2> QED
    BY <2>1 DEF Vanish
<1>3. TypeOK'
  BY <1>1, <1>2 DEF Vanish, TInv, TypeOK
<1>4. OffIsQuiet'
  BY DEF Vanish, OffIsQuiet, Writers
<1> QED
  BY <1>3, <1>4 DEF TInv

\* Starting a router, in any mode, keeps the types.
LEMMA LaunchTyped == TInv /\ Launch => TInv'
<1> SUFFICES ASSUME TInv, Launch PROVE TInv'
  OBVIOUS
<1> USE DEF TInv, TypeOK, OffIsQuiet, Writers, Threads, Main
<1>0. 1 \in 1 .. Complete
  BY SnapshotAssumption DEF Complete
<1>1. ASSUME NEW m, NEW o \in Orders \cup {NoOrder}, NEW r \in RunIds,
             LaunchNew(m, o, r)
      PROVE  TInv'
  <2>1. NewSnapshot(r, "running", o) \in Snapshots
    BY NewOps
  <2>2. ledger' \in [RunIds -> [Stage -> Outcomes]]
    BY <1>1 DEF LaunchNew, FreshRun, Outcomes
  <2> QED
    BY <1>0, <1>1, <2>1, <2>2, FlowAssumption DEF LaunchNew
<1>2. ASSUME NEW o \in Orders \cup {NoOrder}, LaunchResume(o)  PROVE TInv'
  <2>1. file \in Snapshots
    BY <1>2 DEF LaunchResume
  <2>2. Resumed(file) \in Snapshots
    BY <2>1 DEF Resumed, Snapshots, Statuses
  <2> QED
    BY <1>0, <1>2, <2>2, FlowAssumption DEF LaunchResume
<1>3. ASSUME NEW o \in Orders \cup {NoOrder}, NEW r \in RunIds,
             RefuseResume(o, r)
      PROVE  TInv'
  <2>1. Blocked(r, o) \in Snapshots
    BY NewOps
  <2>2. ledger' \in [RunIds -> [Stage -> Outcomes]]
    BY <1>3 DEF RefuseResume, FreshRun, Outcomes
  <2> QED
    BY <1>3, <2>1, <2>2, FlowAssumption DEF RefuseResume
<1> QED
  BY <1>1, <1>2, <1>3 DEF Launch

\* So do the steps of the main thread.
LEMMA MainTyped == TInv /\ MainStep => TInv'
<1> SUFFICES ASSUME TInv, MainStep PROVE TInv'
  OBVIOUS
<1> USE DEF TInv, TypeOK, OffIsQuiet, Writers, Threads, Main
<1>0. pc # "off" => snap \in Snapshots /\ snap.run \in RunIds
  BY DEF Snapshots
<1>a. \A s \in Stage : s \in Nat /\ s + 1 \in 1 .. Complete /\ s \in 1 .. Complete
  BY SnapshotAssumption DEF Stage, Complete
<1>1. CASE SkipStage
  BY <1>1, <1>a DEF SkipStage
<1>2. CASE StartStage
  <2>1. Started(snap, cur) \in Snapshots
    BY <1>0, <1>2, SnapshotOps DEF StartStage
  <2> QED
    BY <1>2, <2>1, FlowAssumption DEF StartStage
<1>3. CASE Spawn
  <2>1. ledger' \in [RunIds -> [Stage -> Outcomes]]
    BY <1>0, <1>3 DEF Spawn, Outcomes
  <2> QED
    BY <1>3, <2>1 DEF Spawn
<1>4. CASE Reap
  <2>1. Completed(snap, cur) \in Snapshots /\ Failed(snap, cur) \in Snapshots
    BY <1>0, <1>4, SnapshotOps DEF Reap
  <2> QED
    BY <1>4, <1>a, <2>1, FlowAssumption DEF Reap
<1>5. CASE FinishRun
  <2>1. 1 \in Stage
    BY SnapshotAssumption DEF Stage
  <2>2. RunCompleted(snap) \in Snapshots
    BY <1>0, <1>5, <2>1, SnapshotOps DEF FinishRun
  <2> QED
    BY <1>5, <2>2, FlowAssumption DEF FinishRun
<1>6. CASE Exit
  BY <1>6, VanishTyped DEF Exit
<1> QED
  BY <1>1, <1>2, <1>3, <1>4, <1>5, <1>6 DEF MainStep

\* So do the writes and the child process.
LEMMA WriteChildTyped == TInv /\ (Write \/ ChildStep \/ Crash) => TInv'
<1> SUFFICES ASSUME TInv, Write \/ ChildStep \/ Crash PROVE TInv'
  OBVIOUS
<1> USE DEF TInv, TypeOK, OffIsQuiet, Writers, Threads, Main
<1>0. pc # "off" => snap \in Snapshots /\ snap.run \in RunIds
  BY DEF Snapshots
<1>1. ASSUME NEW t \in Threads, BeginWrite(t)  PROVE TInv'
  BY <1>1 DEF BeginWrite
<1>2. ASSUME NEW t \in Threads, EndWrite(t)  PROVE TInv'
  BY <1>2, FlowAssumption DEF EndWrite
<1>3. ASSUME NEW line \in {"text", "progress"}, PrintLine(line)  PROVE TInv'
  <2>1. pipe' \in [Stage -> Seq(Lines)]
    BY <1>3 DEF PrintLine, Emit, Lines
  <2> QED
    BY <1>3, <2>1 DEF PrintLine
<1>4. CASE PrintFault
  <2>1. pipe' \in [Stage -> Seq(Lines)]
    BY <1>4 DEF PrintFault, Emit, Lines
  <2> QED
    BY <1>4, <2>1 DEF PrintFault
<1>5. CASE NodeDies
  <2>1. pipe' \in [Stage -> Seq(Lines)]
    BY <1>5 DEF NodeDies, Emit, Lines
  <2> QED
    BY <1>5, <2>1 DEF NodeDies
<1>6. ASSUME NEW code \in {"exit0", "exit1"}, NEW o \in Outcomes,
             ChildExit(code, o)
      PROVE  TInv'
  <2>1. ledger' \in [RunIds -> [Stage -> Outcomes]]
    BY <1>0, <1>6 DEF ChildExit
  <2>2. pc = "wait"
    BY <1>6 DEF ChildExit
  <2> QED
    BY <1>6, <2>1, <2>2 DEF ChildExit
<1>7. CASE Crash
  BY <1>7, VanishTyped DEF Crash
<1> QED
  BY <1>1, <1>2, <1>3, <1>4, <1>5, <1>6, <1>7 DEF Write, ChildStep

\* So do the readers.
LEMMA ReadTyped ==
    ASSUME TInv, NEW s \in Stage, Read(s)
    PROVE  TInv'
<1> USE DEF TInv, TypeOK, OffIsQuiet, Writers, Threads, Main
<1>1. pc # "off" /\ snap \in Snapshots
  BY FlowAssumption DEF Read, Heartbeat, ReadProgress, ReadFault, ReadOther, TakeLine
<1>2. pipe' \in [Stage -> Seq(Lines)] /\ beat' \in SUBSET Stage
  <2>1. /\ pipe[s] \in Seq(Lines) /\ pipe[s] # <<>>
        /\ \/ pipe' = pipe /\ beat' = beat \cup {s}
           \/ pipe' = [pipe EXCEPT ![s] = Tail(@)] /\ beat' = beat \ {s}
    BY DEF Read, Heartbeat, ReadProgress, ReadFault, ReadOther, TakeLine
  <2>2. Tail(pipe[s]) \in Seq(Lines)
    BY <2>1
  <2> QED
    BY <2>1, <2>2
<1>3. CASE ReadProgress(s)
  <2>1. Progressed(snap, s) \in Snapshots
    BY <1>1, SnapshotOps
  <2> QED
    BY <1>1, <1>2, <1>3, <2>1, FlowAssumption DEF ReadProgress, TakeLine
<1>4. CASE ReadFault(s)
  <2>1. Failed(snap, s) \in Snapshots
    BY <1>1, SnapshotOps
  <2> QED
    BY <1>1, <1>2, <1>4, <2>1, FlowAssumption DEF ReadFault, TakeLine
<1>5. CASE ReadOther(s)
  <2>1. want' \in SUBSET Threads /\ failures' \in SUBSET Stage
    BY <1>5 DEF ReadOther, TakeLine
  <2> QED
    BY <1>1, <1>2, <1>5, <2>1 DEF ReadOther, TakeLine
<1>6. CASE Heartbeat(s)
  <2>1. want' \in SUBSET Threads
    BY <1>6 DEF Heartbeat
  <2> QED
    BY <1>1, <1>2, <1>6, <2>1 DEF Heartbeat
<1> QED
  BY <1>3, <1>4, <1>5, <1>6 DEF Read

\* So does any step of the system.
LEMMA StepTyped == TInv /\ [Next]_vars => TInv'
<1> SUFFICES ASSUME TInv, [Next]_vars PROVE TInv'
  OBVIOUS
<1>1. CASE UNCHANGED vars
  BY <1>1 DEF vars, router, TInv, TypeOK, OffIsQuiet, Writers
<1>2. CASE Next
  BY <1>2, LaunchTyped, MainTyped, WriteChildTyped, ReadTyped DEF Next
<1> QED
  BY <1>1, <1>2

\* Every reachable state is well typed.
THEOREM TypeCorrect == Spec => [](TypeOK /\ OffIsQuiet)
<1>1. TInv => TypeOK /\ OffIsQuiet
  BY DEF TInv
<1> QED
  BY InitTyped, StepTyped, <1>1, PTL DEF Spec
-----------------------------------------------------------------------------
(***************************************************************************)
(* The inductive invariant.  Most steps leave the file and the writes in   *)
(* progress alone; the lemmas below treat them as one.                     *)
(***************************************************************************)
SilentStep ==
    \/ SkipStage \/ StartStage \/ Spawn \/ Reap \/ FinishRun
    \/ ChildStep \/ (\E s \in Stage : Read(s)) \/ UNCHANGED vars

\* Only a launch, a write, and the end of the process touch the file.
LEMMA SilentFrame == SilentStep => UNCHANGED <<file, buf>>
BY DEF SilentStep, SkipStage, StartStage, Spawn, Reap, FinishRun, ChildStep,
       PrintLine, PrintFault, NodeDies, ChildExit, Read, Heartbeat, ReadProgress,
       ReadFault, ReadOther, TakeLine, vars, router

\* The steps of the system, grouped by what they do to the file.
LEMMA StepKinds ==
    [Next]_vars => SilentStep \/ Launch \/ Write \/ (pc # "off" /\ Vanish)
BY DEF Next, SilentStep, MainStep, Exit, Crash

\* Readers and the child's output leave the journal's run and stages alone.
LEMMA ReadFrame ==
    ASSUME TInv, NEW s \in Stage, Read(s)
    PROVE  /\ pc # "off" /\ snap' \in Snapshots
           /\ snap'.run = snap.run /\ snap'.done = snap.done
           /\ want \subseteq want' /\ want' \subseteq want \cup {s}
           /\ snap' = snap \/ s \in want'
           /\ UNCHANGED <<file, pc, cur, resuming, buf, child, ledger>>
<1>1. pc # "off" /\ snap \in Snapshots
  BY FlowAssumption DEF TInv, TypeOK, OffIsQuiet,
                        Read, Heartbeat, ReadProgress, ReadFault, ReadOther, TakeLine
<1>2. CASE ReadProgress(s)
  BY <1>1, <1>2, SnapshotOps DEF ReadProgress, TakeLine
<1>3. CASE ReadFault(s)
  BY <1>1, <1>3, SnapshotOps DEF ReadFault, TakeLine
<1>4. CASE ReadOther(s)
  BY <1>1, <1>4 DEF ReadOther, TakeLine
<1>5. CASE Heartbeat(s)
  BY <1>1, <1>5 DEF Heartbeat
<1> QED
  BY <1>2, <1>3, <1>4, <1>5 DEF Read

\* The file is torn while a thread writes, and only one thread writes.
LEMMA OneWriterStep == IInv /\ [Next]_vars => OneWriter'
<1> SUFFICES ASSUME IInv, [Next]_vars PROVE OneWriter'
  OBVIOUS
<1> USE DEF IInv, OneWriter, Writers
<1>1. CASE SilentStep
  BY <1>1, SilentFrame
<1>2. CASE Launch
  BY <1>2 DEF Launch, LaunchNew, LaunchResume, RefuseResume, OffIsQuiet
<1>3. ASSUME NEW t \in Threads, BeginWrite(t)  PROVE OneWriter'
  BY <1>3 DEF BeginWrite, TypeOK
<1>4. ASSUME NEW t \in Threads, EndWrite(t)  PROVE OneWriter'
  BY <1>4 DEF EndWrite, TypeOK
<1>5. CASE Vanish
  BY <1>5 DEF Vanish
<1> QED
  BY <1>1, <1>2, <1>3, <1>4, <1>5, StepKinds DEF Write

\* A snapshot that was changed is in the file, in a write, or due to be written.
LEMMA OnItsWayStep == IInv /\ [Next]_vars => SnapshotOnItsWay'
<1> SUFFICES ASSUME IInv, [Next]_vars PROVE SnapshotOnItsWay'
  OBVIOUS
<1> USE DEF IInv, SnapshotOnItsWay
<1>1. CASE SilentStep
  <2>1. UNCHANGED <<file, buf>>
    BY <1>1, SilentFrame
  <2>2. CASE \E s \in Stage : Read(s)
    BY <2>1, <2>2, ReadFrame DEF TInv
  <2>3. CASE ~ \E s \in Stage : Read(s)
    BY <1>1, <2>1, <2>3
       DEF SilentStep, SkipStage, StartStage, Spawn, Reap, FinishRun, ChildStep,
           PrintLine, PrintFault, NodeDies, ChildExit, vars, router
  <2> QED
    BY <2>2, <2>3
<1>2. CASE Launch
  BY <1>2 DEF Launch, LaunchNew, LaunchResume, RefuseResume
<1>3. ASSUME NEW t \in Threads, BeginWrite(t)  PROVE SnapshotOnItsWay'
  BY <1>3 DEF BeginWrite, TypeOK
<1>4. ASSUME NEW t \in Threads, EndWrite(t)  PROVE SnapshotOnItsWay'
  <2>1. CASE pc = "off"
    BY <1>4, <2>1 DEF EndWrite
  <2>2. CASE pc # "off"
    <3>1. file = None /\ snap # None
      BY <1>4, <2>2 DEF EndWrite, OneWriter, Writers, TypeOK
    <3>2. CASE want # {}
      BY <1>4, <3>2 DEF EndWrite
    <3>3. ASSUME NEW u \in Threads, buf[u] = snap  PROVE SnapshotOnItsWay'
      <4>1. u = t
        BY <1>4, <3>1, <3>3 DEF EndWrite, OneWriter, Writers
      <4> QED
        BY <1>4, <3>3, <4>1 DEF EndWrite
    <3> QED
      BY <2>2, <3>1, <3>2, <3>3
  <2> QED
    BY <2>1, <2>2
<1>5. CASE Vanish
  BY <1>5 DEF Vanish
<1> QED
  BY <1>1, <1>2, <1>3, <1>4, <1>5, StepKinds DEF Write

\* Where the main thread is agrees with what the snapshot lists as completed.
LEMMA AtStageStep == IInv /\ [Next]_vars => AtStage'
<1> SUFFICES ASSUME IInv, [Next]_vars PROVE AtStage'
  OBVIOUS
<1> USE DEF IInv, AtStage, Main
<1>0. /\ pc # "off" => snap \in Snapshots /\ snap.done \in SUBSET Stage
      /\ cur \in Nat
  BY SnapshotAssumption DEF TypeOK, Snapshots, Complete
<1>1. CASE SkipStage
  BY <1>0, <1>1 DEF SkipStage, Skip, TypeOK
<1>2. CASE StartStage
  <2>1. snap' = Started(snap, cur) /\ pc' = "spawn" /\ cur \in Stage
        /\ UNCHANGED <<cur, resuming>> /\ ~Skip(cur) /\ pc = "stage"
    BY <1>2 DEF StartStage
  <2>2. snap'.done = snap.done
    BY <1>0, <2>1, SnapshotOps
  <2>3. cur \notin snap.done
    BY <1>0, <2>1, SnapshotAssumption DEF Skip, Stage, TypeOK
  <2> QED
    BY <2>1, <2>2, <2>3
<1>3. CASE Spawn
  BY <1>3 DEF Spawn, Idle
<1>4. CASE Reap
  <2>1. cur \in Stage
    BY <1>4 DEF Reap, TypeOK
  <2>2. CASE Passed
    <3>1. snap'.done = snap.done \cup {cur} /\ cur' = cur + 1 /\ pc' = "stage"
          /\ resuming' = resuming
      <4>1. snap' = Completed(snap, cur) /\ cur' = cur + 1 /\ pc' = "stage"
            /\ resuming' = resuming /\ pc = "wait"
        BY <1>4, <2>2 DEF Reap
      <4> QED
        BY <1>0, <2>1, <4>1, SnapshotOps
    <3>2. 1 .. (cur' - 1) \subseteq snap'.done
      BY <1>0, <1>4, <3>1 DEF Reap
    <3>3. ~resuming => snap'.done \subseteq 1 .. (cur' - 1)
      BY <1>0, <1>4, <2>1, <3>1, SnapshotAssumption DEF Reap, Stage
    <3> QED
      BY <3>1, <3>2, <3>3
  <2>3. CASE ~Passed
    BY <1>4, <2>3 DEF Reap
  <2> QED
    BY <2>2, <2>3
<1>5. CASE FinishRun
  BY <1>5 DEF FinishRun
<1>6. CASE ChildStep
  BY <1>6 DEF ChildStep, PrintLine, PrintFault, NodeDies, ChildExit
<1>7. ASSUME NEW s \in Stage, Read(s)  PROVE AtStage'
  <2>1. s # 0
    BY SnapshotAssumption DEF Stage
  <2> QED
    BY <1>7, <2>1, ReadFrame DEF TInv
<1>8. CASE Launch
  <2>1. ASSUME NEW m, NEW o \in Orders \cup {NoOrder}, NEW r \in RunIds,
               LaunchNew(m, o, r)
        PROVE  AtStage'
    BY <2>1, NewOps DEF LaunchNew
  <2>2. ASSUME NEW o, LaunchResume(o)  PROVE AtStage'
    BY <2>2 DEF LaunchResume
  <2>3. ASSUME NEW o, NEW r, RefuseResume(o, r)  PROVE AtStage'
    BY <2>3 DEF RefuseResume
  <2> QED
    BY <1>8, <2>1, <2>2, <2>3 DEF Launch
<1>9. ASSUME NEW t \in Threads, BeginWrite(t) \/ EndWrite(t)  PROVE AtStage'
  BY <1>9 DEF BeginWrite, EndWrite
<1>10. CASE Vanish
  BY <1>10 DEF Vanish
<1>11. CASE UNCHANGED vars
  BY <1>11 DEF vars, router
<1> QED
  BY <1>1, <1>2, <1>3, <1>4, <1>5, <1>6, <1>7, <1>8, <1>9, <1>10, <1>11,
     StepKinds DEF SilentStep, Write

\* What the journal claims stays true of the world, in every copy of it.
LEMMA EarnedStep == IInv /\ [Next]_vars => AllEarned'
<1> SUFFICES ASSUME IInv, [Next]_vars PROVE AllEarned'
  OBVIOUS
<1> USE DEF IInv, AllEarned
<1>0. /\ pc # "off" => snap \in Snapshots /\ snap # None /\ snap.run \in RunIds
                        /\ snap.done \in SUBSET Stage
      /\ file # None => file \in Snapshots /\ file.run \in RunIds
                         /\ file.done \in SUBSET Stage
      /\ \A t \in Threads : buf[t] # None =>
            buf[t] \in Snapshots /\ buf[t].run \in RunIds
            /\ buf[t].done \in SUBSET Stage
  BY FlowAssumption DEF TypeOK, Snapshots
<1>1. CASE UNCHANGED <<file, buf, ledger>> /\ pc # "off" /\ child' # "exit0"
           /\ snap' \in Snapshots /\ snap'.run = snap.run
           /\ (\/ snap'.done = snap.done
               \/ \E i \in Stage : /\ snap'.done = snap.done \cup {i}
                                    /\ ledger[snap.run][i] \in {"ok", "died"})
  BY <1>0, <1>1, FlowAssumption DEF Earned, Behind
<1>2. CASE SkipStage
  BY <1>2 DEF SkipStage, Earned, Behind, TypeOK
<1>3. CASE StartStage
  <2>1. snap' = Started(snap, cur) /\ pc # "off" /\ cur \in Stage
        /\ UNCHANGED <<file, buf, ledger, child>> /\ pc # "wait"
    BY <1>3 DEF StartStage
  <2>2. child # "exit0"
    BY <2>1 DEF TypeOK
  <2> QED
    BY <1>0, <1>1, <2>1, <2>2, SnapshotOps
<1>4. CASE Spawn
  <2>1. /\ cur \in Stage /\ cur \notin snap.done /\ pc # "off"
        /\ ledger' = [ledger EXCEPT ![snap.run][cur] = "started"]
        /\ UNCHANGED <<file, buf, snap, cur>> /\ child' # "exit0"
    BY <1>4 DEF Spawn, TypeOK, AtStage
  <2>2. \A r \in RunIds, s \in Stage :
            ~(r = snap.run /\ s = cur) => ledger'[r][s] = ledger[r][s]
    BY <1>0, <2>1 DEF TypeOK
  <2> QED
    BY <1>0, <2>1, <2>2 DEF Earned, Behind
<1>5. CASE Reap
  <2>1. pc = "wait" /\ cur \in Stage /\ UNCHANGED <<file, buf, ledger>>
        /\ child' # "exit0"
    BY <1>5 DEF Reap, TypeOK
  <2>2. CASE Passed
    <3>1. snap' = Completed(snap, cur) /\ child = "exit0"
      BY <1>5, <2>2 DEF Reap, Passed
    <3> QED
      BY <1>0, <1>1, <2>1, <3>1, SnapshotOps
  <2>3. CASE ~Passed
    <3>1. snap' = Failed(snap, cur)
      BY <1>5, <2>3 DEF Reap
    <3> QED
      BY <1>0, <1>1, <2>1, <3>1, SnapshotOps
  <2> QED
    BY <2>2, <2>3
<1>6. CASE FinishRun
  <2>1. snap' = RunCompleted(snap) /\ pc = "stage" /\ cur = Complete
        /\ UNCHANGED <<file, buf, ledger, child>>
    BY <1>6 DEF FinishRun
  <2>2. child # "exit0"
    BY <2>1 DEF TypeOK
  <2>3. Stage = snap.done
    <3>1. 1 .. (cur - 1) \subseteq snap.done
      BY <2>1 DEF AtStage
    <3>2. cur - 1 = NumStages
      BY <2>1, SnapshotAssumption DEF Complete
    <3> QED
      BY <1>0, <2>1, <3>1, <3>2 DEF Stage
  <2>4. 1 \in Stage
    BY SnapshotAssumption DEF Stage
  <2>5. snap' \in Snapshots /\ snap'.run = snap.run /\ snap'.done = snap.done
    BY <1>0, <2>1, <2>3, <2>4, SnapshotOps
  <2> QED
    BY <1>1, <2>1, <2>2, <2>5
<1>7. CASE (\E line \in {"text", "progress"} : PrintLine(line)) \/ PrintFault \/ NodeDies
  BY <1>7 DEF PrintLine, PrintFault, NodeDies, Earned, Behind
<1>8. ASSUME NEW code \in {"exit0", "exit1"}, NEW o \in Outcomes,
             ChildExit(code, o)
      PROVE  AllEarned'
  <2>1. /\ pc = "wait" /\ cur \in Stage /\ cur \notin snap.done
        /\ ledger' = [ledger EXCEPT ![snap.run][cur] = o]
        /\ UNCHANGED <<file, buf, snap, cur, pc>>
        /\ child' = code /\ (code = "exit0" => o \in {"ok", "died"})
    BY <1>8 DEF ChildExit, TypeOK, AtStage
  <2>2. \A r \in RunIds, s \in Stage :
            ~(r = snap.run /\ s = cur) => ledger'[r][s] = ledger[r][s]
    BY <1>0, <2>1 DEF TypeOK
  <2>3. ledger'[snap.run][cur] = o
    BY <1>0, <2>1 DEF TypeOK
  <2> QED
    BY <1>0, <2>1, <2>2, <2>3 DEF Earned, Behind
<1>9. ASSUME NEW s \in Stage, Read(s)  PROVE AllEarned'
  <2>1. /\ pc # "off" /\ snap' \in Snapshots
        /\ snap'.run = snap.run /\ snap'.done = snap.done
        /\ UNCHANGED <<file, pc, cur, buf, child, ledger>>
    BY <1>9, ReadFrame DEF TInv
  <2> QED
    BY <1>0, <2>1, FlowAssumption DEF Earned, Behind
<1>10. CASE Launch
  <2>1. pc = "off" /\ \A t \in Threads : buf'[t] = None
    BY <1>10 DEF Launch, LaunchNew, LaunchResume, RefuseResume, OffIsQuiet,
                 Writers
  <2>2. child' # "exit0"
    BY <1>10, <2>1 DEF Launch, LaunchNew, LaunchResume, RefuseResume, TypeOK
  <2>3. ASSUME NEW o \in Orders \cup {NoOrder}, NEW r \in RunIds,
               NEW m, LaunchNew(m, o, r) \/ RefuseResume(o, r)
        PROVE  AllEarned'
    <3>1. snap'.done = {} /\ snap'.run = r
      BY <2>3, NewOps DEF LaunchNew, RefuseResume
    <3>2. /\ file' = None \/ (file' = file /\ file.run # r)
          /\ ledger' = [ledger EXCEPT ![r] = [s \in Stage |-> "none"]]
      BY <2>3 DEF LaunchNew, RefuseResume, FreshRun
    <3>3. file' # None => ledger'[file.run] = ledger[file.run]
      BY <1>0, <3>2 DEF TypeOK
    <3> QED
      BY <1>0, <2>1, <2>2, <3>1, <3>2, <3>3 DEF Earned, Behind
  <2>4. ASSUME NEW o \in Orders \cup {NoOrder}, LaunchResume(o)
        PROVE  AllEarned'
    <3>1. file # None /\ snap' = Resumed(file) /\ UNCHANGED <<file, ledger>>
      BY <2>4 DEF LaunchResume
    <3>2. snap'.done = file.done /\ snap'.run = file.run
      BY <1>0, <3>1 DEF Resumed, Snapshots
    <3> QED
      BY <1>0, <2>1, <2>2, <3>1, <3>2 DEF Earned, Behind
  <2> QED
    BY <1>10, <2>3, <2>4 DEF Launch
<1>11. ASSUME NEW t \in Threads, BeginWrite(t)  PROVE AllEarned'
  <2>1. /\ buf' = [buf EXCEPT ![t] = snap] /\ file' = None
        /\ UNCHANGED <<snap, pc, cur, child, ledger>>
    BY <1>11 DEF BeginWrite
  <2> QED
    BY <1>0, <2>1 DEF TypeOK, Earned, Behind
<1>12. ASSUME NEW t \in Threads, EndWrite(t)  PROVE AllEarned'
  <2>1. /\ buf' = [buf EXCEPT ![t] = None] /\ file' = buf[t]
        /\ UNCHANGED <<snap, pc, cur, child, ledger>>
    BY <1>12 DEF EndWrite
  <2> QED
    BY <1>0, <2>1 DEF TypeOK, Earned, Behind
<1>13. CASE Vanish
  BY <1>13 DEF Vanish, Earned, Behind
<1>14. CASE UNCHANGED vars
  BY <1>14 DEF vars, router, Earned, Behind
<1> QED
  BY <1>2, <1>3, <1>4, <1>5, <1>6, <1>7, <1>8, <1>9, <1>10, <1>11, <1>12,
     <1>13, <1>14, StepKinds DEF SilentStep, Write, ChildStep

\* The lock makes the committed journal well defined: the file, or the one
\* write that has begun.
LEMMA CommittedIs ==
    ASSUME OneWriter
    PROVE  /\ (\A t \in Threads : buf[t] = None) => Committed = file
           /\ \A t \in Threads : buf[t] # None => Committed = buf[t]
<1>1. ASSUME \A t \in Threads : buf[t] = None  PROVE Committed = file
  BY <1>1 DEF Committed, Writers
<1>2. ASSUME NEW t \in Threads, buf[t] # None  PROVE Committed = buf[t]
  <2>1. t \in Writers
    BY <1>2 DEF Writers
  <2>2. (CHOOSE u \in Writers : TRUE) \in Writers
    BY <2>1
  <2>3. (CHOOSE u \in Writers : TRUE) = t
    BY <2>1, <2>2 DEF OneWriter
  <2> QED
    BY <2>1, <2>3 DEF Committed
<1> QED
  BY <1>1, <1>2

\* What each kind of step does to the committed journal.
LEMMA CommittedStep ==
    ASSUME IInv, [Next]_vars
    PROVE  /\ SilentStep => Committed' = Committed
           /\ Vanish => Committed' = Committed \/ Committed' = None
           /\ \A t \in Threads : BeginWrite(t) => /\ Committed = file
                                                /\ Committed' = snap
           /\ \A t \in Threads : EndWrite(t) => Committed' = Committed
           /\ Launch => Committed = file /\ Committed' = file'
<1>0. OneWriter /\ OneWriter'
  BY OneWriterStep DEF IInv
<1>1. ASSUME SilentStep  PROVE Committed' = Committed
  BY <1>1, SilentFrame DEF Committed, Writers
<1>2. ASSUME Vanish  PROVE Committed' = Committed \/ Committed' = None
  <2>1. file' = file /\ \A t \in Threads : buf'[t] = None
    BY <1>2 DEF Vanish
  <2>2. Committed' = file
    BY <1>0, <2>1, CommittedIs DEF Committed, Writers
  <2>3. CASE Writers = {}
    BY <2>2, <2>3 DEF Committed
  <2>4. CASE Writers # {}
    BY <1>0, <2>2, <2>4 DEF OneWriter
  <2> QED
    BY <2>3, <2>4
<1>3. ASSUME NEW t \in Threads, BeginWrite(t)
      PROVE  Committed = file /\ Committed' = snap
  <2>1. (\A u \in Threads : buf[u] = None) /\ buf' = [buf EXCEPT ![t] = snap]
        /\ snap # None
    BY <1>3, FlowAssumption DEF BeginWrite, IInv, TypeOK, OffIsQuiet
  <2>2. buf'[t] = snap /\ \A u \in Threads : u # t => buf'[u] = None
    BY <2>1 DEF IInv, TypeOK
  <2>3. Writers' = {t}
    BY <2>1, <2>2 DEF Writers
  <2>4. Committed' = snap
    BY <2>2, <2>3 DEF Committed
  <2> QED
    BY <1>0, <2>1, <2>4, CommittedIs
<1>4. ASSUME NEW t \in Threads, EndWrite(t)  PROVE Committed' = Committed
  <2>1. buf[t] # None /\ buf' = [buf EXCEPT ![t] = None] /\ file' = buf[t]
    BY <1>4 DEF EndWrite
  <2>2. \A u \in Threads : buf'[u] = None
    BY <1>0, <2>1 DEF OneWriter, Writers, IInv, TypeOK
  <2>3. Committed' = file'
    BY <2>2 DEF Committed, Writers
  <2> QED
    BY <1>0, <2>1, <2>3, CommittedIs
<1>5. ASSUME Launch  PROVE Committed = file /\ Committed' = file'
  BY <1>5 DEF Launch, LaunchNew, LaunchResume, RefuseResume, IInv, OffIsQuiet,
              Committed, Writers
<1> QED
  BY <1>1, <1>2, <1>3, <1>4, <1>5

\* The committed journal is at most one stage behind the snapshot.
LEMMA OneAheadStep == IInv /\ [Next]_vars => OneStageAhead'
<1> SUFFICES ASSUME IInv, [Next]_vars PROVE OneStageAhead'
  OBVIOUS
<1> USE DEF IInv, OneStageAhead
<1>0. pc # "off" => snap \in Snapshots /\ snap # None
                    /\ snap.done \in SUBSET Stage
  BY FlowAssumption DEF TypeOK, Snapshots
<1>1. ASSUME SilentStep, pc # "off", snap'.run = snap.run,
             snap'.done = snap.done, Main \in want => Main \in want'
      PROVE  OneStageAhead'
  BY <1>1, CommittedStep
<1>2. CASE SkipStage \/ ChildStep
  BY <1>1, <1>2 DEF SilentStep, SkipStage, ChildStep, PrintLine, PrintFault,
                    NodeDies, ChildExit, TypeOK
<1>3. CASE StartStage
  <2>1. snap' = Started(snap, cur) /\ pc # "off" /\ cur \in Stage
        /\ want \subseteq want'
    BY <1>3 DEF StartStage
  <2> QED
    BY <1>0, <1>1, <1>3, <2>1, SnapshotOps DEF SilentStep
<1>4. CASE Spawn
  BY <1>1, <1>4 DEF SilentStep, Spawn
<1>5. CASE Reap
  <2>1. pc = "wait" /\ cur \in Stage /\ Main \notin want /\ Main \in want'
        /\ cur \notin snap.done /\ 1 .. (cur - 1) \subseteq snap.done
    BY <1>5 DEF Reap, TypeOK, AtStage
  <2>2. Committed # None /\ Committed.run = snap.run /\ Committed.done = snap.done
    BY <2>1
  <2>3. Committed' = Committed
    BY <1>5, CommittedStep DEF SilentStep
  <2>4. CASE Passed
    <3>1. snap' = Completed(snap, cur)
      BY <1>5, <2>4 DEF Reap
    <3>2. snap'.run = snap.run /\ snap'.done = snap.done \cup {cur}
      BY <1>0, <2>1, <3>1, SnapshotOps
    <3> QED
      BY <2>1, <2>2, <2>3, <3>2
  <2>5. CASE ~Passed
    <3>1. snap' = Failed(snap, cur)
      BY <1>5, <2>5 DEF Reap
    <3> QED
      BY <1>0, <1>1, <1>5, <2>1, <3>1, SnapshotOps DEF SilentStep
  <2> QED
    BY <2>4, <2>5
<1>6. CASE FinishRun
  <2>1. snap' = RunCompleted(snap) /\ pc = "stage" /\ cur = Complete
        /\ Main \in want'
    BY <1>6 DEF FinishRun
  <2>2. snap.done = Stage
    <3>1. 1 .. (cur - 1) \subseteq snap.done
      BY <2>1 DEF AtStage
    <3>2. cur - 1 = NumStages
      BY <2>1, SnapshotAssumption DEF Complete
    <3> QED
      BY <1>0, <2>1, <3>1, <3>2 DEF Stage
  <2>3. 1 \in Stage
    BY SnapshotAssumption DEF Stage
  <2>4. snap'.run = snap.run /\ snap'.done = snap.done
    BY <1>0, <2>1, <2>2, <2>3, SnapshotOps
  <2> QED
    BY <1>1, <1>6, <2>1, <2>4 DEF SilentStep
<1>7. ASSUME NEW s \in Stage, Read(s)  PROVE OneStageAhead'
  <2>1. pc # "off" /\ snap'.run = snap.run /\ snap'.done = snap.done
        /\ want \subseteq want'
    BY <1>7, ReadFrame DEF TInv
  <2> QED
    BY <1>1, <1>7, <2>1 DEF SilentStep
<1>8. CASE Launch
  <2>1. Committed' = file'
    BY <1>8, CommittedStep
  <2>2. ASSUME NEW o \in Orders \cup {NoOrder}, NEW r \in RunIds,
               NEW m, LaunchNew(m, o, r) \/ RefuseResume(o, r)
        PROVE  OneStageAhead'
    <3>1. snap'.done = {} /\ snap'.run = r
      BY <2>2, NewOps DEF LaunchNew, RefuseResume
    <3>2. /\ file' = None \/ (file' = file /\ file.run # r)
          /\ Main \in want'
      BY <2>2 DEF LaunchNew, RefuseResume, FreshRun
    <3> QED
      BY <2>1, <3>1, <3>2
  <2>3. ASSUME NEW o \in Orders \cup {NoOrder}, LaunchResume(o)
        PROVE  OneStageAhead'
    <3>1. file # None /\ snap' = Resumed(file) /\ file' = file
      BY <2>3 DEF LaunchResume
    <3>2. snap'.done = file.done /\ snap'.run = file.run
      BY <3>1 DEF Resumed, Snapshots, TypeOK
    <3> QED
      BY <2>1, <3>1, <3>2
  <2> QED
    BY <1>8, <2>2, <2>3 DEF Launch
<1>9. ASSUME NEW t \in Threads, BeginWrite(t)  PROVE OneStageAhead'
  <2>1. pc # "off" /\ UNCHANGED <<snap, pc>>
    BY <1>9 DEF BeginWrite, OffIsQuiet
  <2>2. Committed' = snap
    BY <1>9, CommittedStep
  <2> QED
    BY <1>0, <2>1, <2>2
<1>10. ASSUME NEW t \in Threads, EndWrite(t)  PROVE OneStageAhead'
  BY <1>10, CommittedStep DEF EndWrite
<1>11. CASE Vanish
  BY <1>11 DEF Vanish
<1>12. CASE UNCHANGED vars
  BY <1>1, <1>12, CommittedStep DEF SilentStep, vars, router
<1> QED
  BY <1>2, <1>3, <1>4, <1>5, <1>6, <1>7, <1>8, <1>9, <1>10, <1>11, <1>12,
     StepKinds DEF SilentStep, Write

-----------------------------------------------------------------------------
(***************************************************************************)
(* The theorems.                                                           *)
(***************************************************************************)

\* The invariant holds initially and no step of any actor breaks it.
LEMMA Inductive ==
    /\ Init => IInv
    /\ IInv /\ [Next]_vars => IInv'
<1>1. ASSUME Init  PROVE IInv
  <2>1. \A t \in Threads : buf[t] = None
    BY <1>1 DEF Init
  <2>2. Writers = {}
    BY <2>1 DEF Writers
  <2>3. OneWriter
    BY <2>2 DEF OneWriter
  <2>4. AllEarned
    BY <1>1, <2>1 DEF Init, AllEarned, Earned, Behind
  <2>5. SnapshotOnItsWay /\ AtStage /\ OneStageAhead
    BY <1>1 DEF Init, SnapshotOnItsWay, AtStage, OneStageAhead
  <2> QED
    BY <1>1, <2>3, <2>4, <2>5, InitTyped DEF IInv, TInv
<1>2. ASSUME IInv, [Next]_vars  PROVE IInv'
  <2>1. TInv'
    BY <1>2, StepTyped DEF IInv, TInv
  <2> QED
    BY <1>2, <2>1, OneWriterStep, OnItsWayStep, EarnedStep, AtStageStep,
       OneAheadStep DEF IInv, TInv
<1> QED
  BY <1>1, <1>2

\* The parts of the invariant hold in every reachable state.
THEOREM Invariance == Spec => []IInv
BY Inductive, PTL DEF Spec

\* Neither thread's write can bring back an older snapshot: once all of them are
\* done, the file is the snapshot.
THEOREM FileIsSnapshot == Spec => []FileFollowsSnapshot
<1>1. IInv => FileFollowsSnapshot
  <2> SUFFICES ASSUME IInv, pc # "off", \A t \in Threads : Idle(t)
               PROVE  file = snap
    BY DEF FileFollowsSnapshot
  <2>1. snap # None /\ want = {}
    BY DEF IInv, TypeOK, Idle
  <2> QED
    BY <2>1 DEF IInv, SnapshotOnItsWay, Idle
<1> QED
  BY <1>1, Invariance, PTL

\* A stage the file lists as completed has ended with exit code 0.
THEOREM JournalTruth == Spec => []JournalIsEarned
<1>1. IInv => JournalIsEarned
  BY DEF IInv, AllEarned, Earned, JournalIsEarned
<1> QED
  BY <1>1, Invariance, PTL

\* No step starts over, or otherwise changes the fate of, a journaled stage.
THEOREM NoRepeat == Spec => JournaledWorkIsKept
<1>1. IInv /\ [Next]_vars =>
        [file # None =>
           \A s \in file.done : ledger'[file.run][s] = ledger[file.run][s]]_vars
  <2> SUFFICES ASSUME IInv, [Next]_vars, file # None, NEW s \in file.done
               PROVE  ledger'[file.run][s] = ledger[file.run][s]
    OBVIOUS
  <2>1. file \in Snapshots /\ file.run \in RunIds /\ s \in Stage
    BY DEF IInv, TypeOK, Snapshots
  <2>2. pc # "off" => snap.run \in RunIds
    BY DEF IInv, TypeOK, Snapshots
  <2>3. CASE ledger' = ledger
    BY <2>3
  <2>4. ASSUME NEW o \in Outcomes, pc \in {"spawn", "wait"},
               ledger' = [ledger EXCEPT ![snap.run][cur] = o]
        PROVE  ledger'[file.run][s] = ledger[file.run][s]
    <3>1. ~(file.run = snap.run /\ s = cur)
      BY <2>4 DEF IInv, AtStage, AllEarned, Behind
    <3>2. cur \in Stage
      BY <2>4 DEF IInv, TypeOK
    <3> QED
      BY <2>1, <2>2, <2>4, <3>1, <3>2 DEF IInv, TypeOK
  <2>5. CASE Launch
    <3>1. \/ ledger' = ledger
          \/ \E r \in RunIds :
               r # file.run
               /\ ledger' = [ledger EXCEPT ![r] = [i \in Stage |-> "none"]]
      BY <2>5 DEF Launch, LaunchNew, LaunchResume, RefuseResume, FreshRun
    <3> QED
      BY <2>1, <3>1 DEF IInv, TypeOK
  <2>6. CASE Spawn
    BY <2>4, <2>6 DEF Spawn, Outcomes
  <2>7. ASSUME NEW code \in {"exit0", "exit1"}, NEW o \in Outcomes,
               ChildExit(code, o)
        PROVE  ledger'[file.run][s] = ledger[file.run][s]
    <3>1. pc = "wait"
      BY <2>7 DEF ChildExit, IInv, TypeOK
    <3> QED
      BY <2>4, <2>7, <3>1 DEF ChildExit
  <2>8. CASE ~Launch /\ ~Spawn
             /\ ~ \E code \in {"exit0", "exit1"}, o \in Outcomes : ChildExit(code, o)
    <3>1. ledger' = ledger
      BY <2>8 DEF Next, MainStep, SkipStage, StartStage, Reap, FinishRun, Exit,
                  Vanish, Crash, Write, BeginWrite, EndWrite, ChildStep,
                  PrintLine, PrintFault, NodeDies, Read, Heartbeat, ReadProgress,
                  ReadFault, ReadOther, TakeLine, vars, router
    <3> QED
      BY <2>3, <3>1
  <2> QED
    BY <2>5, <2>6, <2>7, <2>8
<1> QED
  BY <1>1, Invariance, PTL DEF Spec, JournaledWorkIsKept

\* What a reader of the file can observe is the abstract journal: it is opened,
\* advances by one stage in order, and is lost as a whole; nothing else happens.
THEOREM JournalRefinement == Spec => JournalImplemented
<1>1. Init => Journal!Init
  <2> SUFFICES ASSUME Init PROVE Committed = None
    BY DEF Journal!Init
  <2>1. Writers = {} /\ file = None
    BY DEF Init, Writers
  <2> QED
    BY <2>1 DEF Committed
<1>2. IInv /\ [Next]_vars =>
        [Journal!Next]_<<IF Committed = None THEN None ELSE Committed.run,
                         IF Committed = None THEN {} ELSE Committed.done>>
  <2> SUFFICES ASSUME IInv, [Next]_vars, Committed' # Committed
               PROVE  \/ Journal!Next
                      \/ /\ Committed # None /\ Committed' # None
                         /\ Committed'.run = Committed.run
                         /\ Committed'.done = Committed.done
    OBVIOUS
  <2>0. ASSUME Committed # None  PROVE Committed.run # None /\ Committed.run \in RunIds
    <3>1. \/ Committed = file
          \/ \E t \in Threads : Committed = buf[t]
      BY DEF Committed, Writers
    <3>2. Committed \in Snapshots
      BY <2>0, <3>1 DEF IInv, TypeOK
    <3> QED
      BY <3>2, FlowAssumption DEF Snapshots
  <2>1. ASSUME Committed' = None  PROVE Journal!Next
    BY <2>0, <2>1 DEF Journal!Next, Journal!Lose
  <2>2. CASE Launch
    <3>1. Committed' = None
      BY <2>2, CommittedStep DEF Launch, LaunchNew, LaunchResume, RefuseResume
    <3> QED
      BY <2>1, <3>1
  <2>3. CASE Vanish
    BY <2>1, <2>3, CommittedStep
  <2>4. ASSUME NEW t \in Threads, BeginWrite(t)
        PROVE  \/ Journal!Next
               \/ /\ Committed # None /\ Committed' # None
                  /\ Committed'.run = Committed.run
                  /\ Committed'.done = Committed.done
    <3>1. Committed' = snap /\ pc # "off"
      BY <2>4, CommittedStep DEF BeginWrite, IInv, OffIsQuiet
    <3>2. snap # None /\ snap.run \in RunIds /\ snap.run # None
      BY <3>1, FlowAssumption DEF IInv, TypeOK, Snapshots
    <3>3. CASE Committed # None /\ Committed.run = snap.run
      <4>1. CASE snap.done = Committed.done
        BY <3>1, <3>2, <3>3, <4>1
      <4>2. ASSUME NEW s \in Stage, s \notin Committed.done,
                   1 .. (s - 1) \subseteq Committed.done,
                   snap.done = Committed.done \cup {s}
            PROVE  Journal!Next
        <5>1. Journal!Advance(s)
          BY <2>0, <3>1, <3>2, <3>3, <4>2 DEF Journal!Advance
        <5> QED
          BY <5>1 DEF Journal!Next, Stage
      <4> QED
        BY <3>1, <3>3, <4>1, <4>2 DEF IInv, OneStageAhead
    <3>4. CASE ~(Committed # None /\ Committed.run = snap.run)
      <4>1. snap.done = {}
        BY <3>1, <3>4 DEF IInv, OneStageAhead
      <4>2. Journal!Open(snap.run)
        BY <3>1, <3>2, <3>4, <4>1 DEF Journal!Open
      <4> QED
        BY <3>2, <4>2 DEF Journal!Next
    <3> QED
      BY <3>3, <3>4
  <2> QED
    BY <2>2, <2>3, <2>4, CommittedStep, StepKinds DEF Write
<1> QED
  BY <1>1, <1>2, Invariance, PTL DEF Spec, JournalImplemented, Journal!Spec
=============================================================================
