-------------------------- MODULE CupPickStageProofs --------------------------
(***************************************************************************)
(* Theorems about CupPickStage, for every number of samples, retries,      *)
(* starts of the stage, keys and attempts.                                 *)
(***************************************************************************)
EXTENDS CupPickStage, TLAPS

\* The records of the fresh processes are records.
LEMMA FreshTyped == NoRun \in RunRecords /\ NoSide \in SideRecords /\ NoUp \in UpRecords
BY PickAssumption DEF PickAssumption, NoRun, NoSide, NoUp, RunRecords, RunPlaces, SideRecords, UpRecords, Labels, SidePlaces, WorkPlaces

\* The initial state satisfies the invariant.
LEMMA InitPickInv == Init => PickInv
<1> SUFFICES ASSUME Init PROVE PickInv
    OBVIOUS
<1> USE PickAssumption DEF PickAssumption, Init
<1>1. TypeOK
    BY FreshTyped DEF TypeOK
<1>2. OneChild /\ LeftKnown /\ OneThread /\ SideKnown /\ UpKnown /\ HeldCupIsKnown /\ SceneIsCleared
    BY DEF OneChild, LeftKnown, OneThread, SideKnown, UpKnown, UpEnding, HeldCupIsKnown, SceneIsCleared, NoRun, NoSide, NoUp
<1>3. CupIsWhereJournaled /\ HeldCupIsKept /\ ComesOpen
    BY DEF CupIsWhereJournaled, HeldCupIsKept, ComesOpen, NoRun, NoSide, NoUp
<1> QED
    BY <1>1, <1>2, <1>3 DEF PickInv

\* The records after the changes that the actions make to them.
LEMMA RunTyped ==
    ASSUME NEW r \in RunRecords
    PROVE  /\ \A pc \in RunPlaces : [r EXCEPT !.pc = pc] \in RunRecords
           /\ \A f \in {"none", "died", "seen"} : [r EXCEPT !.fault = f] \in RunRecords
           /\ \A pc \in RunPlaces : [NoRun EXCEPT !.pc = pc, !.decided = r.decided, !.runs = r.runs, !.keys = r.keys] \in RunRecords
           /\ run = r /\ Dies => run' \in RunRecords
           /\ r.keys < MaxKeys => /\ [r EXCEPT !.keys = @ + 1] \in RunRecords
                                  /\ [r EXCEPT !.keys = @ + 1, !.pc = "left"] \in RunRecords
<1> USE PickAssumption DEF PickAssumption, RunRecords, RunPlaces
<1>1. \A pc \in RunPlaces : [r EXCEPT !.pc = pc] \in RunRecords
    OBVIOUS
<1>4. \A f \in {"none", "died", "seen"} : [r EXCEPT !.fault = f] \in RunRecords
    OBVIOUS
<1>5. \A pc \in RunPlaces : [NoRun EXCEPT !.pc = pc, !.decided = r.decided, !.runs = r.runs, !.keys = r.keys] \in RunRecords
    BY FreshTyped
<1>6. ASSUME run = r, Dies PROVE run' \in RunRecords
  <2>1. \A f \in {"none", "died", "seen"} : [r EXCEPT !.pc = "died", !.fault = f] \in RunRecords
      OBVIOUS
  <2>2. PICK f \in {"none", "died", "seen"} : run' = [r EXCEPT !.pc = "died", !.fault = f]
    <3>1. r.fault \in {"none", "died", "seen"}
          OBVIOUS
    <3> QED
          BY <1>6, <3>1, Zenon DEF Dies
  <2> QED
      BY <2>1, <2>2, Zenon
<1>2. ASSUME r.keys < MaxKeys PROVE [r EXCEPT !.keys = @ + 1] \in RunRecords
    BY <1>2
<1>3. ASSUME r.keys < MaxKeys PROVE [r EXCEPT !.keys = @ + 1, !.pc = "left"] \in RunRecords
  <2>1. \A n \in 0 .. MaxKeys : [r EXCEPT !.keys = n, !.pc = "left"] \in RunRecords
      OBVIOUS
  <2>2. r.keys + 1 \in 0 .. MaxKeys
      BY <1>3
  <2> QED
      BY <2>1, <2>2, Zenon
<1> QED
    BY <1>1, <1>2, <1>3, <1>4, <1>5, <1>6

\* The places that the router is at.
LEMMA RunPlacesFact ==
    /\ "watch" \in RunPlaces /\ "side" \in RunPlaces /\ "up" \in RunPlaces /\ "left" \in RunPlaces
    /\ "died" \in RunPlaces /\ "done" \in RunPlaces /\ "failed" \in RunPlaces
BY DEF RunPlaces

\* The same for the side grasp node.
LEMMA SideTyped ==
    ASSUME NEW s \in SideRecords
    PROVE  /\ \A pc \in SidePlaces : [s EXCEPT !.pc = pc] \in SideRecords
           /\ [s EXCEPT !.pc = "start", !.by = "key"] \in SideRecords
           /\ [s EXCEPT !.pc = "loop", !.auto = ~ @] \in SideRecords
           /\ \A pc \in SidePlaces, b \in BOOLEAN : [s EXCEPT !.pc = pc, !.picked = b] \in SideRecords
           /\ \A pc \in SidePlaces, b \in BOOLEAN : [s EXCEPT !.seen = b, !.by = "auto", !.pc = pc] \in SideRecords
           /\ s.tries < MaxTries => [s EXCEPT !.pc = "box", !.tries = @ + 1, !.low = 0] \in SideRecords
           /\ s.low < Retries => [s EXCEPT !.low = @ + 1] \in SideRecords
<1> USE PickAssumption DEF PickAssumption, SideRecords
<1>1. \A pc \in SidePlaces : [s EXCEPT !.pc = pc] \in SideRecords
    OBVIOUS
<1>2. [s EXCEPT !.pc = "start", !.by = "key"] \in SideRecords
    BY DEF SidePlaces
<1>3. [s EXCEPT !.pc = "loop", !.auto = ~ @] \in SideRecords
    BY DEF SidePlaces
<1>4. \A pc \in SidePlaces, b \in BOOLEAN : [s EXCEPT !.pc = pc, !.picked = b] \in SideRecords
    OBVIOUS
<1>5. \A pc \in SidePlaces, b \in BOOLEAN : [s EXCEPT !.seen = b, !.by = "auto", !.pc = pc] \in SideRecords
  <2> SUFFICES ASSUME NEW pc \in SidePlaces, NEW b \in BOOLEAN
               PROVE  [s EXCEPT !.seen = b, !.by = "auto", !.pc = pc] \in SideRecords
      OBVIOUS
  <2>1. [s EXCEPT !.seen = b] \in SideRecords
      OBVIOUS
  <2>2. [[s EXCEPT !.seen = b] EXCEPT !.by = "auto", !.pc = pc] \in SideRecords
      BY <2>1
  <2> QED
      BY <2>2
<1>6. ASSUME s.tries < MaxTries PROVE [s EXCEPT !.pc = "box", !.tries = @ + 1, !.low = 0] \in SideRecords
  <2>0. "box" \in SidePlaces /\ 0 \in 0 .. Retries
      BY DEF SidePlaces, Attempt
  <2>1. \A n \in 0 .. MaxTries : [s EXCEPT !.pc = "box", !.tries = n, !.low = 0] \in SideRecords
      BY <2>0
  <2>2. s.tries + 1 \in 0 .. MaxTries
      BY <1>6
  <2> QED
      BY <2>1, <2>2, Zenon
<1>7. s.low < Retries => [s EXCEPT !.low = @ + 1] \in SideRecords
    OBVIOUS
<1> QED
    BY <1>1, <1>2, <1>3, <1>4, <1>5, <1>6, <1>7

\* The same for the uprighting node.
LEMMA UpTyped ==
    ASSUME NEW u \in UpRecords
    PROVE  /\ \A w \in WorkPlaces : [u EXCEPT !.work = w] \in UpRecords
           /\ \A m \in {"off", "init", "head", "live"} : [u EXCEPT !.main = m] \in UpRecords
           /\ [u EXCEPT !.main = "head", !.auto = ~ @] \in UpRecords
           /\ u.tries < MaxTries => [u EXCEPT !.main = "head", !.work = "above", !.frozen = TRUE, !.tries = @ + 1] \in UpRecords
           /\ [u EXCEPT !.work = "none", !.frozen = FALSE, !.closing = @ \/ u.work = "won"] \in UpRecords
           /\ [u EXCEPT !.ok = FALSE, !.closing = FALSE] \in UpRecords
<1> USE PickAssumption DEF PickAssumption, UpRecords
<1>1. \A w \in WorkPlaces : [u EXCEPT !.work = w] \in UpRecords
    OBVIOUS
<1>2. \A m \in {"off", "init", "head", "live"} : [u EXCEPT !.main = m] \in UpRecords
    OBVIOUS
<1>3. [u EXCEPT !.main = "head", !.auto = ~ @] \in UpRecords
    OBVIOUS
<1>4. ASSUME u.tries < MaxTries
      PROVE  [u EXCEPT !.main = "head", !.work = "above", !.frozen = TRUE, !.tries = @ + 1] \in UpRecords
  <2>1. \A n \in 0 .. MaxTries : [u EXCEPT !.main = "head", !.work = "above", !.frozen = TRUE, !.tries = n] \in UpRecords
      BY DEF WorkPlaces, UpMoves
  <2>2. u.tries + 1 \in 0 .. MaxTries
      BY <1>4
  <2> QED
      BY <2>1, <2>2, Zenon
<1>5. [u EXCEPT !.work = "none", !.frozen = FALSE, !.closing = @ \/ u.work = "won"] \in UpRecords
  <2>1. \A b \in BOOLEAN : [u EXCEPT !.work = "none", !.frozen = FALSE, !.closing = b] \in UpRecords
      BY DEF WorkPlaces
  <2>2. (u.closing \/ u.work = "won") \in BOOLEAN
      BY Zenon
  <2> QED
      BY <2>1, <2>2, Zenon
<1>6. [u EXCEPT !.ok = FALSE, !.closing = FALSE] \in UpRecords
    OBVIOUS
<1> QED
    BY <1>1, <1>2, <1>3, <1>4, <1>5, <1>6

\* A record that is moved to another place is a record.
LEMMA ToTyped ==
    ASSUME side \in SideRecords, NEW pc \in SidePlaces, To(pc)
    PROVE  side' \in SideRecords
BY SideTyped, Zenon DEF To

\* The same for any record, and for the two moves of places.
LEMMA SidePlaced ==
    ASSUME NEW s \in SideRecords, NEW pc \in SidePlaces
    PROVE  [s EXCEPT !.pc = pc] \in SideRecords
BY SideTyped, Zenon

\* The places that the actions name.
LEMMA SidePlacesFact ==
    /\ "loop" \in SidePlaces /\ "key" \in SidePlaces /\ "start" \in SidePlaces /\ "home" \in SidePlaces
    /\ "clear" \in SidePlaces /\ "stage" \in SidePlaces /\ "lower" \in SidePlaces /\ "unbox" \in SidePlaces
    /\ "approach" \in SidePlaces /\ "idle" \in SidePlaces /\ "close" \in SidePlaces /\ "fail" \in SidePlaces /\ "check" \in SidePlaces
BY DEF SidePlaces, Attempt

\* The same for the pick thread.
LEMMA WorkPlacesFact ==
    "none" \in WorkPlaces /\ "lift" \in WorkPlaces /\ "release" \in WorkPlaces /\ "lost" \in WorkPlaces
BY DEF WorkPlaces, UpMoves

\* Type correctness is kept by every step.
LEMMA NextTypeOK == TypeOK /\ [Next]_vars => TypeOK'
<1> SUFFICES ASSUME TypeOK, [Next]_vars PROVE TypeOK'
    OBVIOUS
<1> USE DEF TypeOK, world
<1>1. CASE Hear
  <2>1. run' \in RunRecords
      BY <1>1 DEF Hear, RunRecords, Labels
  <2> QED
      BY <1>1, <2>1, Zenon DEF Hear
<1>2. CASE Count
  <2>1. run' \in RunRecords
    <3>1. \A n \in 0 .. Required, l \in Labels, d \in Labels \cup {"none"} :
                [run EXCEPT !.label = l, !.count = n, !.decided = d] \in RunRecords
          BY DEF RunRecords
    <3>2. run.latest \in Labels /\ run.decided \in Labels \cup {"none"} /\ run.count \in 0 .. Required
          BY <1>2 DEF Count, RunRecords
    <3>3. (IF run.label # run.latest THEN 1 ELSE IF run.count < Required THEN run.count + 1 ELSE Required) \in 0 .. Required
          BY <3>2, PickAssumption DEF PickAssumption
    <3> DEFINE n == IF run.label # run.latest THEN 1 ELSE IF run.count < Required THEN run.count + 1 ELSE Required
    <3>4. PICK d \in Labels \cup {"none"} : run' = [run EXCEPT !.label = run.latest, !.count = n, !.decided = d]
          BY <1>2, <3>2, Zenon DEF Count
    <3>5. n \in 0 .. Required
          BY <3>3
    <3> HIDE DEF n
    <3> QED
          BY <3>1, <3>2, <3>4, <3>5, Zenon
  <2> QED
      BY <1>2, <2>1, Zenon DEF Count
<1>3. CASE EndWatch
  <2>0. PICK pc \in {"failed", "side", "up"} :
            run' = [NoRun EXCEPT !.pc = pc, !.decided = run.decided, !.runs = run.runs, !.keys = run.keys]
      BY <1>3, Zenon DEF EndWatch
  <2>1. run' \in RunRecords
      BY <2>0, RunTyped, RunPlacesFact, Zenon
  <2>2. side' \in SideRecords
    <3>1. side' = side \/ side' = [NoSide EXCEPT !.pc = "loop"]
          BY <1>3, Zenon DEF EndWatch
    <3> QED
      <4>1. [NoSide EXCEPT !.pc = "loop"] \in SideRecords
          BY FreshTyped, SidePlaced, SidePlacesFact, Zenon
      <4>2. side \in SideRecords
          BY Zenon
      <4> QED
          BY <3>1, <4>1, <4>2
  <2>3. up' \in UpRecords
      BY <1>3, FreshTyped, UpTyped, Zenon DEF EndWatch
  <2> QED
      BY <1>3, <2>1, <2>2, <2>3, Zenon DEF EndWatch
<1>4. CASE Resume
  <2>1. run' \in RunRecords
    <3>1. run.runs + 1 \in 1 .. MaxRuns /\ run.keys \in 0 .. MaxKeys
          BY <1>4, PickAssumption DEF Resume, RunRecords, PickAssumption
    <3>2. \A n \in 1 .. MaxRuns, k \in 0 .. MaxKeys : [NoRun EXCEPT !.runs = n, !.keys = k] \in RunRecords
          BY FreshTyped DEF RunRecords
    <3> QED
          BY <1>4, <3>1, <3>2, Zenon DEF Resume
  <2> QED
      BY <1>4, <2>1, Zenon DEF Resume
<1>5. CASE ArmStops
    BY <1>5, Zenon DEF ArmStops
<1>26. CASE OtherDies \/ Report
  <2>1. run' \in RunRecords
      BY <1>26, RunTyped, Zenon DEF OtherDies, Report
  <2> QED
      BY <1>26, <2>1, Zenon DEF OtherDies, Report
<1>27. CASE Reap
  <2>0. PICK pc \in {"done", "failed"} : run' = [run EXCEPT !.pc = pc]
      BY <1>27, Zenon DEF Reap
  <2>1. run' \in RunRecords
      BY <2>0, RunTyped, RunPlacesFact, Zenon
  <2> QED
      BY <1>27, <2>1, Zenon DEF Reap
<1>6. CASE Loop
  <2>1. run' \in RunRecords
      BY <1>6, RunTyped, RunPlacesFact, Zenon DEF Loop, Exits
  <2>2. side' \in SideRecords
    <3>1. CASE side.picked
          BY <1>6, <3>1, FreshTyped, Zenon DEF Loop
    <3>2. CASE ~ side.picked
        <4>1. PICK seen \in BOOLEAN, pc \in {"start", "key"} : side' = [side EXCEPT !.seen = seen, !.by = "auto", !.pc = pc]
            BY <1>6, <3>2, Zenon DEF Loop
        <4> QED
            BY <4>1, SideTyped, SidePlacesFact, Zenon
    <3> QED
          BY <3>1, <3>2
  <2> QED
      BY <1>6, <2>1, <2>2, Zenon DEF Loop
<1>7. CASE Key
  <2>1. run' \in RunRecords
      BY <1>7, RunTyped, Zenon DEF Key, Pressed
  <2>2. side' \in SideRecords
    <3>1. CASE To("loop")
          BY <3>1, ToTyped, SidePlacesFact, Zenon
    <3>2. CASE side' = NoSide
          BY <3>2, FreshTyped, Zenon
    <3>3. CASE side' = [side EXCEPT !.pc = "start", !.by = "key"] \/ side' = [side EXCEPT !.pc = "loop", !.auto = ~ @]
          BY <3>3, SideTyped, Zenon
    <3>4. CASE side' = [side EXCEPT !.pc = "loop", !.picked = FALSE]
          BY <3>4, SideTyped, SidePlacesFact, Zenon
    <3> QED
          BY <1>7, <3>1, <3>2, <3>3, <3>4, Zenon DEF Key
  <2> QED
      BY <1>7, <2>1, <2>2, Zenon DEF Key
<1>8. CASE Start
  <2>1. side' \in SideRecords
    <3>1. Back \in SidePlaces
          BY SidePlacesFact, Zenon DEF Back
    <3>2. CASE To(Back)
          BY <3>1, <3>2, ToTyped
    <3>3. CASE side.tries < MaxTries /\ side' = [side EXCEPT !.pc = "box", !.tries = @ + 1, !.low = 0]
          BY <3>3, SideTyped, Zenon
    <3> QED
          BY <1>8, <3>2, <3>3, Zenon DEF Start
  <2> QED
      BY <1>8, <2>1, Zenon DEF Start
<1>9. CASE AddBox \/ SideGoes
  <2>1. side' \in SideRecords
      BY <1>9, ToTyped, SidePlacesFact, Zenon DEF AddBox, SideGoes
  <2> QED
      BY <1>9, <2>1, Zenon DEF AddBox, SideGoes
<1>10. CASE SideArrives
  <2>1. Target[side.pc] \in {"view", "away", "stage", "low", "grasp"} /\ After[side.pc] \in SidePlaces
      BY <1>10 DEF SideArrives, SideMoves, Target, After, SidePlaces, Attempt
  <2>2. side' \in SideRecords
      BY <1>10, <2>1, SideTyped, Zenon DEF SideArrives, To
  <2> QED
      BY <1>10, <2>1, <2>2, Zenon DEF SideArrives
<1>11. CASE SideFails
  <2>1. side' \in SideRecords
    <3>1. CASE To("fail")
          BY <3>1, ToTyped, SidePlacesFact
    <3>2. CASE side.low < Retries /\ side' = [side EXCEPT !.low = @ + 1]
          BY <3>2, SideTyped, Zenon
    <3> QED
          BY <1>11, <3>1, <3>2, Zenon DEF SideFails
  <2> QED
      BY <1>11, <2>1, Zenon DEF SideFails
<1>12. CASE Check \/ OpenAtStage \/ Unbox \/ Idle
  <2>1. side' \in SideRecords
      BY <1>12, ToTyped, SidePlacesFact, Zenon DEF Check, OpenAtStage, Unbox, Idle
  <2> QED
      BY <1>12, <2>1, Zenon DEF Check, OpenAtStage, Unbox, Idle, Opens
<1>13. CASE Close
  <2>1. side' \in SideRecords
      BY <1>13, SideTyped, SidePlacesFact, Zenon DEF Close, Back
  <2> QED
      BY <1>13, <2>1, Zenon DEF Close, Closes
<1>14. CASE Fail \/ HomeEnds
  <2>1. side' \in SideRecords
      BY <1>14, ToTyped, SidePlacesFact, Zenon DEF Fail, HomeEnds, Back
  <2> QED
      BY <1>14, <2>1, Zenon DEF Fail, HomeEnds
<1>15. CASE SideDies
  <2>1. run' \in RunRecords
      BY <1>15, RunTyped, Zenon DEF SideDies, Dies
  <2>2. side' \in SideRecords
      BY <1>15, FreshTyped, Zenon DEF SideDies
  <2> QED
      BY <1>15, <2>1, <2>2, Zenon DEF SideDies, Left, ClosesUnnoticed
<1>16. CASE InitializeHome /\ UNCHANGED side
  <2>1. up' \in UpRecords
      BY <1>16, UpTyped, Zenon DEF InitializeHome
  <2> QED
      BY <1>16, <2>1, Zenon DEF InitializeHome, Opens
<1>17. CASE Head
  <2>1. run' \in RunRecords
    <3>1. CASE Exits("left")
          BY <3>1, RunTyped, RunPlacesFact, Zenon DEF Exits
    <3>2. CASE run' = run \/ (run.keys < MaxKeys /\ run' = [run EXCEPT !.keys = @ + 1, !.pc = "left"])
          BY <3>2, RunTyped, Zenon
    <3> QED
          BY <1>17, <3>1, <3>2, Zenon DEF Head, Leave
  <2>2. up' \in UpRecords
      BY <1>17, FreshTyped, UpTyped, Zenon DEF Head, Leave
  <2> QED
      BY <1>17, <2>1, <2>2, Zenon DEF Head, Left
<1>18. CASE Live
  <2>1. run' \in RunRecords
      BY <1>18, RunTyped, Zenon DEF Live, Pressed
  <2>2. up' \in UpRecords
      BY <1>18, FreshTyped, UpTyped, Zenon DEF Live, PickInThread
  <2> QED
      BY <1>18, <2>1, <2>2, Zenon DEF Live, Late, Left
<1>19. CASE UpGoes
    BY <1>19, Zenon DEF UpGoes
<1>20. CASE UpArrives
  <2>1. UpTarget[up.work] \in {"stage", "grasp", "view"} /\ UpAfter[up.work] \in WorkPlaces
      BY <1>20 DEF UpArrives, UpMoves, UpTarget, UpAfter, WorkPlaces
  <2>2. up' \in UpRecords
      BY <1>20, <2>1, UpTyped, Zenon DEF UpArrives, Works
  <2> QED
      BY <1>20, <2>1, <2>2, Zenon DEF UpArrives
<1>21. CASE UpFails
  <2>1. up' \in UpRecords
      BY <1>21, UpTyped, WorkPlacesFact, Zenon DEF UpFails, Works
  <2> QED
      BY <1>21, <2>1, Zenon DEF UpFails, Left
<1>22. CASE UpCloses \/ EmergencyRelease
  <2>1. PICK w \in {"lift", "lost"} : Works(w)
      BY <1>22, Zenon DEF UpCloses, EmergencyRelease
  <2>2. w \in WorkPlaces
      BY DEF WorkPlaces, UpMoves
  <2>3. up' \in UpRecords
      BY <2>1, <2>2, UpTyped, Zenon DEF Works
  <2> QED
      BY <1>22, <2>3, Zenon DEF UpCloses, EmergencyRelease, Closes, Opens
<1>28. CASE UpRaises
  <2>1. up' \in UpRecords
      BY <1>28, UpTyped, WorkPlacesFact, Zenon DEF UpRaises, Works
  <2> QED
      BY <1>28, <2>1, Zenon DEF UpRaises, Left, ClosesUnnoticed
<1>23. CASE WorkEnds \/ Shutdown
  <2>1. up' \in UpRecords
      BY <1>23, UpTyped, Zenon DEF WorkEnds, Shutdown
  <2> QED
      BY <1>23, <2>1, Zenon DEF WorkEnds, Shutdown
<1>24. CASE UpDies
  <2>1. run' \in RunRecords
      BY <1>24, RunTyped, Zenon DEF UpDies, Dies
  <2>2. up' \in UpRecords
      BY <1>24, FreshTyped, Zenon DEF UpDies
  <2> QED
      BY <1>24, <2>1, <2>2, Zenon DEF UpDies, Left
<1>25. CASE UNCHANGED vars
    BY <1>25, Zenon DEF vars
<1> QED
    BY <1>1, <1>2, <1>3, <1>4, <1>5, <1>6, <1>7, <1>8, <1>9, <1>10, <1>11, <1>12, <1>13, <1>14, <1>15,
       <1>16, <1>17, <1>18, <1>19, <1>20, <1>21, <1>22, <1>23, <1>24, <1>25, <1>26, <1>27, <1>28, Zenon DEF Next, Router, SideStep, UpStep

\* The invariant but for types and open fingers.
Known ==
    /\ OneChild /\ LeftKnown /\ OneThread /\ SideKnown /\ UpKnown /\ HeldCupIsKnown /\ SceneIsCleared
    /\ CupIsWhereJournaled /\ HeldCupIsKept

\* What is known of children, arm, hand and cup stays so in every step.
LEMMA NextKnown == PickInv /\ [Next]_vars => Known'
<1> SUFFICES ASSUME PickInv, [Next]_vars PROVE Known'
    OBVIOUS
<1> USE DEF PickInv, Known, TypeOK, world, RunRecords, RunPlaces, SideRecords, UpRecords, SidePlaces, WorkPlaces, Attempt, UpMoves,
            NoSide, NoUp, NoRun, Labels,
            OneChild, LeftKnown, OneThread, SideKnown, UpKnown, UpEnding, HeldCupIsKnown, SceneIsCleared, CupIsWhereJournaled, HeldCupIsKept
<1>1. CASE Hear
    BY <1>1, SMTT(20) DEF Hear
<1>2. CASE Count
    BY <1>2, SMTT(20) DEF Count
<1>3. CASE EndWatch
  <2>0. run.pc = "watch" /\ UNCHANGED world
      BY <1>3, Zenon DEF EndWatch
  <2> DEFINE Ends(pc) == run' = [NoRun EXCEPT !.pc = pc, !.decided = run.decided, !.runs = run.runs, !.keys = run.keys]
  <2>1. CASE Ends("failed") /\ UNCHANGED <<side, up>>
      BY <2>0, <2>1
  <2>2. CASE run.decided = "upright" /\ Ends("side") /\ side' = [NoSide EXCEPT !.pc = "loop"] /\ UNCHANGED up
      BY <2>0, <2>2
  <2>3. CASE run.decided = "lying" /\ Ends("up") /\ up' = [NoUp EXCEPT !.main = "init"] /\ UNCHANGED side
      BY <2>0, <2>3
  <2> QED
      BY <1>3, <2>1, <2>2, <2>3, Zenon DEF EndWatch
<1>4. CASE Resume
    BY <1>4, SMTT(20) DEF Resume
<1>5. CASE ArmStops
    BY <1>5, SMTT(20) DEF ArmStops
<1>6. CASE Loop
  <2>1. CASE side.picked
      BY <1>6, <2>1 DEF Loop, SideAt, Exits
  <2>2. CASE ~ side.picked
    <3>1. PICK seen \in BOOLEAN, pc \in {"start", "key"} :
              /\ run' = run /\ run.pc = "side" /\ side.pc = "loop" /\ UNCHANGED <<up, world>>
              /\ side' = [side EXCEPT !.seen = seen, !.by = "auto", !.pc = pc]
        BY <1>6, <2>2, Zenon DEF Loop, SideAt
    <3>2. /\ side.pc = "loop" /\ side'.pc \in {"start", "key"} /\ ~ side'.picked
          /\ run' = run /\ run.pc = "side" /\ UNCHANGED <<up, world>>
        BY <2>2, <3>1
    <3> QED
        BY <2>2, <3>2
  <2> QED
      BY <2>1, <2>2
<1>7. CASE Key
  <2>0. run.pc = "side" /\ side.pc = "key" /\ UNCHANGED <<up, arm, hand, cup, scene>>
      BY <1>7, Zenon DEF Key, SideAt
  <2>1. CASE To("loop") /\ UNCHANGED <<run, astray>>
      BY <2>0, <2>1 DEF To
  <2>2. CASE side' = NoSide /\ run' = [run EXCEPT !.keys = @ + 1, !.pc = "left"] /\ astray' = astray \cup {"esc"}
      BY <2>0, <2>2
  <2>3. CASE /\ run' = [run EXCEPT !.keys = @ + 1] /\ side' = [side EXCEPT !.pc = "start", !.by = "key"]
             /\ astray' = IF side.picked THEN astray \cup {"key"} ELSE astray
      BY <2>0, <2>3
  <2>4. CASE run' = [run EXCEPT !.keys = @ + 1] /\ side' = [side EXCEPT !.pc = "loop", !.auto = ~ @] /\ UNCHANGED astray
      BY <2>0, <2>4
  <2>5. CASE /\ run' = [run EXCEPT !.keys = @ + 1] /\ side' = [side EXCEPT !.pc = "loop", !.picked = FALSE]
             /\ astray' = IF side.picked THEN astray \cup {"key"} ELSE astray
      BY <2>0, <2>5
  <2> QED
      BY <1>7, <2>1, <2>2, <2>3, <2>4, <2>5, Zenon DEF Key, Pressed
<1>8. CASE Start
  <2>0. run.pc = "side" /\ side.pc = "start" /\ UNCHANGED <<run, up, world>>
      BY <1>8, Zenon DEF Start, SideAt
  <2>1. CASE To(Back)
      BY <2>0, <2>1 DEF To, Back
  <2>2. CASE side' = [side EXCEPT !.pc = "box", !.tries = @ + 1, !.low = 0]
      BY <2>0, <2>2
  <2> QED
      BY <1>8, <2>1, <2>2, Zenon DEF Start
<1>9. CASE AddBox
    BY <1>9, SMTT(20) DEF AddBox, SideAt, To
<1>10. CASE SideGoes
    BY <1>10, SMTT(20) DEF SideGoes, SideMoves
<1>11. CASE SideArrives
    BY <1>11, SMTT(20) DEF SideArrives, SideMoves, To, Target, After
<1>12. CASE SideFails
    BY <1>12, SMTT(20) DEF SideFails, SideMoves, To
<1>13. CASE Check
    BY <1>13, SMTT(20) DEF Check, SideAt, To
<1>14. CASE OpenAtStage
    BY <1>14, SMTT(20) DEF OpenAtStage, Opens, SideAt, To
<1>15. CASE Unbox
    BY <1>15, SMTT(20) DEF Unbox, SideAt, To
<1>16. CASE Idle
    BY <1>16, SMTT(20) DEF Idle, SideAt, To
<1>17. CASE Close
    BY <1>17, SMTT(20) DEF Close, Closes, Back, SideAt
<1>18. CASE Fail
    BY <1>18, SMTT(20) DEF Fail, SideAt, To
<1>19. CASE HomeEnds
    BY <1>19, SMTT(20) DEF HomeEnds, SideAt, To, Back
<1>20. CASE SideDies
    BY <1>20, SMTT(20) DEF SideDies, Dies, Left, ClosesUnnoticed
<1>21. CASE InitializeHome /\ UNCHANGED side
    BY <1>21, SMTT(20) DEF InitializeHome, MainAt, Opens
<1>22. CASE Head
  <2>0. /\ run.pc = "up" /\ up.main = "head" /\ UNCHANGED <<side, hand, cup, scene>>
        /\ arm' = IF up'.main = "off" THEN (IF arm = "moving" THEN "adrift" ELSE arm) ELSE arm
      BY <1>22, Zenon DEF Head, MainAt, Left
  <2>1. CASE ~ up.ok /\ Leave /\ UNCHANGED astray
      BY <2>0, <2>1 DEF Leave, Exits
  <2>2. CASE UNCHANGED <<run, up, astray>>
      BY <2>0, <2>2
  <2>3. CASE up' = NoUp /\ run' = [run EXCEPT !.keys = @ + 1, !.pc = "left"] /\ astray' = astray \cup {"esc"}
      BY <2>0, <2>3
  <2>4. CASE up.ok /\ ~ up.frozen /\ up' = [up EXCEPT !.main = "live"] /\ UNCHANGED <<run, astray>>
      BY <2>0, <2>4
  <2> QED
      BY <1>22, <2>1, <2>2, <2>3, <2>4, Zenon DEF Head
<1>23. CASE Live
  <2>0. /\ run.pc = "up" /\ up.main = "live" /\ UNCHANGED <<side, hand, cup, scene>>
        /\ arm' = IF up'.main = "off" THEN (IF arm = "moving" THEN "adrift" ELSE arm) ELSE arm
      BY <1>23, Zenon DEF Live, MainAt, Left
  <2>1. CASE PickInThread /\ astray' = astray \cup Late /\ (UNCHANGED run \/ run' = [run EXCEPT !.keys = @ + 1])
    <3>1. /\ up'.main = "head" /\ up'.work = "above" /\ up'.frozen /\ (up'.closing <=> up.closing) /\ (up'.ok <=> up.ok)
          /\ run'.pc = run.pc /\ run'.decided = run.decided
        BY <2>1 DEF PickInThread
    <3>2. UpEnding => "late" \in astray'
        BY <2>1 DEF Late
    <3> QED
        BY <2>0, <2>1, <3>1, <3>2
  <2>2. CASE up' = [up EXCEPT !.main = "head"] /\ UNCHANGED <<run, astray>>
      BY <2>0, <2>2
  <2>3. CASE run' = [run EXCEPT !.keys = @ + 1] /\ up' = [up EXCEPT !.main = "head", !.auto = ~ @] /\ UNCHANGED astray
      BY <2>0, <2>3
  <2>4. CASE up' = NoUp /\ run' = [run EXCEPT !.keys = @ + 1, !.pc = "left"] /\ astray' = astray \cup {"esc"}
      BY <2>0, <2>4
  <2> QED
      BY <1>23, <2>1, <2>2, <2>3, <2>4, Zenon DEF Live, Pressed
<1>24. CASE UpGoes
    BY <1>24, SMTT(20) DEF UpGoes, UpMoves
<1>25. CASE UpArrives
    BY <1>25, SMTT(20) DEF UpArrives, UpMoves, UpTarget, UpAfter, Works
<1>26. CASE UpFails
    BY <1>26, SMTT(20) DEF UpFails, UpMoves, Works, Left
<1>27. CASE UpCloses
    BY <1>27, SMTT(20) DEF UpCloses, Closes, Working, Works
<1>28. CASE EmergencyRelease
    BY <1>28, SMTT(20) DEF EmergencyRelease, Opens, Working, Works
<1>29. CASE WorkEnds
    BY <1>29, SMTT(20) DEF WorkEnds
<1>30. CASE Shutdown
    BY <1>30, SMTT(20) DEF Shutdown
<1>31. CASE UpDies
    BY <1>31, SMTT(20) DEF UpDies, Dies, Left
<1>33. CASE OtherDies
    BY <1>33, SMTT(20) DEF OtherDies
<1>34. CASE Report
    BY <1>34, SMTT(20) DEF Report
<1>35. CASE Reap
    BY <1>35, SMTT(20) DEF Reap
<1>36. CASE UpRaises
    BY <1>36, SMTT(20) DEF UpRaises, ClosesUnnoticed, UpMoves, Works, Left
<1>32. CASE UNCHANGED vars
    BY <1>32, SMTT(20) DEF vars
<1> QED
    BY <1>1, <1>2, <1>3, <1>4, <1>5, <1>6, <1>7, <1>8, <1>9, <1>10, <1>11, <1>12, <1>13, <1>14, <1>15, <1>16, <1>17, <1>18, <1>19, <1>20, <1>21, <1>22, <1>23, <1>24, <1>25, <1>26, <1>27, <1>28, <1>29, <1>30, <1>31, <1>32, <1>33, <1>34, <1>35, <1>36 DEF Next, Router, SideStep, UpStep

\* Open fingers follow: a pick thread that comes down is the only one and no success came before it.
LEMMA KnownComesOpen == Known => ComesOpen
BY Zenon DEF Known, OneThread, OneChild, SideKnown, UpKnown, ComesOpen

\* The invariant holds in every reachable state.
THEOREM PickInvariance == Spec => []PickInv
<1>1. PickInv /\ [Next]_vars => PickInv'
  <2> SUFFICES ASSUME PickInv, [Next]_vars PROVE PickInv'
      OBVIOUS
  <2>1. TypeOK'
      BY NextTypeOK DEF PickInv
  <2>2. Known'
      BY NextKnown
  <2>3. ComesOpen'
      BY <2>2, KnownComesOpen, PTL
  <2> QED
      BY <2>1, <2>2, <2>3 DEF PickInv, Known
<1> QED
    BY InitPickInv, <1>1, PTL DEF Spec

\* Every variable has its type: no counter of samples, retries, starts, keys or attempts passes its limit.
THEOREM PickTypeCorrect == Spec => []TypeOK
BY PickInvariance, PTL DEF PickInv

\* A cup_pick that is journaled as done has the cup in the gripper, where its route ends.
THEOREM JournalHasCup == Spec => []CupIsWhereJournaled
BY PickInvariance, PTL DEF PickInv

\* A cup that was picked up is dropped only by a failed lift, a late key or a resume.
THEOREM CupIsKept == Spec => []HeldCupIsKept
BY PickInvariance, PTL DEF PickInv

\* Fingers that come down were told to open since they closed, in every attempt of both nodes.
THEOREM FingersComeOpen == Spec => []ComesOpen
BY PickInvariance, PTL DEF PickInv

\* The cup's box is in the planning scene only during an attempt.
THEOREM BoxIsCleared == Spec => []SceneIsCleared
BY PickInvariance, PTL DEF PickInv
=============================================================================
