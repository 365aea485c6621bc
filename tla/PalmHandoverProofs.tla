-------------------------- MODULE PalmHandoverProofs --------------------------
(***************************************************************************)
(* Theorems about PalmHandover: its release and its watcher, for every set *)
(* of options and every size of windows, counts and searches.              *)
(***************************************************************************)
EXTENDS PalmHandover, SequenceTheorems, TLAPS

\* The options, with their types.
LEMMA OptionsFact ==
    /\ \A c \in Configs : c.contact \in BOOLEAN /\ c.floor \in Nat /\ c.steps \in Nat
    /\ Confirms \in Nat \ {0} /\ MaxForce \in Nat
BY HandoverAssumption DEF HandoverAssumption

\* The search ends at a number of steps.
LEMMA LowestFact == cfg \in Configs => Lowest \in Nat
BY OptionsFact DEF Lowest

\* What a script's step makes of the stage's record.
LEMMA GoesFact ==
    ASSUME stage \in StageRecords, NEW pc \in StagePlaces, Goes(pc)
    PROVE  stage' \in StageRecords /\ stage'.pc = pc /\ stage'.rc = stage.rc
BY DEF Goes, StageRecords

\* The same for its end.
LEMMA EndsFact ==
    ASSUME stage \in StageRecords, NEW rc \in {0, 1, 3}, Ends(rc)
    PROVE  stage' \in StageRecords /\ stage'.pc = "over" /\ stage'.rc = rc
BY DEF Ends, StageRecords, StagePlaces

\* The search begins with a record of no readings.
LEMMA NoReadingTyped == NoReading \in ForceRecords
BY OptionsFact DEF NoReading, ForceRecords, Levels

\* The initial states satisfy the invariant.
LEMMA InitHandInv == Init => HandInv
<1> SUFFICES ASSUME Init PROVE HandInv
    OBVIOUS
<1>1. ScriptOK
    BY OptionsFact DEF Init, ScriptOK, NoReading, Levels, StageRecords, StagePlaces, ForceRecords
<1>2. ArmIsAbove
    BY LowestFact DEF Init, ArmIsAbove
<1> QED
    BY <1>1, <1>2 DEF Init, HandInv, LetGo, ReleaseIsEarned, HumanHasCup, At

\* A step that leaves the world alone, and whose stage is neither on its way to the release nor over
\* with 0, keeps the invariant if it leaves the journal or forgets where the cup is.
LEMMA QuietStep ==
    ASSUME HandInv, ScriptOK', UNCHANGED <<cfg, world>>,
           stage' = stage \/ stage'.pc \notin {"open", "away", "over"} \/ (stage'.pc = "over" /\ stage'.rc # 0),
           journal'.cup = "human" => journal.cup = "human",
           journal'.done => journal.done
    PROVE  HandInv'
BY DEF HandInv, ArmIsAbove, Lowest, LetGo, ReleaseIsEarned, HumanHasCup, At, world

\* A failure that ends the script keeps the invariant, whatever was read and wherever the arm is.
LEMMA Ended ==
    ASSUME HandInv, Ends(1), UNCHANGED <<cfg, arm, hand, cup, journal>>, force' \in ForceRecords \/ force' = force
    PROVE  HandInv'
<1>1. stage' \in StageRecords /\ stage'.pc = "over" /\ stage'.rc = 1
    BY EndsFact, Zenon DEF HandInv, ScriptOK
<1> QED
    BY <1>1 DEF HandInv, ScriptOK, ArmIsAbove, Lowest, LetGo, ReleaseIsEarned, HumanHasCup, At

\* The invariant is kept by every step.
LEMMA NextHandInv == HandInv /\ [Next]_vars => HandInv'
<1> SUFFICES ASSUME HandInv, [Next]_vars PROVE HandInv'
    OBVIOUS
<1> USE OptionsFact
<1>0. ScriptOK
    BY DEF HandInv
<1>1. CASE Begin
  <2>1. ScriptOK'
      BY <1>0, <1>1 DEF Begin, ScriptOK, StageRecords, StagePlaces, world
  <2> QED
      BY <1>0, <1>1, <2>1, QuietStep DEF Begin
<1>2. CASE StartSupport
  <2>1. UNCHANGED <<cfg, world, journal>> /\ (Goes("detector") \/ Goes("listen") \/ Ends(1))
      BY <1>2, Zenon DEF StartSupport, Support
  <2>2. {"detector", "listen"} \subseteq StagePlaces
      BY DEF StagePlaces
  <2>3. stage' \in StageRecords /\ (stage'.pc \in {"detector", "listen"} \/ (stage'.pc = "over" /\ stage'.rc = 1))
      BY <1>0, <2>1, <2>2, GoesFact, EndsFact, Zenon DEF ScriptOK
  <2>4. ScriptOK'
      BY <1>0, <2>1, <2>3 DEF ScriptOK, world
  <2> QED
      BY <2>1, <2>3, <2>4, QuietStep
<1>3. CASE Listen
  <2>1. ScriptOK' /\ stage'.pc = "watch" /\ journal'.cup = "gripper" /\ journal'.done = journal.done
      BY <1>0, <1>3 DEF Listen, Goes, ScriptOK, StageRecords, StagePlaces, world
  <2> QED
      BY <1>3, <2>1, QuietStep DEF Listen
<1>4. CASE Finish
  <2>1. ScriptOK' /\ stage'.pc = "idle"
      BY <1>0, <1>4 DEF Finish, Goes, ScriptOK, StageRecords, StagePlaces, world
  <2>2. CASE stage.rc = 0
      BY <1>4, <2>1, <2>2 DEF Finish, HandInv, ArmIsAbove, Lowest, LetGo, ReleaseIsEarned, HumanHasCup, At, world
  <2>3. CASE stage.rc # 0
      BY <1>4, <2>1, <2>3, QuietStep DEF Finish
  <2> QED
      BY <2>2, <2>3
<1>5. CASE Frame \/ Dies
  <2>1. ScriptOK'
      BY <1>0, <1>5 DEF Frame, Dies, ScriptOK, world
  <2> QED
      BY <1>5, <2>1, QuietStep DEF Frame, Dies
<1>6. CASE Watch
  <2>1. /\ UNCHANGED <<cfg, world, journal>>
        /\ stage' = stage \/ Goes("pose") \/ Ends(3)
      BY <1>6, Zenon DEF Watch, HearStatus, HearPoint, Tick, Turn
  <2>2. ScriptOK' /\ (stage' = stage \/ stage'.pc = "pose" \/ (stage'.pc = "over" /\ stage'.rc = 3))
      BY <1>0, <2>1 DEF Goes, Ends, ScriptOK, StageRecords, StagePlaces, Scripts, world
  <2> QED
      BY <2>1, <2>2, QuietStep
<1>7. CASE Approach
  <2>1. /\ arm' = 0 /\ force' = NoReading /\ Still /\ UNCHANGED <<hand, cup, journal>>
        /\ \/ Goes("recheck") \/ Goes("baseline") \/ Ends(1)
      BY <1>7, Zenon DEF Approach
  <2>2. stage' \in StageRecords /\ (stage'.pc \in {"recheck", "baseline"} \/ (stage'.pc = "over" /\ stage'.rc = 1))
      BY <1>0, <2>1, GoesFact, EndsFact, Zenon DEF ScriptOK, StagePlaces, Scripts
  <2>3. ScriptOK'
      BY <1>0, <2>1, <2>2, NoReadingTyped DEF ScriptOK, Still
  <2> QED
      BY <1>0, <2>1, <2>2, <2>3, LowestFact DEF Still, ScriptOK, HandInv, ArmIsAbove, Lowest, LetGo, ReleaseIsEarned, HumanHasCup, At
<1>8. CASE Recheck \/ Baseline
  <2>1. ScriptOK' /\ (stage'.pc \in {"baseline", "back", "down"} \/ (stage'.pc = "over" /\ stage'.rc = 1))
      BY <1>0, <1>8 DEF Recheck, Baseline, Still, Goes, Ends, ScriptOK, StageRecords, StagePlaces, Scripts, world
  <2> QED
      BY <1>8, <2>1, QuietStep DEF Recheck, Baseline, Still
<1>9. CASE Down
  <2>0. Lowest' = Lowest /\ Still /\ UNCHANGED <<force, hand, cup, journal>> /\ stage.pc = "down" /\ arm <= Lowest
      BY <1>9 DEF Down, Still, Lowest, At, HandInv, ArmIsAbove
  <2>1. CASE arm < Lowest /\ arm' = arm + 1 /\ Goes("read")
    <3>1. stage' \in StageRecords /\ stage'.pc = "read"
        BY <1>0, <2>1, GoesFact, Zenon DEF ScriptOK, StagePlaces, Scripts
    <3> QED
        BY <1>0, <2>0, <2>1, <3>1, LowestFact DEF Still, ScriptOK, HandInv, ArmIsAbove, LetGo, ReleaseIsEarned, HumanHasCup, At
  <2>2. CASE arm' = arm /\ Ends(1)
      BY <2>0, <2>2, Ended DEF Still
  <2>3. CASE ~ (arm < Lowest) /\ arm' = arm /\ Goes(IF cfg.contact THEN "back" ELSE "open")
    <3>1. stage' \in StageRecords /\ stage'.pc = IF cfg.contact THEN "back" ELSE "open"
        BY <1>0, <2>3, GoesFact, Zenon DEF ScriptOK, StagePlaces, Scripts
    <3>2. arm = Lowest
        BY <1>0, <2>0, <2>3, LowestFact DEF ScriptOK
    <3> QED
        BY <1>0, <2>0, <2>3, <3>1, <3>2 DEF Still, ScriptOK, HandInv, ArmIsAbove, LetGo, ReleaseIsEarned, HumanHasCup, At
  <2> QED
      BY <1>9, <2>1, <2>2, <2>3, Zenon DEF Down
<1>10. CASE Read \/ Confirm
  <2>0. Still /\ UNCHANGED <<arm, hand, cup, journal>>
      BY <1>10, Zenon DEF Read, Confirm
  <2>1. force' \in ForceRecords
      BY <1>0, <1>10 DEF Read, Confirm, ScriptOK, ForceRecords, Levels
  <2>2. CASE Ends(1)
      BY <2>0, <2>1, <2>2, Ended DEF Still
  <2>3. CASE Goes("down") \/ Goes("confirm") \/ (Goes("open") /\ force'.hits = Confirms)
    <3>1. /\ stage' \in StageRecords
          /\ stage'.pc \in {"down", "confirm"} \/ (stage'.pc = "open" /\ force'.hits = Confirms)
        BY <1>0, <2>3, GoesFact, Zenon DEF ScriptOK, StagePlaces, Scripts
    <3> QED
        BY <1>0, <2>0, <2>1, <3>1 DEF Still, ScriptOK, HandInv, ArmIsAbove, Lowest, LetGo, ReleaseIsEarned, HumanHasCup, At
  <2>4. CASE Read
      BY <2>2, <2>3, <2>4, Zenon DEF Read
  <2>5. CASE Confirm
    <3>1. CASE force' = [force EXCEPT !.hits = @ + 1] /\ Goes(IF force.hits + 1 = Confirms THEN "open" ELSE "confirm")
      <4>1. force'.hits = force.hits + 1
          BY <1>0, <3>1 DEF ScriptOK, ForceRecords
      <4> QED
          BY <2>3, <3>1, <4>1, Zenon
    <3> QED
        BY <2>2, <2>3, <2>5, <3>1, Zenon DEF Confirm
  <2> QED
      BY <1>10, <2>4, <2>5
<1>11. CASE Open
  <2>0. Still /\ UNCHANGED <<arm, force, journal>> /\ At("open")
      BY <1>11, Zenon DEF Open
  <2>1. CASE hand' = "open" /\ cup' = "human" /\ Goes("away")
    <3>1. stage' \in StageRecords /\ stage'.pc = "away"
        BY <1>0, <2>1, GoesFact, Zenon DEF ScriptOK, StagePlaces, Scripts
    <3> QED
        BY <1>0, <2>0, <2>1, <3>1 DEF Still, ScriptOK, HandInv, ArmIsAbove, Lowest, LetGo, ReleaseIsEarned, HumanHasCup, At
  <2>2. CASE hand' = "open" /\ cup' = "human" /\ Ends(1)
    <3>1. stage' \in StageRecords /\ stage'.pc = "over" /\ stage'.rc = 1
        BY <1>0, <2>2, EndsFact, Zenon DEF ScriptOK
    <3> QED
        BY <1>0, <2>0, <2>2, <3>1 DEF Still, ScriptOK, HandInv, ArmIsAbove, Lowest, LetGo, ReleaseIsEarned, HumanHasCup, At
  <2>3. CASE UNCHANGED <<hand, cup>> /\ Ends(1)
      BY <1>0, <2>0, <2>3, Ended DEF Still, ScriptOK
  <2> QED
      BY <1>11, <2>1, <2>2, <2>3, Zenon DEF Open
<1>12. CASE Retreat
  <2>1. Still /\ UNCHANGED <<world, journal>>
      BY <1>12, Zenon DEF Retreat
  <2>2. CASE At("away") /\ Ends(0)
    <3>1. stage' \in StageRecords /\ stage'.pc = "over" /\ hand = "open" /\ cup = "human"
        BY <1>0, <2>2, EndsFact, Zenon DEF ScriptOK, HandInv, LetGo
    <3> QED
        BY <1>0, <2>1, <3>1 DEF Still, ScriptOK, HandInv, ArmIsAbove, Lowest, LetGo, ReleaseIsEarned, HumanHasCup, At, world
  <2>3. CASE Ends(1)
      BY <1>0, <2>1, <2>3, Ended DEF Still, ScriptOK, world
  <2> QED
      BY <1>12, <2>2, <2>3, Zenon DEF Retreat
<1>13. CASE UNCHANGED vars
    BY <1>0, <1>13 DEF vars, world, ScriptOK, HandInv, ArmIsAbove, Lowest, LetGo, ReleaseIsEarned, HumanHasCup, At
<1> QED
    BY <1>1, <1>2, <1>3, <1>4, <1>5, <1>6, <1>7, <1>8, <1>9, <1>10, <1>11, <1>12, <1>13 DEF Next, Handover

\* The release's part of the invariant holds in every reachable state.
THEOREM ReleaseInvariance == Spec => []HandInv
BY InitHandInv, NextHandInv, PTL DEF Spec

\* The hand opens over a confirmed contact, or where the search ends if contact is not required.
THEOREM ReleaseEarned == Spec => []ReleaseIsEarned
BY ReleaseInvariance, PTL DEF HandInv

\* The journal gives the cup to the person only if the hand has let go of it.
THEOREM JournalGivesCup == Spec => []HumanHasCup
BY ReleaseInvariance, PTL DEF HandInv

-----------------------------------------------------------------------------
(* The watcher.                                                            *)

\* The windows, counts and bounds.
LEMMA BoundsFact ==
    /\ Window \in Nat \ {0} /\ MinStable \in Nat \ {0} /\ Count \in Nat \ {0} /\ MaxWait \in Nat \ {0}
    /\ Confirms \in Nat \ {0} /\ StatusDepth \in Nat \ {0} /\ MaxStamps \in Nat \ {0} /\ MaxAttempts \in Nat \ {0}
BY HandoverAssumption DEF HandoverAssumption

\* The watcher's variables, with their types.
WatchTyped ==
    /\ watch.ready \in BOOLEAN /\ watch.left \in 0 .. MaxWait
    /\ watch.stamps \in Seq(0 .. Window) /\ Len(watch.stamps) <= MaxStamps

\* The initial states satisfy the invariant.
LEMMA InitWatchInv == Init => WatchInv
<1> SUFFICES ASSUME Init PROVE WatchInv
    OBVIOUS
<1>1. TypeOK
  <2>1. stage.pc \in StagePlaces /\ stage.attempt \in 0 .. MaxAttempts /\ stage.rc \in {0, 1, 3}
      BY BoundsFact DEF Init, StagePlaces
  <2>2. arm \in 0 .. cfg.floor /\ force \in [prev : Levels, ref : Levels, hits : 0 .. Confirms] /\ calm \in 0 .. MinStable
      BY OptionsFact, BoundsFact DEF Init, NoReading, Levels
  <2>3. WatchTyped /\ statuses \in Seq(BOOLEAN) /\ Len(statuses) <= StatusDepth
      BY BoundsFact DEF Init, WatchTyped
  <2> QED
      BY <2>1, <2>2, <2>3, Zenon DEF Init, TypeOK, WatchTyped, StagePlaces
<1>2. CountsDown /\ StampsAreCalm /\ TriggerIsCalm
    BY DEF Init, CountsDown, StampsAreCalm, TriggerIsCalm, At, Scripts
<1> QED
    BY <1>1, <1>2 DEF WatchInv

\* What is to be shown of a step, next to the script's part of the invariant.
LEMMA WatchInvAfter ==
    ASSUME HandInv', WatchTyped', StampsAreCalm', calm' \in 0 .. MinStable,
           topics' \subseteq {"camera", "detector"}, helpers' \subseteq {"camera", "detector"},
           palm' \in {"empty", "filling", "stable"}, statuses' \in Seq(BOOLEAN), Len(statuses') <= StatusDepth, point' \in BOOLEAN,
           stage'.attempt \in 0 .. MaxAttempts, force'.hits \in 0 .. Confirms, stage'.pc = "confirm" => force'.hits < Confirms,
           hand' \in {"closed", "open"}, cup' \in {"gripper", "human"},
           stage'.pc = "watch" => watch'.left > 0, stage'.pc \in Scripts => calm' = MinStable
    PROVE  WatchInv'
<1>1. ScriptOK' /\ ArmIsAbove'
    BY DEF HandInv
<1>2. arm' \in 0 .. cfg'.floor
    BY <1>1, OptionsFact DEF ScriptOK, ArmIsAbove, Lowest
<1>3. force' \in [prev : Levels, ref : Levels, hits : 0 .. Confirms]
    BY <1>1 DEF ScriptOK, ForceRecords
<1>4. stage'.pc \in StagePlaces /\ stage'.rc \in {0, 1, 3}
    BY <1>1 DEF ScriptOK, StageRecords
<1>5. TypeOK'
    BY <1>1, <1>2, <1>3, <1>4, Zenon DEF TypeOK, ScriptOK, WatchTyped, StagePlaces
<1>6. CountsDown' /\ TriggerIsCalm'
    BY Zenon DEF CountsDown, TriggerIsCalm, At
<1> QED
    BY <1>5, <1>6 DEF WatchInv

\* A step that leaves the watcher alone.
LEMMA WatcherRests ==
    ASSUME HandInv', WatchInv, UNCHANGED watching,
           topics' \subseteq {"camera", "detector"}, helpers' \subseteq {"camera", "detector"},
           palm' \in {"empty", "filling", "stable"}, statuses' \in Seq(BOOLEAN), Len(statuses') <= StatusDepth, point' \in BOOLEAN,
           stage'.attempt \in 0 .. MaxAttempts, force'.hits \in 0 .. Confirms, stage'.pc = "confirm" => force'.hits < Confirms,
           hand' \in {"closed", "open"}, cup' \in {"gripper", "human"},
           stage'.pc = "watch" => stage.pc = "watch", stage'.pc \in Scripts => stage.pc \in Scripts
    PROVE  WatchInv'
<1>1. WatchTyped' /\ StampsAreCalm' /\ calm' \in 0 .. MinStable
    BY Zenon DEF WatchInv, TypeOK, watching, WatchTyped, StampsAreCalm
<1>2. (stage'.pc = "watch" => watch'.left > 0) /\ (stage'.pc \in Scripts => calm' = MinStable)
    BY Zenon DEF WatchInv, watching, CountsDown, TriggerIsCalm, At
<1> QED
    BY <1>1, <1>2, WatchInvAfter

\* The watcher that is off.
LEMMA OffFact ==
    /\ watch' = Off => WatchTyped' /\ StampsAreCalm'
    /\ <<>> \in Seq(BOOLEAN) /\ Len(<<>>) <= StatusDepth /\ FALSE \in BOOLEAN
<1>1. Off.ready = FALSE /\ Off.stamps = <<>> /\ Off.left = 0
    BY DEF Off
<1>2. <<>> \in Seq(0 .. Window) /\ <<>> \in Seq(BOOLEAN) /\ Len(<<>>) = 0 /\ DOMAIN <<>> = {}
    BY EmptySeq
<1>3. 0 <= MaxStamps /\ 0 <= StatusDepth /\ 0 \in 0 .. MaxWait
    BY BoundsFact
<1>4. ASSUME watch' = Off PROVE WatchTyped' /\ StampsAreCalm'
    BY <1>1, <1>2, <1>3, <1>4, Zenon DEF WatchTyped, StampsAreCalm
<1> QED
    BY <1>2, <1>3, <1>4, Zenon

\* A turn of the watcher's loop: it drops the old stamps, and goes on, runs out of time, or triggers,
\* and then its first stamp, and so every one, is younger than the last status that was not ready.
LEMMA TurnFact ==
    ASSUME stage \in StageRecords, NEW ready \in BOOLEAN, NEW stamps \in Seq(Nat), NEW left \in 0 .. MaxWait,
           NEW queue \in Seq(BOOLEAN), NEW slot \in BOOLEAN,
           Len(stamps) <= MaxStamps, Len(queue) <= StatusDepth, calm' \in 0 .. MinStable,
           \A i \in DOMAIN stamps : calm' = MinStable \/ stamps[i] <= calm',
           Turn(ready, stamps, left, queue, slot)
    PROVE  /\ WatchTyped' /\ StampsAreCalm'
           /\ statuses' \in Seq(BOOLEAN) /\ Len(statuses') <= StatusDepth /\ point' \in BOOLEAN
           /\ \/ stage' = stage /\ watch'.left > 0
              \/ Goes("pose") /\ calm' = MinStable
              \/ Ends(3)
<1>1. PICK n \in 0 .. Len(stamps) :
          /\ \A i \in DOMAIN stamps : stamps[i] > Window <=> i <= n
          /\ LET kept == SubSeq(stamps, n + 1, Len(stamps))
                 triggered == Len(kept) >= Count /\ kept[1] >= MinStable
             IN IF triggered \/ left = 0
                THEN /\ watch' = Off /\ statuses' = <<>> /\ point' = FALSE
                     /\ IF triggered THEN Goes("pose") ELSE Ends(3)
                ELSE /\ watch' = [ready |-> ready, stamps |-> kept, left |-> left]
                     /\ statuses' = queue /\ point' = slot /\ UNCHANGED stage
    BY Zenon DEF Turn
<1> DEFINE kept == SubSeq(stamps, n + 1, Len(stamps))
<1>2. Len(stamps) \in Nat /\ DOMAIN stamps = 1 .. Len(stamps) /\ n \in Nat /\ n <= Len(stamps)
    OBVIOUS
<1>3. \A i \in n + 1 .. Len(stamps) : stamps[i] \in 0 .. Window
  <2> SUFFICES ASSUME NEW i \in n + 1 .. Len(stamps) PROVE stamps[i] \in 0 .. Window
      OBVIOUS
  <2>1. i \in DOMAIN stamps /\ ~ (i <= n)
      BY <1>2
  <2>2. ~ (stamps[i] > Window)
      BY <1>1, <2>1, Zenon
  <2>3. stamps[i] \in Nat
      BY <1>2, <2>1, ElementOfSeq, Zenon
  <2> QED
      BY <2>2, <2>3, BoundsFact
<1>4. /\ kept \in Seq(0 .. Window) /\ Len(kept) = IF n + 1 <= Len(stamps) THEN Len(stamps) - n ELSE 0
      /\ \A i \in 1 .. Len(stamps) - n : kept[i] = stamps[n + i]
  <2> DEFINE m == n + 1  l == Len(stamps)
  <2>1. m \in Int /\ l \in Int /\ m = n + 1 /\ l \in Nat
      BY <1>2
  <2>2. \A i \in m .. l : stamps[i] \in 0 .. Window
      BY <1>3
  <2>3. kept = SubSeq(stamps, m, l)
      BY DEF kept
  <2> HIDE DEF m, l, kept
  <2>4. /\ kept \in Seq(0 .. Window) /\ Len(kept) = IF m <= l THEN l - m + 1 ELSE 0
        /\ \A i \in 1 .. l - m + 1 : kept[i] = stamps[m + i - 1]
      BY <2>1, <2>2, <2>3, SubSeqProperties
  <2>5. l - m + 1 = l - n /\ \A i \in Int : m + i - 1 = n + i
      BY <1>2, <2>1
  <2>6. /\ kept \in Seq(0 .. Window) /\ Len(kept) = IF m <= l THEN l - n ELSE 0
        /\ \A i \in 1 .. l - n : kept[i] = stamps[n + i]
      BY <2>4, <2>5
  <2> QED
      BY <2>6, Zenon DEF m, l
<1> HIDE DEF kept
<1>5. /\ Len(kept) \in Nat /\ Len(kept) <= MaxStamps /\ DOMAIN kept = 1 .. Len(kept)
      /\ Len(kept) = Len(stamps) - n
  <2>1. Len(kept) \in Nat /\ DOMAIN kept = 1 .. Len(kept)
      BY <1>4, LenProperties, Zenon
  <2>2. Len(kept) = Len(stamps) - n
    <3> DEFINE k == Len(kept)  l == Len(stamps)
    <3>1. k = (IF n + 1 <= l THEN l - n ELSE 0) /\ l \in Nat /\ n \in Nat /\ n <= l
        BY <1>2, <1>4, Zenon
    <3> HIDE DEF k, l
    <3>2. k = l - n
        BY <3>1
    <3> QED
        BY <3>2 DEF k, l
  <2> QED
      BY <1>2, <2>1, <2>2, BoundsFact
<1>6. \A i \in DOMAIN kept : calm' = MinStable \/ kept[i] <= calm'
  <2> SUFFICES ASSUME NEW i \in DOMAIN kept PROVE calm' = MinStable \/ kept[i] <= calm'
      OBVIOUS
  <2>1. i \in 1 .. Len(stamps) - n
      BY <1>5, Zenon
  <2>2. n + i \in DOMAIN stamps
      BY <1>2, <2>1
  <2> QED
      BY <1>4, <2>1, <2>2, Zenon
<1>7. CASE Len(kept) >= Count /\ kept[1] >= MinStable
  <2>1. watch' = Off /\ statuses' = <<>> /\ point' = FALSE /\ Goes("pose")
      BY <1>1, <1>7, Zenon DEF kept
  <2>2. 1 \in DOMAIN kept
      BY <1>5, <1>7, BoundsFact
  <2>3. kept[1] \in 0 .. Window
      BY <1>4, <1>5, <2>2, ElementOfSeq, Zenon
  <2>4. calm' = MinStable \/ kept[1] <= calm'
      BY <1>6, <2>2, Zenon
  <2>5. calm' = MinStable
    <3> DEFINE k == kept[1]
    <3>1. k \in 0 .. Window /\ k >= MinStable /\ (calm' = MinStable \/ k <= calm')
        BY <1>7, <2>3, <2>4, Zenon
    <3> HIDE DEF k
    <3> QED
        BY <3>1, BoundsFact
  <2> QED
      BY <2>1, <2>5, OffFact, Zenon
<1>8. CASE ~ (Len(kept) >= Count /\ kept[1] >= MinStable) /\ left = 0
  <2>1. watch' = Off /\ statuses' = <<>> /\ point' = FALSE /\ Ends(3)
      BY <1>1, <1>8, Zenon DEF kept
  <2> QED
      BY <2>1, OffFact, Zenon
<1>9. CASE ~ (Len(kept) >= Count /\ kept[1] >= MinStable) /\ left # 0
  <2>1. /\ watch' = [ready |-> ready, stamps |-> kept, left |-> left]
        /\ statuses' = queue /\ point' = slot /\ UNCHANGED stage
      BY <1>1, <1>9, Zenon DEF kept
  <2>2. watch'.ready = ready /\ watch'.stamps = kept /\ watch'.left = left
      BY <2>1
  <2>3. left > 0
      BY <1>9, BoundsFact
  <2> QED
      BY <1>4, <1>5, <1>6, <2>1, <2>2, <2>3 DEF WatchTyped, StampsAreCalm
<1> QED
    BY <1>7, <1>8, <1>9, Zenon

\* A step of the script: what it leaves, and what it makes of stage and force.
LEMMA ScriptSteps ==
    ASSUME HandInv', WatchInv, Still, stage.pc \in Scripts,
           stage'.attempt = stage.attempt, stage'.pc # "watch",
           force'.hits \in 0 .. Confirms, stage'.pc = "confirm" => force'.hits < Confirms,
           hand' \in {hand, "open"}, cup' \in {cup, "human"}
    PROVE  WatchInv'
<1>1. /\ TypeOK /\ UNCHANGED watching
      /\ topics' \subseteq {"camera", "detector"} /\ helpers' \subseteq {"camera", "detector"}
      /\ palm' \in {"empty", "filling", "stable"} /\ statuses' \in Seq(BOOLEAN) /\ Len(statuses') <= StatusDepth
      /\ point' \in BOOLEAN /\ stage'.attempt \in 0 .. MaxAttempts
    BY Zenon DEF WatchInv, TypeOK, Still, detecting
<1>2. hand' \in {"closed", "open"} /\ cup' \in {"gripper", "human"}
    BY <1>1, Zenon DEF TypeOK
<1> QED
    BY <1>1, <1>2, WatcherRests

\* The places of the script are none of the watcher's.
LEMMA PlacesFact ==
    /\ \A pc \in Scripts : pc \in StagePlaces /\ pc # "watch"
    /\ \A pc \in {"idle", "camera", "detector", "listen", "watch", "over"} : pc \in StagePlaces /\ pc \notin Scripts
BY DEF StagePlaces, Scripts

\* Going on and ending leave the number of the attempt.
LEMMA AttemptFact ==
    ASSUME stage \in StageRecords
    PROVE  /\ \A pc \in StagePlaces : Goes(pc) => stage'.attempt = stage.attempt /\ stage'.pc = pc
           /\ \A rc \in {0, 1, 3} : Ends(rc) => stage'.attempt = stage.attempt /\ stage'.pc = "over"
BY DEF Goes, Ends, StageRecords

\* The watcher's part of the invariant is kept by the router and the detector.
LEMMA RouterKeepsWatchInv ==
    ASSUME HandInv, HandInv', WatchInv, Begin \/ StartSupport \/ Listen \/ Finish \/ Frame \/ Dies
    PROVE  WatchInv'
<1>0. /\ TypeOK /\ stage \in StageRecords /\ topics \subseteq {"camera", "detector"} /\ helpers \subseteq {"camera", "detector"}
      /\ palm \in {"empty", "filling", "stable"} /\ statuses \in Seq(BOOLEAN) /\ Len(statuses) <= StatusDepth /\ point \in BOOLEAN
      /\ stage.attempt \in 0 .. MaxAttempts /\ hand \in {"closed", "open"} /\ cup \in {"gripper", "human"}
      /\ force.hits \in 0 .. Confirms /\ calm \in 0 .. MinStable
    BY DEF HandInv, ScriptOK, WatchInv, TypeOK
<1>1. CASE Begin
  <2>1. stage'.attempt \in 0 .. MaxAttempts /\ stage'.pc = "camera"
      BY <1>0, <1>1, BoundsFact DEF Begin
  <2>2. UNCHANGED <<cfg, topics, helpers, detecting, watching, world>>
      BY <1>1, Zenon DEF Begin
  <2> QED
      BY <1>0, <2>1, <2>2, PlacesFact, WatcherRests, Zenon DEF detecting, world
<1>2. CASE StartSupport
  <2>1. /\ Goes("detector") \/ Goes("listen") \/ Ends(1)
        /\ UNCHANGED <<cfg, detecting, watching, world>>
      BY <1>2, Zenon DEF StartSupport, Support
  <2>2. topics' \subseteq {"camera", "detector"} /\ helpers' \subseteq {"camera", "detector"}
      BY <1>0, <1>2 DEF StartSupport, Support
  <2>3. stage'.attempt = stage.attempt /\ stage'.pc \in {"detector", "listen", "over"}
      BY <1>0, <2>1, AttemptFact, PlacesFact, Zenon
  <2> QED
      BY <1>0, <2>1, <2>2, <2>3, PlacesFact, WatcherRests, Zenon DEF detecting, world
<1>3. CASE Listen
  <2>1. /\ watch' = [ready |-> FALSE, stamps |-> <<>>, left |-> MaxWait] /\ calm' = 0 /\ Goes("watch")
        /\ statuses' = <<>> /\ point' = FALSE /\ palm' \in {"empty", "filling", "stable"}
        /\ UNCHANGED <<cfg, topics, helpers, world>>
      BY <1>3, Zenon DEF Listen
  <2>2. stage'.attempt = stage.attempt /\ stage'.pc = "watch"
      BY <1>0, <2>1, AttemptFact, PlacesFact, Zenon
  <2>3. watch'.ready = FALSE /\ watch'.stamps = <<>> /\ watch'.left = MaxWait
      BY <2>1
  <2>4. /\ <<>> \in Seq(0 .. Window) /\ <<>> \in Seq(BOOLEAN) /\ Len(<<>>) = 0 /\ DOMAIN <<>> = {}
        /\ 0 <= MaxStamps /\ 0 <= StatusDepth /\ MaxWait \in 0 .. MaxWait /\ MaxWait > 0 /\ 0 \in 0 .. MinStable
      BY EmptySeq, BoundsFact
  <2>5. WatchTyped' /\ StampsAreCalm'
      BY <2>3, <2>4, Zenon DEF WatchTyped, StampsAreCalm
  <2> QED
      BY <1>0, <2>1, <2>2, <2>3, <2>4, <2>5, PlacesFact, WatchInvAfter, Zenon DEF world
<1>4. CASE Finish
  <2>1. Goes("idle") /\ topics' = topics \ helpers /\ helpers' = {} /\ UNCHANGED <<cfg, detecting, watching, world>>
      BY <1>4, Zenon DEF Finish
  <2>2. stage'.attempt = stage.attempt /\ stage'.pc = "idle"
      BY <1>0, <2>1, AttemptFact, PlacesFact, Zenon
  <2>3. topics' \subseteq {"camera", "detector"} /\ helpers' \subseteq {"camera", "detector"}
      BY <1>0, <2>1
  <2> QED
      BY <1>0, <2>1, <2>2, <2>3, PlacesFact, WatcherRests, Zenon DEF detecting, world
<1>5. CASE Frame
  <2>1. UNCHANGED <<cfg, topics, helpers, watching, stage, world>> /\ At("watch")
      BY <1>5, Zenon DEF Frame
  <2>2. PICK ready \in BOOLEAN : statuses' = Append(statuses, ready) /\ Len(statuses) < StatusDepth
      BY <1>5, Zenon DEF Frame
  <2>3. statuses' \in Seq(BOOLEAN) /\ Len(statuses') <= StatusDepth
      BY <1>0, <2>2, BoundsFact
  <2>4. palm' \in {"empty", "filling", "stable"} /\ point' \in BOOLEAN
      BY <1>0, <1>5, Zenon DEF Frame
  <2> QED
      BY <1>0, <2>1, <2>3, <2>4, PlacesFact, WatcherRests, Zenon DEF world, At
<1>6. CASE Dies
  <2>1. UNCHANGED <<cfg, helpers, detecting, watching, stage, world>> /\ At("watch")
      BY <1>6, Zenon DEF Dies
  <2>2. topics' \subseteq {"camera", "detector"}
      BY <1>0, <1>6 DEF Dies
  <2> QED
      BY <1>0, <2>1, <2>2, PlacesFact, WatcherRests, Zenon DEF detecting, world, At
<1> QED
    BY <1>1, <1>2, <1>3, <1>4, <1>5, <1>6

\* What a turn of the loop makes of stage and watcher is all that the invariant asks of it.
LEMMA TurnKeepsWatchInv ==
    ASSUME HandInv, HandInv', WatchInv, At("watch"), UNCHANGED <<cfg, topics, helpers, world, journal>>,
           palm' \in {"empty", "filling", "stable"}, calm' \in 0 .. MinStable,
           WatchTyped', StampsAreCalm',
           statuses' \in Seq(BOOLEAN), Len(statuses') <= StatusDepth, point' \in BOOLEAN,
           \/ stage' = stage /\ watch'.left > 0
           \/ Goes("pose") /\ calm' = MinStable
           \/ Ends(3)
    PROVE  WatchInv'
<1>1. /\ TypeOK /\ stage \in StageRecords /\ stage.attempt \in 0 .. MaxAttempts /\ force.hits \in 0 .. Confirms
      /\ topics \subseteq {"camera", "detector"} /\ helpers \subseteq {"camera", "detector"}
      /\ hand \in {"closed", "open"} /\ cup \in {"gripper", "human"}
    BY DEF HandInv, ScriptOK, WatchInv, TypeOK
<1>2. stage.pc = "watch" /\ "watch" \notin Scripts /\ "over" \notin Scripts /\ "pose" \in StagePlaces
    BY PlacesFact DEF At, Scripts, StagePlaces
<1>3. /\ stage'.attempt = stage.attempt /\ stage'.pc # "confirm"
      /\ stage'.pc = "watch" => watch'.left > 0
      /\ stage'.pc \in Scripts => calm' = MinStable
  <2>1. CASE stage' = stage /\ watch'.left > 0
      BY <1>2, <2>1
  <2>2. CASE Goes("pose") /\ calm' = MinStable
      BY <1>1, <1>2, <2>2, AttemptFact
  <2>3. CASE Ends(3)
      BY <1>1, <1>2, <2>3, AttemptFact
  <2> QED
      BY <2>1, <2>2, <2>3
<1> QED
    BY <1>1, <1>3, WatchInvAfter, Zenon DEF world

\* The watcher's part of the invariant is kept by the watcher.
LEMMA WatcherKeepsWatchInv ==
    ASSUME HandInv, HandInv', WatchInv, Watch
    PROVE  WatchInv'
<1>0. /\ stage \in StageRecords /\ palm \in {"empty", "filling", "stable"}
      /\ statuses \in Seq(BOOLEAN) /\ Len(statuses) <= StatusDepth /\ point \in BOOLEAN
      /\ watch.ready \in BOOLEAN /\ watch.left \in 0 .. MaxWait
      /\ watch.stamps \in Seq(0 .. Window) /\ Len(watch.stamps) <= MaxStamps
      /\ calm \in 0 .. MinStable /\ StampsAreCalm /\ (At("watch") => watch.left > 0)
    BY DEF HandInv, ScriptOK, WatchInv, TypeOK, CountsDown
<1>1. watch.stamps \in Seq(Nat)
    BY <1>0, BoundsFact
<1>2. <<>> \in Seq(Nat) /\ Len(<<>>) = 0 /\ DOMAIN <<>> = {} /\ 0 <= MaxStamps
    BY EmptySeq, BoundsFact
<1>3. CASE HearStatus
  <2> DEFINE stamps == IF Head(statuses) THEN watch.stamps ELSE <<>>
  <2>1. /\ At("watch") /\ UNCHANGED <<cfg, topics, helpers, palm, world, journal>>
        /\ statuses # <<>> /\ calm' = IF Head(statuses) THEN calm ELSE 0
        /\ Turn(Head(statuses), stamps, watch.left, Tail(statuses), point)
      BY <1>3, Zenon DEF HearStatus
  <2>2. Head(statuses) \in BOOLEAN /\ Tail(statuses) \in Seq(BOOLEAN) /\ Len(Tail(statuses)) = Len(statuses) - 1
      BY <1>0, <2>1, HeadTailProperties
  <2>3. Len(Tail(statuses)) <= StatusDepth
      BY <1>0, <2>2, BoundsFact
  <2>4. stamps \in Seq(Nat) /\ Len(stamps) <= MaxStamps
      BY <1>0, <1>1, <1>2, Zenon
  <2>5. calm' \in 0 .. MinStable
    <3>1. calm' = calm \/ calm' = 0
        BY <2>1, Zenon
    <3> HIDE DEF stamps
    <3> QED
        BY <1>0, <3>1, BoundsFact
  <2>6. \A i \in DOMAIN stamps : calm' = MinStable \/ stamps[i] <= calm'
    <3>1. CASE Head(statuses)
        BY <1>0, <2>1, <3>1, Zenon DEF StampsAreCalm
    <3>2. CASE ~ Head(statuses)
        BY <1>2, <3>2, Zenon
    <3> QED
        BY <3>1, <3>2, Zenon
  <2> HIDE DEF stamps
  <2>7. /\ WatchTyped' /\ StampsAreCalm'
        /\ statuses' \in Seq(BOOLEAN) /\ Len(statuses') <= StatusDepth /\ point' \in BOOLEAN
        /\ \/ stage' = stage /\ watch'.left > 0
           \/ Goes("pose") /\ calm' = MinStable
           \/ Ends(3)
      BY <1>0, <2>1, <2>2, <2>3, <2>4, <2>5, <2>6, TurnFact, Zenon
  <2> QED
      BY <1>0, <2>1, <2>5, <2>7, TurnKeepsWatchInv, Zenon
<1>4. CASE HearPoint
  <2> DEFINE stamps == IF watch.ready THEN Append(watch.stamps, 0) ELSE watch.stamps
  <2>1. /\ At("watch") /\ UNCHANGED <<cfg, topics, helpers, palm, calm, world, journal>>
        /\ Len(watch.stamps) < MaxStamps
        /\ Turn(watch.ready, stamps, watch.left, statuses, FALSE)
      BY <1>4, Zenon DEF HearPoint
  <2>2. /\ Append(watch.stamps, 0) \in Seq(Nat) /\ Len(Append(watch.stamps, 0)) = Len(watch.stamps) + 1
        /\ \A i \in 1 .. Len(watch.stamps) : Append(watch.stamps, 0)[i] = watch.stamps[i]
        /\ Append(watch.stamps, 0)[Len(watch.stamps) + 1] = 0
      BY <1>1, AppendProperties
  <2>3. stamps \in Seq(Nat) /\ Len(stamps) <= MaxStamps
      BY <1>0, <1>1, <2>1, <2>2, BoundsFact
  <2>4. calm' \in 0 .. MinStable
      BY <1>0, <2>1
  <2>5. \A i \in DOMAIN Append(watch.stamps, 0) : calm = MinStable \/ Append(watch.stamps, 0)[i] <= calm
    <3> SUFFICES ASSUME NEW i \in DOMAIN Append(watch.stamps, 0)
                 PROVE  calm = MinStable \/ Append(watch.stamps, 0)[i] <= calm
        OBVIOUS
    <3>1. i \in DOMAIN watch.stamps \/ i = Len(watch.stamps) + 1
        BY <1>1, <2>2
    <3>2. CASE i \in DOMAIN watch.stamps
      <4>1. i \in 1 .. Len(watch.stamps)
          BY <1>1, <3>2
      <4> QED
          BY <1>0, <2>2, <3>2, <4>1, Zenon DEF StampsAreCalm
    <3>3. CASE i = Len(watch.stamps) + 1
      <4>1. 0 <= calm
          BY <1>0
      <4> QED
          BY <2>2, <3>3, <4>1, Zenon
    <3> QED
        BY <3>1, <3>2, <3>3
  <2>6. \A i \in DOMAIN stamps : calm' = MinStable \/ stamps[i] <= calm'
      BY <1>0, <2>1, <2>5, Zenon DEF StampsAreCalm
  <2> HIDE DEF stamps
  <2>7. /\ WatchTyped' /\ StampsAreCalm'
        /\ statuses' \in Seq(BOOLEAN) /\ Len(statuses') <= StatusDepth /\ point' \in BOOLEAN
        /\ \/ stage' = stage /\ watch'.left > 0
           \/ Goes("pose") /\ calm' = MinStable
           \/ Ends(3)
      BY <1>0, <2>1, <2>3, <2>4, <2>6, TurnFact, Zenon
  <2> QED
      BY <1>0, <2>1, <2>4, <2>7, TurnKeepsWatchInv, Zenon
<1>5. CASE Tick
  <2> DEFINE old == watch.stamps
             stamps == [i \in DOMAIN old |-> old[i] + 1]
  <2>1. /\ At("watch") /\ UNCHANGED <<cfg, topics, helpers, world, journal>> /\ Settle
        /\ calm' = IF calm < MinStable THEN calm + 1 ELSE calm
        /\ Turn(watch.ready, stamps, watch.left - 1, statuses, point)
      BY <1>5, Zenon DEF Tick
  <2>2. palm' \in {"empty", "filling", "stable"}
      BY <1>0, <2>1 DEF Settle
  <2>3. /\ old \in Seq(Nat) /\ Len(old) \in Nat /\ DOMAIN old = 1 .. Len(old)
        /\ \A i \in DOMAIN old : old[i] \in Nat
      BY <1>1, ElementOfSeq
  <2>4. stamps \in Seq(Nat) /\ Len(stamps) = Len(old) /\ DOMAIN stamps = DOMAIN old
    <3>1. stamps \in [1 .. Len(old) -> Nat]
        BY <2>3
    <3>2. stamps \in Seq(Nat)
        BY <2>3, <3>1
    <3>3. DOMAIN stamps = 1 .. Len(old)
        BY <2>3
    <3> HIDE DEF stamps, old
    <3> QED
        BY <2>3, <3>2, <3>3
  <2>5. Len(stamps) <= MaxStamps
      BY <1>0, <2>4, Zenon
  <2>6. calm' \in 0 .. MinStable /\ (calm' = MinStable \/ calm' = calm + 1)
      BY <1>0, <2>1, BoundsFact
  <2>7. \A i \in DOMAIN stamps : calm' = MinStable \/ stamps[i] <= calm'
    <3> SUFFICES ASSUME NEW i \in DOMAIN stamps, calm' # MinStable
                 PROVE  stamps[i] <= calm'
        OBVIOUS
    <3>1. i \in DOMAIN old /\ stamps[i] = old[i] + 1 /\ old[i] \in Nat
        BY <2>3, <2>4
    <3>2. calm' = calm + 1 /\ calm # MinStable
        BY <1>0, <2>1, <2>6, BoundsFact
    <3>3. old[i] <= calm
        BY <1>0, <3>1, <3>2, Zenon DEF StampsAreCalm
    <3> QED
        BY <1>0, <3>1, <3>2, <3>3
  <2>8. watch.left - 1 \in 0 .. MaxWait
      BY <1>0, <2>1, BoundsFact
  <2> HIDE DEF stamps, old
  <2>9. /\ WatchTyped' /\ StampsAreCalm'
        /\ statuses' \in Seq(BOOLEAN) /\ Len(statuses') <= StatusDepth /\ point' \in BOOLEAN
        /\ \/ stage' = stage /\ watch'.left > 0
           \/ Goes("pose") /\ calm' = MinStable
           \/ Ends(3)
      BY <1>0, <2>1, <2>4, <2>5, <2>6, <2>7, <2>8, TurnFact, Zenon
  <2> QED
      BY <1>0, <2>1, <2>2, <2>6, <2>9, TurnKeepsWatchInv, Zenon
<1> QED
    BY <1>3, <1>4, <1>5 DEF Watch

\* The watcher's part of the invariant is kept by the script: it leaves the watcher alone, goes only
\* to places of its own, and counts no more hits than it needs.
LEMMA ScriptKeepsWatchInv ==
    ASSUME HandInv, HandInv', WatchInv, Handover
    PROVE  WatchInv'
<1>0. /\ stage \in StageRecords /\ force \in ForceRecords /\ force.hits \in 0 .. Confirms
      /\ (At("confirm") => force.hits < Confirms)
      /\ "recheck" \in StagePlaces /\ "baseline" \in StagePlaces /\ "back" \in StagePlaces /\ "down" \in StagePlaces
      /\ "read" \in StagePlaces /\ "confirm" \in StagePlaces /\ "open" \in StagePlaces /\ "away" \in StagePlaces
    BY DEF HandInv, ScriptOK, WatchInv, TypeOK, CountsDown, StagePlaces, Scripts
<1>1. \A pc \in {"pose", "recheck", "baseline", "down", "read", "confirm", "open", "back", "away"} : pc \in Scripts
    BY DEF Scripts
<1> DEFINE Gone == stage'.attempt = stage.attempt /\ stage'.pc # "watch" /\ stage'.pc # "confirm"
<1>2. ASSUME Goes("recheck") \/ Goes("baseline") \/ Goes("back") \/ Goes("down") \/ Goes("read") \/ Goes("open")
             \/ Goes("away") \/ Ends(0) \/ Ends(1)
      PROVE  Gone
    BY <1>0, <1>2, AttemptFact
<1>3. CASE Approach
  <2>1. At("pose") /\ force' = NoReading /\ Still /\ UNCHANGED <<hand, cup>> /\ (Goes("recheck") \/ Goes("baseline") \/ Ends(1))
      BY <1>3, Zenon DEF Approach
  <2>2. force'.hits \in 0 .. Confirms
      BY <2>1, BoundsFact DEF NoReading
  <2> QED
      BY <1>1, <1>2, <2>1, <2>2, ScriptSteps, Zenon DEF At
<1>4. CASE Recheck \/ Baseline
  <2>1. /\ (At("recheck") \/ At("baseline")) /\ Still /\ UNCHANGED world
        /\ Goes("baseline") \/ Goes("back") \/ Goes("down") \/ Ends(1)
      BY <1>4, Zenon DEF Recheck, Baseline
  <2> QED
      BY <1>0, <1>1, <1>2, <2>1, ScriptSteps, Zenon DEF At, world
<1>5. CASE Down
  <2>1. At("down") /\ Still /\ UNCHANGED <<force, hand, cup>> /\ (Goes("read") \/ Goes("back") \/ Goes("open") \/ Ends(1))
      BY <1>5, Zenon DEF Down
  <2> QED
      BY <1>0, <1>1, <1>2, <2>1, ScriptSteps, Zenon DEF At
<1>6. CASE Read
  <2>1. At("read") /\ Still /\ UNCHANGED <<hand, cup>> /\ (Goes("confirm") \/ Goes("down") \/ Ends(1))
      BY <1>6, Zenon DEF Read
  <2>2. force' = force \/ \E f \in Levels : force' = [force EXCEPT !.prev = f] \/ force' = [prev |-> f, ref |-> force.prev, hits |-> 0]
      BY <1>6, Zenon DEF Read
  <2>3. force'.hits = force.hits \/ force'.hits = 0
      BY <1>0, <2>2 DEF ForceRecords
  <2>4. Goes("confirm") => force'.hits = 0
    <3>1. PICK f \in Levels :
             \/ f > 0 /\ f > force.prev /\ force' = [prev |-> f, ref |-> force.prev, hits |-> 0] /\ Goes("confirm")
             \/ Goes("down")
             \/ Ends(1)
        BY <1>6, OptionsFact DEF Read, Levels
    <3> QED
        BY <1>0, <3>1, AttemptFact
  <2>5. force'.hits \in 0 .. Confirms /\ 0 < Confirms
      BY <1>0, <2>3, BoundsFact
  <2>6. stage'.attempt = stage.attempt /\ stage'.pc # "watch" /\ (stage'.pc = "confirm" => force'.hits < Confirms)
    <3>1. CASE Goes("confirm")
        BY <1>0, <2>4, <2>5, <3>1, AttemptFact
    <3> QED
        BY <1>2, <2>1, <3>1, Zenon
  <2> QED
      BY <1>1, <2>1, <2>5, <2>6, ScriptSteps, Zenon DEF At
<1>7. CASE Confirm
  <2>1. At("confirm") /\ Still /\ UNCHANGED <<hand, cup>>
      BY <1>7, Zenon DEF Confirm
  <2>2. CASE force' = [force EXCEPT !.hits = @ + 1] /\ Goes(IF force.hits + 1 = Confirms THEN "open" ELSE "confirm")
    <3>1. force'.hits = force.hits + 1 /\ force.hits < Confirms /\ force.hits \in Nat
        BY <1>0, <2>1, <2>2 DEF ForceRecords
    <3>2. force'.hits \in 0 .. Confirms
        BY <3>1, BoundsFact
    <3>3. /\ stage'.attempt = stage.attempt /\ stage'.pc # "watch"
          /\ stage'.pc = IF force.hits + 1 = Confirms THEN "open" ELSE "confirm"
        BY <1>0, <2>2, AttemptFact
    <3>4. stage'.pc = "confirm" => force'.hits < Confirms
        BY <3>1, <3>3, BoundsFact
    <3> QED
        BY <1>1, <2>1, <3>2, <3>3, <3>4, ScriptSteps, Zenon DEF At
  <2>3. CASE force' = [force EXCEPT !.hits = 0] /\ Goes("down")
    <3>1. force'.hits \in 0 .. Confirms
        BY <1>0, <2>3, BoundsFact DEF ForceRecords
    <3> QED
        BY <1>1, <1>2, <2>1, <2>3, <3>1, ScriptSteps, Zenon DEF At
  <2>4. CASE force' = force /\ Ends(1)
      BY <1>0, <1>1, <1>2, <2>1, <2>4, ScriptSteps, Zenon DEF At
  <2> QED
      BY <1>7, <2>2, <2>3, <2>4, Zenon DEF Confirm
<1>8. CASE Open
  <2>1. /\ At("open") /\ Still /\ UNCHANGED force /\ hand' \in {hand, "open"} /\ cup' \in {cup, "human"}
        /\ Goes("away") \/ Ends(1)
      BY <1>8, Zenon DEF Open
  <2> QED
      BY <1>0, <1>1, <1>2, <2>1, ScriptSteps, Zenon DEF At
<1>9. CASE Retreat
  <2>1. stage.pc \in {"back", "away"} /\ Still /\ UNCHANGED world /\ (Ends(0) \/ Ends(1))
      BY <1>9, Zenon DEF Retreat
  <2> QED
      BY <1>0, <1>1, <1>2, <2>1, ScriptSteps, Zenon DEF world
<1> QED
    BY <1>3, <1>4, <1>5, <1>6, <1>7, <1>8, <1>9 DEF Handover

\* The watcher's part of the invariant is kept by every step.
LEMMA NextWatchInv == HandInv /\ HandInv' /\ WatchInv /\ [Next]_vars => WatchInv'
<1> SUFFICES ASSUME HandInv, HandInv', WatchInv, [Next]_vars PROVE WatchInv'
    OBVIOUS
<1>1. CASE Begin \/ StartSupport \/ Listen \/ Finish \/ Frame \/ Dies
    BY <1>1, RouterKeepsWatchInv, Zenon
<1>2. CASE UNCHANGED vars
  <2>1. UNCHANGED <<cfg, topics, helpers, palm, statuses, point, watch, calm, stage, arm, force, hand, cup, journal>>
      BY <1>2 DEF vars
  <2>2. TypeOK /\ stage.attempt \in 0 .. MaxAttempts /\ force.hits \in 0 .. Confirms /\ (stage.pc = "confirm" => force.hits < Confirms)
      BY DEF WatchInv, TypeOK, CountsDown, At
  <2> QED
      BY <2>1, <2>2, WatcherRests, Zenon DEF TypeOK, watching
<1> QED
    BY <1>1, <1>2, WatcherKeepsWatchInv, ScriptKeepsWatchInv, Zenon DEF Next

\* The whole invariant of the stage holds in every reachable state.
THEOREM HandoverInvariance == Spec => []HandoverInv
<1>1. HandoverInv /\ [Next]_vars => HandoverInv'
    BY NextHandInv, NextWatchInv DEF HandoverInv
<1>2. Init => HandoverInv
    BY InitHandInv, InitWatchInv DEF HandoverInv
<1> QED
    BY <1>1, <1>2, PTL DEF Spec

\* Every variable of the stage keeps its type, and every queue its bound.
THEOREM HandoverTypeCorrect == Spec => []TypeOK
BY HandoverInvariance, PTL DEF HandoverInv, WatchInv

\* The arm moves towards a person only after the watcher has heard nothing but ready statuses for as
\* long as a stable palm takes.
THEOREM TriggerCalm == Spec => []TriggerIsCalm
BY HandoverInvariance, PTL DEF HandoverInv, WatchInv
=============================================================================
