----------------------------- MODULE CupPickStage -----------------------------
(***************************************************************************)
(* The cup_pick stage.  The router counts what the cup classifier says     *)
(* until it has a route, and then waits for one child: the side grasp node *)
(* (one thread: camera loop, keys, whole pick attempts) or the uprighting  *)
(* node (a camera loop, a thread per pick that shuts rclpy down when it    *)
(* has the cup).  The child is a `ros2 launch` of several nodes, whose     *)
(* exit code may be 0 although a node of it has died: the router fails the *)
(* stage only if its reader has seen the node's death by then.  A stage    *)
(* that is done is journaled with the cup in the gripper.  Poses are       *)
(* names; whether fingers moved as told, and hold the cup, is open, as no  *)
(* code looks.                                                             *)
(***************************************************************************)
EXTENDS Naturals

CONSTANTS
    Required,       \* route_stable_required_samples
    Retries,        \* side_low_retry_attempts
    MaxRuns,        \* bound: starts of the stage, resumes included
    MaxKeys,        \* bound: keys the operator presses
    MaxTries        \* bound: pick attempts of a child

ASSUME PickAssumption ==
    /\ Required \in Nat \ {0} /\ Retries \in Nat
    /\ MaxRuns \in Nat \ {0} /\ MaxKeys \in Nat /\ MaxTries \in Nat

VARIABLES
    run,        \* the router's thread in the stage
    side,       \* the side grasp node
    up,         \* the uprighting node: its main thread, its pick thread
    arm, cup,   \* where they are
    hand,       \* the fingers; "unopened": told to open, and still closed
    scene,      \* the cup's box is in the planning scene
    astray      \* history: what happened that no code looks at

vars == <<run, side, up, arm, hand, cup, scene, astray>>
world == <<arm, hand, cup, scene, astray>>

Labels == {"upright", "lying"}
NoRun == [pc |-> "watch", latest |-> "none", label |-> "none", count |-> 0, decided |-> "none",
          fault |-> "none", runs |-> 1, keys |-> 0]
NoSide == [pc |-> "off", by |-> "auto", auto |-> TRUE, picked |-> FALSE, seen |-> FALSE, low |-> 0, tries |-> 0]
NoUp == [main |-> "off", work |-> "none", frozen |-> FALSE, auto |-> TRUE, closing |-> FALSE, ok |-> TRUE, tries |-> 0]

\* The observe and open_gripper stages are done.
Init ==
    /\ run = NoRun /\ side = NoSide /\ up = NoUp
    /\ arm = "view" /\ hand = "open" /\ cup = "table" /\ scene = FALSE /\ astray = {}

-----------------------------------------------------------------------------
(* The router.                                                             *)

Hear ==
    /\ run.pc = "watch"
    /\ \E l \in Labels \cup {"none"} : run' = [run EXCEPT !.latest = l]
    /\ UNCHANGED <<side, up, world>>

\* One round of the loop: the latest message is counted, again if it is not new.
Count ==
    /\ run.pc = "watch" /\ run.latest \in Labels
    /\ LET n == IF run.label # run.latest THEN 1 ELSE IF run.count < Required THEN run.count + 1 ELSE Required
       IN \E long \in BOOLEAN :      \* route_stable_min_sec
              run' = [run EXCEPT !.label = run.latest, !.count = n,
                                 !.decided = IF n >= Required /\ long THEN run.latest ELSE @]
    /\ UNCHANGED <<side, up, world>>

\* The view is held, or the time is up: a decision is never dropped again.
EndWatch ==
    /\ run.pc = "watch"
    /\ LET Ends(pc) == run' = [NoRun EXCEPT !.pc = pc, !.decided = run.decided, !.runs = run.runs, !.keys = run.keys]
       IN  \/ run.decided = "none" /\ Ends("failed") /\ UNCHANGED <<side, up>>
           \/ run.decided = "upright" /\ Ends("side") /\ side' = [NoSide EXCEPT !.pc = "loop"] /\ UNCHANGED up
           \/ run.decided = "lying" /\ Ends("up") /\ up' = [NoUp EXCEPT !.main = "init"] /\ UNCHANGED side
    /\ UNCHANGED world

\* Another node of the launch dies; the pick goes on.
OtherDies ==
    /\ run.pc \in {"side", "up"} /\ run.fault = "none"
    /\ run' = [run EXCEPT !.fault = "died"]
    /\ UNCHANGED <<side, up, world>>

\* The reader comes to the line that says that a node has died.
Report ==
    /\ run.pc \in {"side", "up", "left", "died"} /\ run.fault = "died"
    /\ run' = [run EXCEPT !.fault = "seen"]
    /\ UNCHANGED <<side, up, world>>

\* The launch has ended: its exit code may tell of a death, and what the reader has seen does.
Reap ==
    /\ run.pc \in {"left", "died"}
    /\ \/ run.fault # "seen" /\ run' = [run EXCEPT !.pc = "done"]
          /\ astray' = IF run.pc = "died" THEN astray \cup {"unseen"} ELSE astray
       \/ run.fault # "none" /\ run' = [run EXCEPT !.pc = "failed"] /\ UNCHANGED astray
    /\ UNCHANGED <<side, up, arm, hand, cup, scene>>

\* A resume of the failed stage: neither arm nor hand is brought back first.
Resume ==
    /\ run.pc = "failed" /\ run.runs < MaxRuns
    /\ run' = [NoRun EXCEPT !.runs = run.runs + 1, !.keys = run.keys]
    /\ astray' = IF cup = "hand" THEN astray \cup {"resumed"} ELSE astray
    /\ UNCHANGED <<side, up, arm, hand, cup, scene>>

Router == Hear \/ Count \/ EndWatch \/ OtherDies \/ Report \/ Reap \/ Resume

-----------------------------------------------------------------------------
(* Arm and hand.                                                           *)

\* An opening is sent; the fingers may not move (a safety circuit, a lost request).
Opens ==
    \/ hand' = "open" /\ cup' = IF cup = "hand" THEN "dropped" ELSE cup
    \/ hand # "open" /\ hand' = "unopened" /\ UNCHANGED cup

\* A closing is sent: the fingers close on the cup or on nothing, or do not move.
Closes ==
    /\ hand' \in {hand, "closed"}
    /\ \/ (cup = "hand" \/ (hand = "open" /\ hand' = "closed")) /\ cup' = "hand" /\ UNCHANGED astray
       \/ cup # "hand" /\ UNCHANGED cup /\ astray' = astray \cup {"missed"}

\* A closing that its sender did not live to see.
ClosesUnnoticed == hand' = "closed" /\ cup' \in IF hand = "open" THEN {cup, "hand"} ELSE {cup}

\* The process or the thread that waits for the motion is gone: the arm goes on.
Left == IF arm = "moving" THEN "adrift" ELSE arm

ArmStops ==
    /\ arm = "adrift" /\ arm' = "lost"
    /\ UNCHANGED <<run, side, up, hand, cup, scene, astray>>

-----------------------------------------------------------------------------
(* The side grasp node.                                                    *)

SideAt(pc) == side.pc = pc /\ run.pc = "side"
To(pc) == side' = [side EXCEPT !.pc = pc]
Exits(pc) == run' = [run EXCEPT !.pc = pc]
Dies == run' = [run EXCEPT !.pc = "died", !.fault = IF @ = "none" THEN "died" ELSE @]
Pressed == run.keys < MaxKeys /\ run' = [run EXCEPT !.keys = @ + 1]
Attempt == {"box", "clear", "check", "stage", "open", "lower", "unbox", "approach", "idle", "close", "fail"}

\* The head of the camera loop: leave after a pick, or look at a frame and start a pick.
Loop ==
    /\ SideAt("loop")
    /\ IF side.picked
       THEN side' = NoSide /\ Exits("left")
       ELSE /\ \E seen \in BOOLEAN, due \in BOOLEAN :    \* due: auto_pick_interval is over
                   side' = [side EXCEPT !.seen = seen, !.by = "auto",
                                        !.pc = IF side.auto /\ seen /\ due /\ ~ side.picked THEN "start" ELSE "key"]
            /\ UNCHANGED run
    /\ UNCHANGED <<up, world>>

\* waitKey, in the same round: the key may have been pressed during the pick.
Key ==
    /\ SideAt("key")
    /\ \/ To("loop") /\ UNCHANGED <<run, astray>>
       \/ run.keys < MaxKeys /\ side' = NoSide                                  \* ESC
          /\ run' = [run EXCEPT !.keys = @ + 1, !.pc = "left"]
          /\ astray' = astray \cup {"esc"}
       \/ Pressed /\ side' = [side EXCEPT !.pc = "start", !.by = "key"]         \* p
          /\ astray' = IF side.picked THEN astray \cup {"key"} ELSE astray
       \/ Pressed /\ side' = [side EXCEPT !.pc = "loop", !.auto = ~ @] /\ UNCHANGED astray
       \/ Pressed /\ side' = [side EXCEPT !.pc = "loop", !.picked = FALSE]      \* r
          /\ astray' = IF side.picked THEN astray \cup {"key"} ELSE astray
    /\ UNCHANGED <<up, arm, hand, cup, scene>>

\* A round that ends an attempt goes on behind the place that began it.
Back == IF side.by = "auto" THEN "key" ELSE "loop"

\* No detection, no motion stack, no depth: back without an attempt.
Start ==
    /\ SideAt("start")
    /\ \/ To(Back)
       \/ side.seen /\ side.tries < MaxTries
          /\ side' = [side EXCEPT !.pc = "box", !.tries = @ + 1, !.low = 0]
    /\ UNCHANGED <<run, up, world>>

AddBox ==
    /\ SideAt("box")
    /\ scene' = TRUE /\ To("clear")
    /\ UNCHANGED <<run, up, arm, hand, cup, astray>>

Target == [clear |-> "away", stage |-> "stage", lower |-> "low", approach |-> "grasp", home |-> "view"]
After == [clear |-> "check", stage |-> "open", lower |-> "unbox", approach |-> "idle"]
SideMoves == {"clear", "stage", "lower", "approach"}

\* Whether the arm still moves for somebody else is not looked at.
SideGoes ==
    /\ run.pc = "side" /\ side.pc \in SideMoves \cup {"home"} /\ arm # "moving"
    /\ arm' = "moving"
    /\ UNCHANGED <<run, side, up, hand, cup, scene, astray>>

SideArrives ==
    /\ run.pc = "side" /\ side.pc \in SideMoves /\ arm = "moving"
    /\ arm' = Target[side.pc] /\ To(After[side.pc])
    /\ UNCHANGED <<run, up, hand, cup, scene, astray>>

\* No plan, no execution, or not at the goal: the only candidate is out, but for the
\* retries of the lowering.
SideFails ==
    /\ run.pc = "side" /\ side.pc \in SideMoves
    /\ arm' = IF arm = "moving" THEN "lost" ELSE arm
    /\ IF side.pc = "lower" /\ side.low < Retries
       THEN side' = [side EXCEPT !.low = @ + 1]
       ELSE To("fail")
    /\ UNCHANGED <<run, up, hand, cup, scene, astray>>

\* can_plan_pose_goal of the candidate's ready pose.
Check ==
    /\ SideAt("check")
    /\ To("stage") \/ To("fail")
    /\ UNCHANGED <<run, up, world>>

\* Mutant: opened for the first attempt only.
OpenAtStageOnce ==
    /\ SideAt("open")
    /\ IF side.tries = 1 THEN Opens ELSE UNCHANGED <<hand, cup>>
    /\ To("lower")
    /\ UNCHANGED <<run, up, arm, scene, astray>>

\* open_gripper_max(wait=True): a gripper that is busy for too long fails the attempt, before
\* or after the command; one that is idle passes for open.
OpenAtStage ==
    /\ SideAt("open")
    /\ \/ Opens /\ (To("lower") \/ To("fail"))
       \/ UNCHANGED <<hand, cup>> /\ To("fail")
    /\ UNCHANGED <<run, up, arm, scene, astray>>

Unbox ==
    /\ SideAt("unbox")
    /\ scene' = FALSE /\ To("approach")
    /\ UNCHANGED <<run, up, arm, hand, cup, astray>>

Idle ==
    /\ SideAt("idle")
    /\ To("close") \/ To("fail")
    /\ UNCHANGED <<run, up, world>>

\* Mutant: the pick is not noted.
CloseForgets ==
    /\ SideAt("close")
    /\ Closes /\ scene' = FALSE
    /\ To(Back)
    /\ UNCHANGED <<run, up, arm>>

\* The pick counts as done; the box is removed (again), the arm stays.
Close ==
    /\ SideAt("close")
    /\ Closes /\ scene' = FALSE
    /\ side' = [side EXCEPT !.pc = Back, !.picked = TRUE]
    /\ UNCHANGED <<run, up, arm>>

\* Mutant: a pick that failed counts, too.
FailCounts ==
    /\ SideAt("fail")
    /\ scene' = FALSE
    /\ side' = [side EXCEPT !.pc = "home", !.picked = TRUE]
    /\ UNCHANGED <<run, up, arm, hand, cup, astray>>

\* Mutant: the box is removed after a success only.
FailKeepsBox ==
    /\ SideAt("fail")
    /\ To("home")
    /\ UNCHANGED <<run, up, world>>

\* The box is removed and the arm sent back.
Fail ==
    /\ SideAt("fail")
    /\ scene' = FALSE /\ To("home")
    /\ UNCHANGED <<run, up, arm, hand, cup, astray>>

\* move_camera_home, whether it gets there or not.
HomeEnds ==
    /\ SideAt("home")
    /\ \/ arm = "moving" /\ arm' \in {"view", "lost"}
       \/ arm # "moving" /\ UNCHANGED arm
    /\ To(Back)
    /\ UNCHANGED <<run, up, hand, cup, scene, astray>>

\* The node crashes, perhaps in the second after the closing was sent, and the launch with it.
SideDies ==
    /\ run.pc = "side"
    /\ side' = NoSide /\ Dies
    /\ \/ UNCHANGED <<hand, cup>>
       \/ side.pc = "close" /\ ClosesUnnoticed
    /\ astray' = IF scene THEN astray \cup {"died"} ELSE astray
    /\ arm' = Left
    /\ UNCHANGED <<up, scene>>

SideStep ==
    \/ Loop \/ Key \/ Start \/ AddBox \/ SideGoes \/ SideArrives \/ SideFails \/ Check \/ OpenAtStage
    \/ Unbox \/ Idle \/ Close \/ Fail \/ HomeEnds \/ SideDies

-----------------------------------------------------------------------------
(* The uprighting node.                                                    *)

MainAt(pc) == up.main = pc /\ run.pc = "up"
Working(pc) == up.work = pc /\ run.pc = "up"
Works(pc) == up' = [up EXCEPT !.work = pc]

\* The hand is told to open here, and before no pick.
InitializeHome ==
    /\ MainAt("init")
    /\ Opens /\ up' = [up EXCEPT !.main = "head"]
    /\ UNCHANGED <<run, arm, scene, astray>>

\* Leaving main() ends the process and its daemon threads.
Leave == up' = NoUp /\ Exits("left")

\* The loop's condition, and the frozen frame of a pick that is under way.
Head ==
    /\ MainAt("head")
    /\ \/ ~ up.ok /\ Leave /\ UNCHANGED astray
       \/ up.ok /\ up.frozen /\ UNCHANGED <<run, up, astray>>
       \/ up.ok /\ up.frozen /\ run.keys < MaxKeys                              \* ESC
          /\ up' = NoUp /\ run' = [run EXCEPT !.keys = @ + 1, !.pc = "left"]
          /\ astray' = astray \cup {"esc"}
       \/ up.ok /\ ~ up.frozen /\ up' = [up EXCEPT !.main = "live"] /\ UNCHANGED <<run, astray>>
    /\ arm' = IF up'.main = "off" THEN Left ELSE arm
    /\ UNCHANGED <<side, hand, cup, scene>>

\* Starts a pick thread; the one before may be about to shut down.
PickInThread == up' = [up EXCEPT !.main = "head", !.work = "above", !.frozen = TRUE, !.tries = @ + 1]
Late == IF up.closing \/ ~ up.ok THEN {"late"} ELSE {}

\* A live frame: an auto pick, or a key.
Live ==
    /\ MainAt("live")
    /\ \/ up.auto /\ up.tries < MaxTries /\ PickInThread /\ astray' = astray \cup Late /\ UNCHANGED run
       \/ up' = [up EXCEPT !.main = "head"] /\ UNCHANGED <<run, astray>>
       \/ Pressed /\ up.tries < MaxTries /\ PickInThread /\ astray' = astray \cup Late
       \/ Pressed /\ up' = [up EXCEPT !.main = "head", !.auto = ~ @] /\ UNCHANGED astray
       \/ run.keys < MaxKeys /\ up' = NoUp                                      \* ESC
          /\ run' = [run EXCEPT !.keys = @ + 1, !.pc = "left"]
          /\ astray' = astray \cup {"esc"}
    /\ arm' = IF up'.main = "off" THEN Left ELSE arm
    /\ UNCHANGED <<side, hand, cup, scene>>

UpMoves == {"above", "align", "down", "lift", "home"}
UpTarget == [above |-> "stage", align |-> "stage", down |-> "grasp", lift |-> "stage", home |-> "view"]
UpAfter == [above |-> "align", align |-> "down", down |-> "close", lift |-> "home", home |-> "won"]

\* After shutdown no goal can be sent; an arm that still moves for an earlier goal gets one.
UpGoes ==
    /\ run.pc = "up" /\ up.work \in UpMoves /\ arm # "moving" /\ up.ok
    /\ arm' = "moving"
    /\ UNCHANGED <<run, side, up, hand, cup, scene, astray>>

UpArrives ==
    /\ run.pc = "up" /\ up.work \in UpMoves /\ arm = "moving"
    /\ arm' = UpTarget[up.work] /\ Works(UpAfter[up.work])
    /\ UNCHANGED <<run, side, hand, cup, scene, astray>>

\* No target or plan, an error, the time is up while the arm still moves, or the goal is
\* accepted when nobody waits for it any more.
UpFails ==
    /\ run.pc = "up" /\ up.work \in UpMoves
    /\ \/ arm # "moving" /\ UNCHANGED arm
       \/ arm = "moving" /\ arm' \in {"lost", "adrift"}
       \/ up.ok /\ arm' = "adrift"
    /\ Works(IF up.work = "lift" THEN "release" ELSE "lost")
    /\ astray' = IF up.work = "home" THEN astray \cup {"home"} ELSE astray
    /\ UNCHANGED <<run, side, hand, cup, scene>>

\* A call of MoveIt or of the gripper raises and ends the pick, without a release.
UpRaises ==
    /\ run.pc = "up" /\ up.work \in UpMoves \cup {"close", "release"}
    /\ \/ UNCHANGED <<hand, cup>>
       \/ up.work = "close" /\ ClosesUnnoticed
    /\ Works("lost") /\ arm' = Left
    /\ astray' = IF hand' = "closed" THEN astray \cup {"raised"} ELSE astray
    /\ UNCHANGED <<run, side, scene>>

UpCloses ==
    /\ Working("close")
    /\ Closes /\ Works("lift")
    /\ UNCHANGED <<run, side, arm, scene>>

\* The lift failed: let go, wherever the arm is.
EmergencyRelease ==
    /\ Working("release")
    /\ Opens /\ Works("lost")
    /\ astray' = IF cup = "hand" THEN astray \cup {"lift"} ELSE astray
    /\ UNCHANGED <<run, side, arm, scene>>

\* picking and the frozen frame are reset, and then a success shuts rclpy down.
WorkEnds ==
    /\ run.pc = "up" /\ up.work \in {"won", "lost"}
    /\ up' = [up EXCEPT !.work = "none", !.frozen = FALSE, !.closing = @ \/ up.work = "won"]
    /\ UNCHANGED <<run, side, world>>

Shutdown ==
    /\ run.pc = "up" /\ up.closing
    /\ up' = [up EXCEPT !.ok = FALSE, !.closing = FALSE]
    /\ UNCHANGED <<run, side, world>>

UpDies ==
    /\ run.pc = "up"
    /\ up' = NoUp /\ Dies /\ arm' = Left
    /\ UNCHANGED <<side, hand, cup, scene, astray>>

UpStep ==
    \/ InitializeHome /\ UNCHANGED side
    \/ Head \/ Live \/ UpGoes \/ UpArrives \/ UpFails \/ UpRaises \/ UpCloses \/ EmergencyRelease
    \/ WorkEnds \/ Shutdown \/ UpDies

-----------------------------------------------------------------------------
Next == Router \/ ArmStops \/ SideStep \/ UpStep

Spec == Init /\ [][Next]_vars

-----------------------------------------------------------------------------
RunPlaces == {"watch", "side", "up", "left", "died", "done", "failed"}
RunRecords ==
    [pc : RunPlaces, latest : Labels \cup {"none"}, label : Labels \cup {"none"},
     count : 0 .. Required, decided : Labels \cup {"none"},
     fault : {"none", "died", "seen"}, runs : 1 .. MaxRuns, keys : 0 .. MaxKeys]
SidePlaces == {"off", "loop", "key", "start", "home"} \cup Attempt
SideRecords ==
    [pc : SidePlaces, by : {"auto", "key"}, auto : BOOLEAN, picked : BOOLEAN, seen : BOOLEAN,
     low : 0 .. Retries, tries : 0 .. MaxTries]
WorkPlaces == {"none", "close", "release", "won", "lost"} \cup UpMoves
UpRecords ==
    [main : {"off", "init", "head", "live"}, work : WorkPlaces, frozen : BOOLEAN, auto : BOOLEAN,
     closing : BOOLEAN, ok : BOOLEAN, tries : 0 .. MaxTries]

TypeOK ==
    /\ run \in RunRecords /\ side \in SideRecords /\ up \in UpRecords
    /\ arm \in {"view", "away", "stage", "low", "grasp", "moving", "adrift", "lost"}
    /\ hand \in {"open", "closed", "unopened"} /\ cup \in {"table", "hand", "dropped"} /\ scene \in BOOLEAN
    /\ astray \subseteq {"resumed", "missed", "esc", "key", "late", "home", "lift", "died", "unseen", "raised"}

\* What the journal says of a finished cup_pick, cup in the gripper and nothing under way,
\* is so, whatever failed before in the attempts of either route; but for ESC, a p or r
\* key read after the pick, fingers that closed on nothing, a pick thread that is started
\* between the end of the one before and its shutdown of rclpy, and a dead node whose death
\* neither the exit code nor the reader has told in time.
CupIsWhereJournaled ==
    run.pc = "done" /\ astray \cap {"esc", "key", "missed", "late", "unseen"} = {}
        => cup = "hand" /\ arm = IF run.decided = "upright" THEN "grasp" ELSE "view"

\* A cup that was picked up is dropped only by the release after a failed lift, by a key
\* read after the pick, or by the resume of a stage that failed with the cup in the hand.
HeldCupIsKept == cup = "dropped" => astray \cap {"lift", "key", "resumed"} # {}

\* Fingers that come down beside the cup were told to open since they closed, in every
\* attempt and retry of both nodes, whatever an earlier stage left; but for the uprighting
\* node's retries after the way home has failed or a call has raised.
ComesOpen ==
    /\ side.pc \in {"lower", "unbox", "approach", "idle", "close"} => hand # "closed"
    /\ up.work \in {"down", "close"} /\ hand = "closed" => astray \cap {"home", "late", "raised"} # {}

\* No box stands for a cup in the planning scene unless an attempt is under way, so later
\* motions are not planned around a cup that is gone; but after a node that died.
SceneIsCleared == scene => side.pc \in Attempt \/ "died" \in astray

-----------------------------------------------------------------------------
(* The inductive invariant.                                                *)

\* One child at a time, on the route that was decided.
OneChild ==
    /\ run.pc # "side" => side = NoSide
    /\ run.pc # "up" => up = NoUp
    /\ run.pc = "side" => side.pc # "off" /\ run.decided = "upright"
    /\ run.pc = "up" => up.main # "off" /\ run.decided = "lying"
    /\ run.pc \in {"left", "died", "done"} => run.decided \in Labels
    /\ run.pc = "died" => run.fault # "none"

\* A node that has left of its own has done its pick; no property sees the state between.
LeftKnown ==
    run.pc = "left" /\ astray \cap {"esc", "key", "missed", "late"} = {}
        => cup = "hand" /\ arm = IF run.decided = "upright" THEN "grasp" ELSE "view"

\* A pick thread works behind a frozen frame; before the first one the node is as it came up.
OneThread ==
    /\ up.work # "none" => up.frozen /\ up.main = "head"
    /\ up.main = "init" => up = [NoUp EXCEPT !.main = "init"]

\* Where the side grasp node's position says what arm and hand are like.
SideKnown ==
    /\ side.picked /\ "key" \notin astray => side.pc \in {"loop", "key"}
    /\ side.picked /\ astray \cap {"key", "missed"} = {} => cup = "hand" /\ arm = "grasp"
    /\ side.pc \in {"idle", "close"} => arm = "grasp"
    /\ side.pc \in {"lower", "unbox", "approach", "idle", "close"} => hand # "closed"

\* The same for the pick thread, and for what it leaves behind.
UpEnding == up.closing \/ ~ up.ok
UpKnown ==
    /\ UpEnding /\ "late" \notin astray => up.work = "none"
    /\ (UpEnding \/ up.work = "won") /\ astray \cap {"late", "missed"} = {} => cup = "hand" /\ arm = "view"
    /\ up.work \in {"lift", "home"} /\ "missed" \notin astray => cup = "hand"
    /\ up.main \in {"head", "live"} /\ astray \cap {"home", "late", "raised"} = {} /\ hand = "closed"
         => up.work \in {"lift", "release", "home", "won"} \/ UpEnding

\* A cup in the gripper was put there by the child that runs, which knows it, or by one that has ended.
HeldCupIsKnown ==
    cup = "hand" /\ astray \cap {"key", "resumed"} = {} =>
        run.pc # "watch" /\ (run.pc = "side" => side.picked) /\ up.main # "init"

\* All of it: the three properties of the stage and what they rest on.
PickInv ==
    /\ TypeOK /\ OneChild /\ LeftKnown /\ OneThread /\ SideKnown /\ UpKnown /\ HeldCupIsKnown /\ SceneIsCleared
    /\ CupIsWhereJournaled /\ HeldCupIsKept /\ ComesOpen
=============================================================================
