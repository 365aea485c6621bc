---------------------------- MODULE LidShakeStage ----------------------------
(***************************************************************************)
(* The lid and shake stage: a shell chain starts the lid launch (a camera  *)
(* move, then the lid planner node) and a waiter that listens for the      *)
(* planner's status; after a success it picks the cup from its holder and  *)
(* shakes it.  A failed attempt is resumed from the router's journal.  The *)
(* chain ends only the launch's shell: the planner of an earlier attempt   *)
(* lives on and hears the next requests, too.  A planner's motion sequence *)
(* is the list of steps that its parameters select, run by a thread of its *)
(* own.  A status is published and heard in one step: the waiter's timeout *)
(* may come before any of them.                                            *)
(***************************************************************************)
EXTENDS Naturals, Sequences, FiniteSets, SequencesExt

CONSTANTS
    Configs,        \* parameters of the planner: [j6, refine, goOn, twist]
    MaxAttempts,    \* bound: attempts at the stage, each with a launch of its own
    MaxRequests     \* bound: accepted grip requests

Twists == {"none", "steps", "periodic", "force"}
Attempts == 1 .. MaxAttempts

ASSUME LidAssumption ==
    /\ Configs \subseteq [j6 : BOOLEAN, refine : BOOLEAN, goOn : BOOLEAN, twist : Twists]
    /\ MaxAttempts \in Nat /\ MaxRequests \in Nat

VARIABLES
    cfg,            \* the parameters, fixed
    launch,         \* attempt -> its launch: none, view (camera move), up, orphan (shell killed), gone
    planner,        \* attempt -> its planner's sequence thread [pc, at]
    finished,       \* history: attempts whose planner ran a whole sequence
    requests,       \* accepted grip requests so far
    force,          \* attempts whose planner may have force or compliance control on
    hand, lid, cup, \* the gripper, where the lid is, where the cup is
    waiter,         \* [pc, started, result]
    chain,          \* [pc, full, attempt, rc]
    journal         \* the router's record: lid_closed, cup held for shaking, shake_done

vars == <<cfg, launch, planner, finished, requests, force, hand, lid, cup, waiter, chain,
          journal>>
world == <<hand, lid, cup>>
chaining == <<chain, journal>>
nodes == <<cfg, launch, planner, finished, requests, force>>

Init ==
    /\ cfg \in Configs
    /\ launch = [a \in Attempts |-> "none"]
    /\ planner = [a \in Attempts |-> [pc |-> "idle", at |-> 0]]
    /\ finished = {} /\ requests = 0 /\ force = {}
    /\ hand = "open" /\ lid = "table" /\ cup = "holder"
    /\ waiter = [pc |-> "off", started |-> FALSE, result |-> "none"]
    /\ chain = [pc |-> "idle", full |-> TRUE, attempt |-> 0, rc |-> "none"]
    /\ journal = [closed |-> FALSE, held |-> FALSE, shaken |-> FALSE]

-----------------------------------------------------------------------------
(* What the waiter makes of a status.                                      *)

Alive(a) == launch[a] \in {"up", "orphan"}

\* A status of the kind "done" succeeds, "failed" ends the sequence in motion, "refused" is a
\* failure before any motion (real_motion is FALSE), "moving" any other status of a sequence.
\* Failures before the first sign of a sequence are ignored.
Heard(status) ==
    IF waiter.pc # "listens" THEN waiter
    ELSE [waiter EXCEPT
            !.started = @ \/ status \in {"moving", "done", "failed"},
            !.pc = IF status = "done" \/ status = "failed" \/ (status = "refused" /\ waiter.started)
                   THEN "over" ELSE @,
            !.result = CASE status = "done" -> "ok"
                         [] status = "failed" \/ (status = "refused" /\ waiter.started) -> "failed"
                         [] OTHER -> @]

\* Mutant: whatever the waiter ends on is journaled as a closed lid.
TellAny(status) ==
    /\ waiter' = Heard(status)
    /\ journal' = [journal EXCEPT !.closed = @ \/ waiter'.pc = "over"]

\* The waiter prints the status it ends on, and the router journals what is printed.
Tell(status) ==
    /\ waiter' = Heard(status)
    /\ journal' = [journal EXCEPT !.closed = @ \/ waiter'.result = "ok"]

-----------------------------------------------------------------------------
(* The planner's sequence.                                                 *)

\* "down" stands for the alignment of the wrist and the descent, "seat" and "turn" for all of
\* their strokes.  "error" is a name the code never defines.
PickSteps(c) ==
    IF c.j6
    THEN <<"check", "preopen", "check", "approach">> \o (IF c.refine THEN <<"refine">> ELSE <<>>)
             \o <<"down", "grasp", "lift">>
    ELSE <<"check", "preopen">>
             \o (IF c.refine THEN <<"approach", "refine", "check", "down", "grasp", "lift">> ELSE <<"error">>)

TwistSteps(c) ==
    CASE c.twist = "none" -> <<>>
      [] c.twist = "steps" -> <<"check", "transfer", "turn", "home">>
      [] c.twist = "periodic" -> <<"check", "transfer", "seat", "turn", "open", "home">>
      [] c.twist = "force" -> <<"check", "transfer", "force", "seat", "turn", "release", "open", "home">>

Steps == PickSteps(cfg) \o TwistSteps(cfg)
Step(a) == Steps[planner[a].at]

\* A failure of these is recovered from: force control off, then the release motion.
Recovers(step) == cfg.twist \in {"force", "periodic"} /\ step \in {"force", "seat", "turn"}

Goes(a, pc, at) == planner' = [planner EXCEPT ![a] = [pc |-> pc, at |-> at]]

\* The rest of a step: the sequence goes on or has come to its end.
StepOn(a) ==
    IF planner[a].at < Len(Steps)
    THEN Goes(a, "run", planner[a].at + 1) /\ Tell("moving") /\ UNCHANGED finished
    ELSE Goes(a, "idle", 0) /\ Tell("done") /\ finished' = finished \cup {a}

\* A failure of the step, published as `status` ("" for none), ends the sequence.
StepOver(a, status) ==
    /\ Goes(a, "idle", 0)
    /\ IF status = "" THEN UNCHANGED <<waiter, journal>> ELSE Tell(status)
    /\ UNCHANGED finished

Running(a) == Alive(a) /\ planner[a].pc = "run"
Fixed == UNCHANGED <<cfg, launch, requests, chain>>

\* Gates, parameters, service discovery and inverse kinematics.
CheckStep(a) ==
    /\ Running(a) /\ Step(a) = "check"
    /\ StepOn(a) \/ StepOver(a, "refused")
    /\ Fixed /\ UNCHANGED <<force, world>>

\* MoveLine and MoveJoint requests with their verification; a refinement may also give up, or
\* its alignment fails the check of inverse kinematics, before it moves.
MoveStep(a) ==
    /\ Running(a) /\ Step(a) \in {"approach", "refine", "down", "lift", "transfer", "home", "error"}
    /\ \/ Step(a) # "error" /\ StepOn(a)
       \/ StepOver(a, "failed")
       \/ Step(a) = "refine" /\ StepOver(a, "refused")
    /\ Fixed /\ UNCHANGED <<force, world>>

\* The pre-seat and the turns: a failure under force control is recovered from.
TurnStep(a) ==
    /\ Running(a) /\ Step(a) \in {"seat", "turn"}
    /\ \/ StepOn(a)
       \/ ~Recovers(Step(a)) /\ StepOver(a, "failed")
       \/ /\ Recovers(Step(a)) /\ Goes(a, "recover", planner[a].at)
          /\ Tell("failed") /\ UNCHANGED finished
    /\ lid' = IF Step(a) = "turn" /\ lid = "hand" THEN "turned" ELSE lid
    /\ Fixed /\ UNCHANGED <<force, hand, cup>>

\* What the gripper lets go of when it opens.
Opened ==
    /\ hand' = "open"
    /\ lid' = CASE lid = "hand" -> "table" [] lid = "turned" -> "cup" [] OTHER -> lid
    /\ cup' = IF cup = "hand" THEN "dropped" ELSE cup

\* _call_gripper_sync("preopen"): opened; no answer in time, when it may have opened; or an
\* answer that it failed, after which the sequence ends without a word.
OpenStep(a) ==
    /\ Running(a) /\ Step(a) \in {"preopen", "open"}
    /\ \/ Opened /\ StepOn(a)
       \/ (Opened \/ UNCHANGED world) /\ StepOver(a, "failed")
       \/ UNCHANGED world /\ StepOver(a, "")
    /\ Fixed /\ UNCHANGED force

Closed == hand' = "closed" /\ lid' = (IF lid = "table" THEN "hand" ELSE lid) /\ UNCHANGED cup

\* _finish_grasp_at_current_pose: a grasp that failed may be gone on from.
GraspStep(a) ==
    /\ Running(a) /\ Step(a) = "grasp"
    /\ \/ Closed /\ StepOn(a)
       \/ (Closed \/ UNCHANGED world) /\ IF cfg.goOn THEN StepOn(a) ELSE StepOver(a, "failed")
    /\ Fixed /\ UNCHANGED force

\* _enable_lid_twist_force: compliance and force are on, or a call failed after one was on.
ForceStep(a) ==
    /\ Running(a) /\ Step(a) = "force"
    /\ \/ force' = force \cup {a} /\ StepOn(a)
       \/ /\ force' \in {force, force \cup {a}} /\ Goes(a, "recover", planner[a].at)
          /\ Tell("failed") /\ UNCHANGED finished
    /\ Fixed /\ UNCHANGED world

\* Mutant: a release that failed is gone on from.
ReleaseStepGoesOn(a) ==
    /\ Running(a) /\ Step(a) = "release"
    /\ StepOn(a) /\ force' \in {force, force \ {a}}
    /\ Fixed /\ UNCHANGED world

\* The finally of a sequence that went well: no release, no opening and no release motion.
ReleaseStep(a) ==
    /\ Running(a) /\ Step(a) = "release"
    /\ \/ StepOn(a) /\ force' = force \ {a}
       \/ StepOver(a, "failed") /\ force' = force
    /\ Fixed /\ UNCHANGED world

\* _recover_lid_twist_abort: the result of the release is not looked at.
Recover(a) ==
    /\ Alive(a) /\ planner[a].pc = "recover"
    /\ Goes(a, "recoverHome", planner[a].at) /\ force' \in {force, force \ {a}}
    /\ Fixed /\ UNCHANGED <<finished, waiter, journal, world>>

\* The release motion of a recovery, then the finally if force control had been enabled.
RecoverHome(a) ==
    /\ Alive(a) /\ planner[a].pc = "recoverHome"
    /\ IF cfg.twist = "force" /\ Step(a) # "force" THEN Goes(a, "finally", planner[a].at) ELSE Goes(a, "idle", 0)
    /\ Tell("moving") \/ Tell("failed")
    /\ Fixed /\ UNCHANGED <<finished, force, world>>

Finally(a) ==
    /\ Alive(a) /\ planner[a].pc = "finally"
    /\ Goes(a, "idle", 0) /\ force' \in {force, force \ {a}} /\ Tell("moving")
    /\ Fixed /\ UNCHANGED <<finished, world>>

-----------------------------------------------------------------------------
(* The launches and the requests.                                          *)

\* The camera move of the launch's script has ended and the nodes are up.
LaunchUp(a) ==
    /\ launch[a] = "view" /\ launch' = [launch EXCEPT ![a] = "up"]
    /\ UNCHANGED <<cfg, planner, finished, requests, force, world, waiter, chaining>>

\* The camera move fails, an executable is missing, or ros2 launch ends with its nodes: a
\* sequence under way is cut off.
LaunchExits(a) ==
    /\ launch[a] \in {"view", "up", "orphan"} /\ launch' = [launch EXCEPT ![a] = "gone"]
    /\ Goes(a, IF planner[a].pc = "idle" THEN "idle" ELSE "dead", 0)
    /\ UNCHANGED <<cfg, finished, requests, force, world, waiter, chaining>>

\* An accepted request, by the p key or once by a stable detection: every planner that is
\* alive and idle starts a sequence, one that is busy ignores it.
Request ==
    /\ \E a \in Attempts : Alive(a)
    /\ requests < MaxRequests /\ requests' = requests + 1
    /\ LET Starts == {a \in Attempts : Alive(a) /\ planner[a].pc = "idle"}
       IN planner' = [a \in Attempts |-> IF a \in Starts THEN [pc |-> "run", at |-> 1] ELSE planner[a]]
    /\ Tell("moving")
    /\ UNCHANGED <<cfg, launch, finished, force, world, chain>>

\* A planner that is idle plans for every pose; a plan that fails is said to have failed.
PosePlanFails ==
    /\ \E a \in Attempts : Alive(a) /\ planner[a].pc = "idle"
    /\ Heard("refused") # waiter /\ Tell("refused")
    /\ UNCHANGED <<nodes, world, chain>>

-----------------------------------------------------------------------------
(* The waiter and the chain.                                               *)

WaiterListens ==
    /\ waiter.pc = "starts" /\ waiter' = [waiter EXCEPT !.pc = "listens"]
    /\ UNCHANGED <<nodes, world, chaining>>

\* Mutant: the clock of the waiter starts with the sequence.
WaiterTimesOutLate ==
    /\ waiter.pc = "listens" /\ waiter.started /\ waiter' = [waiter EXCEPT !.pc = "over", !.result = "timeout"]
    /\ UNCHANGED <<nodes, world, chaining>>

WaiterTimesOut ==
    /\ waiter.pc = "listens" /\ waiter' = [waiter EXCEPT !.pc = "over", !.result = "timeout"]
    /\ UNCHANGED <<nodes, world, chaining>>

\* Mutant: a resume does not look at what is held.
BeginForgets ==
    /\ chain.pc = "idle" /\ chain.attempt < MaxAttempts /\ chain.rc # "ok"
    /\ LET a == chain.attempt + 1
       IN IF ~journal.closed
          THEN /\ chain' = [pc |-> "wait", full |-> TRUE, attempt |-> a, rc |-> "none"]
               /\ launch' = [launch EXCEPT ![a] = "view"]
               /\ waiter' = [pc |-> "starts", started |-> FALSE, result |-> "none"]
          ELSE /\ chain' = [pc |-> IF journal.shaken THEN "true" ELSE "open", full |-> FALSE, attempt |-> a, rc |-> "none"]
               /\ UNCHANGED <<launch, waiter>>
    /\ UNCHANGED <<cfg, planner, finished, requests, force, world, journal>>

\* _lid_shake_command_for_current_resume_state: nothing to do, the shake, the holder pick and
\* the shake, or the whole chain.
Begin ==
    /\ chain.pc = "idle" /\ chain.attempt < MaxAttempts /\ chain.rc # "ok"
    /\ LET a == chain.attempt + 1
           From(pc) == [pc |-> pc, full |-> FALSE, attempt |-> a, rc |-> "none"]
       IN IF journal.shaken \/ journal.closed
          THEN /\ chain' = From(IF journal.shaken THEN "true" ELSE IF journal.held THEN "shake" ELSE "open")
               /\ UNCHANGED <<launch, waiter>>
          ELSE /\ chain' = [From("wait") EXCEPT !.full = TRUE]
               /\ launch' = [launch EXCEPT ![a] = "view"]
               /\ waiter' = [pc |-> "starts", started |-> FALSE, result |-> "none"]
    /\ UNCHANGED <<cfg, planner, finished, requests, force, world, journal>>

End(rc) == chain' = [chain EXCEPT !.pc = "idle", !.rc = rc]
At(pc) == chain' = [chain EXCEPT !.pc = pc]

\* The launch's shell is ended: what it had started lives on.
KillLaunch(a) ==
    launch' = [launch EXCEPT ![a] = CASE @ = "up" -> "orphan" [] @ = "view" -> "gone" [] OTHER -> @]

\* Mutant: the chain goes on however the waiter has ended.
WaiterSeenAny ==
    /\ chain.pc = "wait" /\ waiter.pc = "over"
    /\ waiter' = [waiter EXCEPT !.pc = "off"] /\ KillLaunch(chain.attempt) /\ At("open")
    /\ UNCHANGED <<cfg, planner, finished, requests, force, world, journal>>

WaiterSeen ==
    /\ chain.pc = "wait" /\ waiter.pc = "over"
    /\ waiter' = [waiter EXCEPT !.pc = "off"] /\ KillLaunch(chain.attempt)
    /\ IF waiter.result = "ok" THEN At("open") ELSE End("failed")
    /\ UNCHANGED <<cfg, planner, finished, requests, force, world, journal>>

\* The launch was the first to end, and the waiter's process is still there, although it may
\* have heard its last status: the chain looks at it once more after a second.
LaunchSeen ==
    /\ chain.pc = "wait" /\ launch[chain.attempt] = "gone"
    /\ At("grace")
    /\ UNCHANGED <<nodes, world, waiter, journal>>

\* A waiter that has not exited by then is terminated, even one that has heard a success.
Grace ==
    /\ chain.pc = "grace"
    /\ (waiter.pc = "over" /\ waiter.result = "ok" /\ At("open")) \/ End("failed")
    /\ waiter' = [waiter EXCEPT !.pc = "off"]
    /\ UNCHANGED <<nodes, world, journal>>

\* pick_from_cup_holder_side_grip: RG2 open and approach, grasp, lift; the router journals
\* the cup as held when it reads that the pick was completed.
HolderOpen ==
    /\ chain.pc = "open"
    /\ Opened \/ UNCHANGED world
    /\ (hand' = "open" /\ At("grasp")) \/ End("failed")
    /\ UNCHANGED <<nodes, waiter, journal>>

HolderGrasp ==
    /\ chain.pc = "grasp"
    /\ \/ hand' = "closed" /\ cup' = (IF cup = "holder" THEN "hand" ELSE cup) /\ (At("lift") \/ End("failed"))
       \/ UNCHANGED <<hand, cup>> /\ End("failed")
    /\ UNCHANGED <<nodes, lid, waiter, journal>>

HolderLift ==
    /\ chain.pc = "lift"
    /\ \/ /\ At(IF chain.full THEN "scene" ELSE "shake")
          /\ journal' = [journal EXCEPT !.held = TRUE]
       \/ End("failed") /\ UNCHANGED journal
    /\ UNCHANGED <<nodes, world, waiter>>

\* The two updates of the collision scene.
Scene ==
    /\ chain.pc = "scene" /\ (At("shake") \/ End("failed"))
    /\ UNCHANGED <<nodes, world, waiter, journal>>

Shake ==
    /\ chain.pc = "shake"
    /\ \/ At("camera") /\ journal' = [journal EXCEPT !.shaken = TRUE]
       \/ End("failed") /\ UNCHANGED journal
    /\ UNCHANGED <<nodes, world, waiter>>

CameraPose ==
    /\ chain.pc \in {"camera", "true"}
    /\ End("ok") \/ (chain.pc = "camera" /\ End("failed"))
    /\ UNCHANGED <<nodes, world, waiter, journal>>

-----------------------------------------------------------------------------
SequenceStep(a) ==
    \/ CheckStep(a) \/ MoveStep(a) \/ TurnStep(a) \/ OpenStep(a) \/ GraspStep(a) \/ ForceStep(a)
    \/ ReleaseStep(a) \/ Recover(a) \/ RecoverHome(a) \/ Finally(a)

Waiting == WaiterSeen \/ LaunchSeen \/ Grace
Shaking == HolderOpen \/ HolderGrasp \/ HolderLift \/ Scene \/ Shake \/ CameraPose

Next ==
    \/ \E a \in Attempts : SequenceStep(a) \/ LaunchUp(a) \/ LaunchExits(a)
    \/ Request \/ PosePlanFails \/ WaiterListens \/ WaiterTimesOut
    \/ Begin \/ Waiting \/ Shaking

Spec == Init /\ [][Next]_vars

\* The chain's loop polls, each of its programs ends, and the waiter has a timeout.  Nothing is
\* asked of the operator, of the detector or of the planner.
FairSpec ==
    /\ Spec /\ WF_vars(Waiting) /\ WF_vars(Shaking) /\ WF_vars(WaiterListens) /\ WF_vars(WaiterTimesOut)

-----------------------------------------------------------------------------
ChainStates == {"idle", "wait", "grace", "open", "grasp", "lift", "scene", "shake", "camera", "true"}

\* The types of the variables.
TypeOK ==
    /\ cfg \in Configs /\ launch \in [Attempts -> {"none", "view", "up", "orphan", "gone"}]
    /\ planner \in [Attempts -> [pc : {"idle", "run", "recover", "recoverHome", "finally", "dead"}, at : 0 .. Len(Steps)]]
    /\ finished \subseteq Attempts /\ force \subseteq Attempts
    /\ requests \in 0 .. MaxRequests
    /\ hand \in {"open", "closed"} /\ lid \in {"table", "hand", "turned", "cup"}
    /\ cup \in {"holder", "hand", "dropped"}
    /\ waiter \in [pc : {"off", "starts", "listens", "over"}, started : BOOLEAN,
                   result : {"none", "ok", "failed", "timeout"}]
    /\ chain \in [pc : ChainStates, full : BOOLEAN, attempt : 0 .. MaxAttempts, rc : {"none", "ok", "failed"}]
    /\ journal \in [closed : BOOLEAN, held : BOOLEAN, shaken : BOOLEAN]

\* The cup is taken from the holder, and the lid journalled as closed, only after some planner
\* has run a whole sequence; the cup is shaken only after its pick was completed, and a stage
\* that ends well has shaken it, whatever attempts came before.
ShakeIsEarned ==
    /\ chain.pc \notin {"idle", "wait", "grace"} \/ journal.closed => finished # {}
    /\ chain.pc \in {"scene", "shake"} \/ journal.shaken => journal.held
    /\ chain.rc = "ok" => journal.shaken

\* Once the pick was completed the chain does not open the gripper again: a resume after a
\* failed scene update, shake or camera move goes on with the cup in the hand.
PickedCupIsKept == journal.held => chain.pc # "open"

\* In a sequence that goes well the gripper opens and the arm leaves only after force and
\* compliance control were released.
OpensWithoutForce ==
    \A a \in Attempts :
        planner[a].pc = "run" /\ (\E k \in 1 .. (planner[a].at - 1) : Steps[k] = "release") => a \notin force

\* Every attempt at the stage comes to an end, even if the planner never says another word.
StageEnds == chain.pc # "idle" ~> chain.pc = "idle"

-----------------------------------------------------------------------------
(* The inductive invariant of the stage.                                   *)

\* The lid is journalled as closed only with a whole sequence behind it; the waiter's success is
\* journalled as it is heard, and past the waiting the chain, and what it journals, relies on it.
ClosedFirst ==
    /\ journal.closed => finished # {}
    /\ waiter.result = "ok" => journal.closed
    /\ chain.pc \notin {"idle", "wait", "grace"} \/ journal.held \/ journal.shaken => journal.closed

\* Up to the end of the pick the cup is not journalled as held, and from then on it is; the chain
\* gets to the camera's pose, or has nothing to do, only after the shake.
HeldInOrder ==
    /\ chain.pc \in {"wait", "grace", "open", "grasp", "lift"} => ~journal.held
    /\ chain.pc \in {"camera", "true"} => journal.shaken

\* All of it, with the safety properties of the stage.
LidInv ==
    TypeOK /\ ClosedFirst /\ HeldInOrder /\ ShakeIsEarned /\ PickedCupIsKept /\ OpensWithoutForce

-----------------------------------------------------------------------------
\* The message of a twist whose force or compliance control could not be released says that
\* the planner is refusing the release motion: no release motion with the control still on.
ReleaseMotionWithoutForce == \A a \in Attempts : planner[a].pc = "recoverHome" => a \notin force
=============================================================================
