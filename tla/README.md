# Azas cocktail robot: TLA+ verification project

Azas is a ROS 2 workspace in which a voice order becomes a cocktail: an arm picks up a
cup, carries it past dispensers whose pumps it presses, closes a lid, shakes, and hands
the drink over.  The parts that are hard to get right are not the motions but what
coordinates them: long-running processes that supervise each other, journals on disk from
which an interrupted order is resumed, and threads that share both.  This directory models
those parts in TLA+, model-checks them with TLC and proves the central properties with
TLAPS.

Paths below are relative to the repository; `TM` stands for
`src/azas_task_manager/azas_task_manager`, `AV` for `src/azas_voice/azas_voice`.

## 1. Inventory of the system

| Part | Code | State it keeps | Operations |
|---|---|---|---|
| Flow router | `TM/auto_cup_flow_router.py` | main-thread position, child processes, `_child_node_failures`, resume mode | the stages of `FLOW_STAGES` in order, each as service calls or a child process; a reader thread per child; exit |
| Stage journal | `TM/auto_flow_resume_state.py` | `self.snapshot` in memory, one JSON file, a lock | `prepare`, `start_stage`, `complete_stage`, `update_progress`, `heartbeat`, `fail_stage`, `block`, `complete_run` |
| Recipe runner | `tools/run/run_measured_dispenser_recipe_sequence.py` | loop position, `RecipeResumeTracker` with its own JSON file; physically: the cup, the strokes given | launch with or without resume; `move_release`, `press`, `regrasp` per dispenser group; cup holder |
| Color wrapper | `tools/run/run_color_recipe_sequence.py` | none | colors to dispenser ids; passes options on |
| Voice pipeline executor | `AV/voice_pipeline_executor_node.py` | `_active_proc`, `_active_recipe_id`, a lock, a monitor thread per pipeline | order topic, recovery commands (`resume`, `restart`, `clear_recovery`), end of a pipeline |
| Voice order dialogue | `AV/conversation_manager_node.py`, `recipe_mapper_node.py`, `llm_recipe_mapper_node.py`, `command_parser.py`, `recipe_catalog.py` | the mapper's last utterance and its duplicate window; pending order, its deadline | utterance, recommendation, confirmation, cancel, timeout |
| Voice dispenser executor | `AV/voice_dispenser_executor_node.py` | deque of press requests, a worker thread, the launch in flight | an order's requests, one launch per press, failure, abort |
| Speech and screen | `AV/stt_node.py`, `tts_node.py`, `voice_screen_node.py` | audio and display | pure input and output |
| Kiosk | `src/azas_kiosk` | screen | publishes the same order topic as the dialogue |
| Pick and align server | `TM/pick_and_align_action_server.py` | latest detection, goals | action goals, detections |
| Route decision | `TM/auto_cup_flow_router.py` | latest detection, label, count, decision | counts detections until the cup stands or lies; starts one of the next two nodes |
| Side grasp node | `src/dsr_practice/dsr_practice/yolo_cup_pick_node.py` | `auto_pick`, `picked`, the planning scene's cup box, arm, gripper | camera loop with keys; a pick attempt with retries; way home |
| Uprighting node | `src/azas_cup_uprighting/.../yolo_cup_uprighting_node.py`, `_base_node.py`, `_motion.py` | frozen frame, a pick thread, the exit of `rclpy` | camera loop with keys; a pick in a thread; shutdown after a success |
| Lid and shake chain | `tools/run/run_lid_close_then_shake_chain.sh`, `wait_for_lid_grip_status.py`, `src/azas_motion/.../lid_grip_planner_node.py`, `tools/run/run_holder_pick_then_shake_chain.sh` | the planner's sequence thread, force control, status topic; lid, cup and gripper; the router's record | requests, the sequence's steps, recovery of a twist, waiter, holder pick, shake |
| Palm handover | `tools/run/auto_handover_on_palm.py`, `handover_cup_to_palm.py`, `tools/perception/human_hand_detection_node.py` | palm window, stamps, contact candidate, gripper, helper processes | trigger, approach, contact search, release |
| Control panel server | `tools/run/robot_pipeline_control_server.py` | `RUN_LOCK`, `processes`, tmux windows | run, stop and cleanup requests, each in a thread of its own |
| Motion, perception, gripper, dispenser nodes | `src/azas_motion`, `azas_perception`, `azas_gripper`, `azas_dispenser` | poses, images, device state | single motions and detections |
| Configuration and description | `src/azas_bringup`, `azas_description`, `azas_interfaces`, `azas_calibration` | none | none |
| Practice and legacy copies, checks, analysis | `src/dsr_practice`, `tools/checks`, ... | none | not part of the flow |

### How they interact

    kiosk, dialogue --order topic--> pipeline executor --Popen--> flow router
                                         ^   |                      |  |
                                  status |   | unlinks on           |  +--> stage journal (file)
                                         |   v clear_recovery       |
                                    screens, journals               +--Popen per stage--> children
                                                                    ^                      |
                                                                    +-- reader thread <----+ (output lines)
    child of the cup_pick stage = side grasp node or uprighting node (after the route decision)
    child of the recipe stage   = recipe runner --> recipe journal (a second file)
    child of the lid stage      = lid/shake chain <--status topic-- lid planner(s)
    child of the handover stage = palm watcher <--two topics-- hand detector; handover script

    microphone --> mapper --decisions--> conversation manager --confirmed order--> dispenser executor
    browser --HTTP--> control panel --Popen, tmux--> the same scripts, by hand

Four facts shape everything else.

* **Files are the only memory.**  A router or a recipe runner that fails simply exits; the
  next process decides from the file what is skipped.  Both files are written with
  `write_text`, which truncates first, so that a crash can leave a file nobody can parse.
* **The router is multi-threaded.**  The reader of each child's output journals progress
  and heartbeats through the same snapshot and the same file as the main thread, and may be
  late: `proc.wait()` does not wait for the reader.
* **A child's exit code is all a stage knows.**  Whether the cup is in the gripper, the lid on the
  cup or the drink in a hand follows from exit codes and status lines; nodes that outlive the stage
  that started them go on moving things behind its back.
* **Two journals, one order.**  The router's journal speaks of stages, the recipe runner's
  of robot steps; they are opened, resumed and cleared separately.

### What makes each part correct

* *Stage journal*: on disk it is never rolled back; it never lists work that was not done;
  a resumed order never repeats work it lists; a refused resume starts nothing.
* *Router*: a stage is journaled as completed only if its process succeeded, with all its
  nodes; a run ends, and the record of how it ended stands.
* *Recipe runner*: after any sequence of stops and resumes the journal tells where the cup is
  and what has been poured; a stage on record is not done again; a process that is not
  stopped gets to the end.
* *Executor*: one pipeline at a time; status messages in the order of the events.
* *Order dialogue*: what is made is what was last asked for and not called off; one order per confirmation.
* *Dispenser executor*: presses of two drinks do not mix; nothing is poured on after a failure; every
  order comes to an end.
* *Cup pick*: a stage journaled as done has the cup in the gripper; a held cup is not dropped; fingers are
  told to open before they come down; no box of a cup that is gone stays in the planning scene.
* *Lid and shake*: nothing is shaken before some planner has closed a lid and the cup was picked from its
  holder; a resume does not open the gripper over a held cup; the gripper does not open with force control
  on; every attempt ends, even if the planner falls silent.
* *Handover*: the arm starts after a calm palm only; the hand opens over a confirmed contact or where the
  options say so; the journal gives the cup away only if the hand has let go.
* *Control panel*: no command outlives the request that holds `RUN_LOCK`; a stop ends what was started and
  what was still to come; `RUN_LOCK` is always freed.

The hazards of this code, each at its line and with the properties that cover it, are the
`hazards` of `PROJECT.json`.

## 2. Modules

| Module | What it is |
|---|---|
| `ResumeSnapshot` | The stage journal as values: what every method of `AutoFlowResumeStore` makes of the snapshot. |
| `AutoCupFlow` | The router process: main thread, stage children, reader threads, file, lock, crash, relaunch.  Extends `ResumeSnapshot`. |
| `StageJournal` | Abstract specification of the file: a journal of one run that opens empty, advances by one stage in flow order, and may be lost as a whole. |
| `AutoCupFlowProofs` | Theorems about `AutoCupFlow`. |
| `DispenserRecipe` | The recipe runner with its tracker, and the cup. |
| `DispenserRecipeProofs` | Theorems about `DispenserRecipe`. |
| `VoicePipelineExecutor` | The executor node: callback thread, monitor threads, pipelines, status topic. |
| `VoicePipelineExecutorProofs` | Theorems about `VoicePipelineExecutor`. |
| `VoiceOrder` | From an utterance to the presses: mapper, conversation manager, dispenser executor, topics that overrun. |
| `VoiceOrderProofs` | Theorems about `VoiceOrder`. |
| `CupPickStage` | The cup_pick stage: route decision, side grasp node, uprighting node, arm, gripper, cup, planning scene. |
| `CupPickStageProofs` | Theorems about `CupPickStage`. |
| `LidShakeStage` | The lid stage: shell chain, waiter, launches and their planners, holder pick, shake, resume. |
| `LidShakeStageProofs` | Theorems about `LidShakeStage`. |
| `PalmHandover` | The handover stage: helpers, hand detector, watcher, handover script with contact search. |
| `PalmHandoverProofs` | Theorems about `PalmHandover`. |
| `ControlPanel` | The control panel: run requests, stops, cleanups, processes, tmux windows. |
| `ControlPanelProofs` | Theorems about `ControlPanel`. |
| `MC...` | Instances for TLC, one for each of the eight state machines. |

The stages of a flow are modelled one by one, and the flow with its stages as processes that end with 0 or
1 (`AutoCupFlow`): every stage module has the router's record of its stage and lets a failed stage be resumed.

### AutoCupFlow

| Model | Code |
|---|---|
| `snap` | `AutoFlowResumeStore.snapshot`; time stamps, texts and the event log left out |
| `file` | what `load_resume_snapshot()` returns: a snapshot, or `None` if there is no file or it is torn |
| `want`, `buf` | a thread that has changed the snapshot and is on its way into `_write_snapshot()`; a thread between truncation and the last byte |
| `pc`, `cur`, `resuming` | where `run()` / `_run_resumable_stage()` is, the stage, `resume_mode == "resume"` |
| `child`, `pipe`, `beat` | the stage's process; its output not yet read; whether the reader is past `heartbeat()` with its line |
| `failures` | `_child_node_failures` |
| `ledger` | history only: what really became of the action of each stage, per run id |

The main thread is `SkipStage`, `StartStage`, `Spawn`, `Reap`, `FinishRun`, `Exit`; the readers
are `Heartbeat`, `ReadProgress`, `ReadFault`, `ReadOther`; the child is `PrintLine`, `PrintFault`,
`NodeDies`, `ChildExit`.  `Launch` covers `prepare()` with modes normal, restart and resume,
and the refused resume.  `Crash` may happen at any step.  A stage that consists of service
calls is, to the journal, a child that exits with 0 or 1.

Abstractions a reader should know of:

* A method of the store changes the snapshot in one step.  In the code it assigns a dozen
  keys one after the other without the lock; the interleavings in between are not modelled.
* The child ends when the router does.  In the code a killed router leaves its child running
  in a session of its own.
* A launch that has lost a node exits (`ros2 launch` as the router's pattern expects it);
  a service stage is treated the same way as a process stage.
* `heartbeat()` writes at most every two seconds: the model lets it write or not.
* Helper processes, the route decision and the choice of the lid command are left out.
* The legacy path of the recipe runner and dry runs are left out.

### DispenserRecipe

| Model | Code |
|---|---|
| `file`, `buf` | the tracker's file, absent, torn or a record; a `_write()` under way |
| `tr` | `next_group_index`, `next_stage` |
| `pc`, `idx`, `at`, `need`, `did` | where `main()` is: group, stage, the stages found to be needed, motions done in this stage |
| `cup`, `poured`, `spilled` | the world: where the cup is, strokes into it per group, strokes that missed it |
| `own`, `astray` | history: this order has opened its journal; the journal has stopped describing the world |

`PressOnce`, `MoveAndRelease`, `OpenForRegrasp`, `Grasp`, `PlaceCupInHolder` are the motions'
effects on the cup; a failed motion (`Stop`) ends the process as a crash does, since the code
returns without writing.  `NewOrder` picks up another cup and leaves the file alone.

No journal that is written after the fact can describe a motion that was interrupted.
`astray` marks exactly these three cases, and the properties about the world hold outside
them: a stop between an effect and its journal entry, except for the opening of the gripper
before a regrasp, which a resume repeats without harm; a resume that goes by an earlier
order's unfinished journal; and a resume of an order the runner has already completed.  The
second one contradicts what the code's help texts promise and is a finding.

### VoicePipelineExecutor

| Model | Code |
|---|---|
| `slot`, `slotId` | `_active_proc`, `_active_recipe_id` |
| `cb` | how far the callback thread is in `_start_pipeline()`, and the order's id |
| `proc`, `recipe`, `unread`, `mon` | per pipeline: the process, its order's id, output not yet read, its monitor thread |
| `saved` | what `load_resume_snapshot()` finds: nothing, or a snapshot of one of four kinds |
| `shown` | the last message on the status topic |
| `strays` | history: pipelines that ran on when their slot was cleared or the node was restarted |

The callback thread receives an order or a recovery command (`RefuseMessage`, `ReceiveOrder`,
`ClearRecovery`, `AnswerRecovery`, `AcceptRecovery`) and starts a pipeline in the steps of
`_start_pipeline()`: busy test and id under the lock (`RefuseBusy`, `Claim`), the status message
(`Announce`), dry run or `OSError` (`SpawnNothing`) or `Popen` (`Spawn`), and the slot under the lock
again (`Store`).  A monitor reads, waits, frees the slot, reports.  The lock itself is not a variable:
its critical sections never wait for anything, so each is a step.  ROS runs callbacks one after the
other in the main thread, so there is one `cb`.

Which pipeline a monitor frees is the point of the module: `FreeSlot` clears the slot whoever is in it,
as the code does.  `enable_hardware_execution` is read anew for every order and chosen freely.

### VoiceOrder

| Model | Code |
|---|---|
| `said`, `stt` | what was said; `/stt_result` on its way to the mapper |
| `llm`, `last`, `fresh` | which mapper runs; the last utterance and whether its duplicate window is open |
| `decisions`, `confirmed` | the topics from mapper to manager and from manager to executor |
| `pending`, `old` | the manager's pending order and whether `pending_timeout_s` has passed |
| `queue`, `worker` | the executor's deque and its worker thread |
| `heard`, `made`, `pressed`, `fate`, `lost` | history: what the mapper made of an utterance, confirmed orders, presses started, what became of an order, messages that a full queue dropped |

An utterance is the set of word lists it hits (`WordKinds`) and the recipe it names; `Parse` has the order in
which `parse_recipe_command` tries them.  The language model may answer anything (`Answers`); what is modelled is
how the parser corrects it.  Every topic keeps the newest `Depth` messages (`Push`).  A press is one launch that
returns.  Left out: the kiosk's screen (its order is one more utterance), the status topics, and recovery commands,
which are the executor's (`VoicePipelineExecutor`).

### CupPickStage

| Model | Code |
|---|---|
| `run` | `_run_cup_pick_stage`, `_wait_for_route_decision`, the wait for the child, and in `fault` what the reader knows of a node that died |
| `side` | the side grasp node: place in `run()` or in the attempt, `auto_pick`, `picked`, retries of the lowering |
| `up` | the uprighting node: the main loop, the pick thread (`_pick_in_thread`), `frozen_frame`, whether `rclpy` is up |
| `arm`, `hand`, `cup` | the world; poses are names, `adrift` is an arm that nobody waits for any more; fingers that were told to open and did not are `unopened` |
| `scene` | the cup's box in the planning scene |
| `astray` | history: what happened that no code looks at |

Nothing in this stage checks what it relies on, and the model does not do it for the code:

* **Exit codes.**  The child is a `ros2 launch` of several nodes.  `Reap` takes the launch's exit code and the deaths the reader
  has seen so far (`Report`) as the two tests they are: a launch whose pick node has died may exit with 0, and if the reader is
  late the stage is done without a cup (`unseen`).  Another node of the launch may die, too (`OtherDies`), seen or not.
* **Fingers.**  An opening that was sent may not move them (`Opens`): `open_gripper_max(wait=True)` waits for the busy
  bit and passes idle for open, `initialize_home()` does not wait at all.  A closing may not move them either (`Closes`).
* **Motions.**  The next goal is sent while the arm may still move for one that was given up (`SideGoes`, `UpGoes`).  A goal
  may be accepted after its sender has stopped waiting (`UpFails`), and a call may raise (`UpRaises`).

Assumed of the robot: the controller takes goals in the order in which they were sent and reports success only at
the goal of the last one.

`astray` names each event after which a finished stage, a held cup or opened fingers cannot be relied on, and every
property says which of them it excludes: ESC (`esc`), a `p` or `r` key that was pressed during the pick and is read
after it (`key`), fingers that close on nothing (`missed`), a pick thread started between the end of the one before
and its `rclpy.shutdown()` (`late`), a dead node that neither the exit code nor the reader told of in time (`unseen`), a way
home (`home`) or lift (`lift`) that failed, a call that raised with closed fingers (`raised`), a side grasp node that died with
its box in the scene (`died`), and a resume with the cup in the hand (`resumed`).  Left out: the top grasp, which the flow does
not select, detection and geometry.  `auto_pick` retries for ever, so no liveness is claimed.

### LidShakeStage

| Model | Code |
|---|---|
| `cfg`, `Steps` | the planner's parameters and the sequence of steps they select |
| `launch`, `planner` | per attempt: the launch and its planner's sequence thread |
| `force` | planners that may have force or compliance control on |
| `waiter`, `chain` | `wait_for_lid_grip_status.py`; `run_lid_close_then_shake_chain.sh` with the holder pick and the shake |
| `hand`, `lid`, `cup` | the world |
| `journal` | what the router has on record: lid closed, cup held for the shake, shake done |
| `finished` | history: attempts whose planner has run a whole sequence |

Ending an attempt ends the shell of its launch and not the planner (`KillLaunch`), which hears the requests of the
next attempt.  A status is published and heard in one step; since the waiter's timeout may come before any of
them, a late status is the same as a lost one.  A launch that ends gives the waiter a grace period (`Grace`); an attempt
whose waiter has heard success and is terminated before it exits has failed.  `_call_gripper_sync` has all its outcomes: opened and said so, opened
and not said so in time, not opened, and a failure after which nothing is published.

### PalmHandover

| Model | Code |
|---|---|
| `topics`, `helpers` | camera and detector: which publish, and which this run of the router has started |
| `palm`, `statuses`, `point` | the detector's window; its two topics, one of them best effort with depth 1 |
| `watch`, `calm` | `wait_for_stable_palm()`: latest status, ages of the stamps, ticks left; history: how long only ready statuses were heard |
| `stage`, `arm`, `force` | `main()` of the handover script: place and exit code, steps down, last reading and contact candidate |
| `hand`, `cup`, `journal` | the gripper, the cup, and what the router has on record |

Time passes in ticks of half a second (`Tick`); between ticks any number of callbacks may run.  Tool force is a
band, of which only the order matters.

### ControlPanel

| Model | Code |
|---|---|
| `lock`, `req` | `RUN_LOCK`; per run request its thread: place in `run_step()`, the steps still to do, the process it waits for |
| `table`, `proc` | `processes`; every process started with `Popen` |
| `win` | the tmux windows |
| `stop` | the thread of `/api/stop` or `/api/cleanup`: the snapshot of `processes` it works through |
| `lost` | history: live processes that were dropped from `processes` |

The keys stand for the panel's kinds of steps: a foreground command that is waited for, the reconnect command that
is left running after 90 s, motions in windows of their own, a scene that comes up in a window, and the helpers that
preflights start: the gripper's node (`connect_gripper`) for the recipe, the hand-eye publisher for the lid step.  The step then
waits for what its helper brings (`standby`) and goes on or is refused; the helper stays.  `ensure_world_base_tf()` starts a second
publisher in the same way; it is left out, as are status pages, settings, previews, service and camera windows, and the helpers
that start with the server.  Assumed of the commands (`Ended`): one that is ended by SIGINT, SIGTERM or SIGKILL does not
exit with 0.  That is so for what the steps run, shells, `ros2` and Python scripts that handle no signal; a command that caught
one and exited with 0 would let a stopped request go on.  There is one sweep at a time; two requests that stop at once do what one after the other does.
A stop between two steps of a request, when no process runs, is lost in the code as in the model:
`StopEndsQueue` speaks of a stop that has ended a process.

## 3. Runs

| Run | Shows | Result |
|---|---|---|
| `flow_safety` | `FileFollowsSnapshot`, `JournalIsEarned`, `JournaledWorkIsKept`; the file implements `StageJournal`; the inductive invariant `IInv` | holds, 1,049,415 states |
| `flow_ends` | every router run ends (`RunsEnd`) | holds, 167,600 states |
| `recipe_journal` | `JournalTellsCup`, `PouredAsJournaled`, `JournalNeverGoesBack`, `ProcessEnds`, the inductive invariant `RInv` | holds, 33,166 states |
| `voice_executor` | `OnlyStraysOverlap`, `MakingIsUnderWay`, `EndIsTold`, the inductive invariant `EInv` | holds, 451,831 states |
| `voice_order` | `CancelHolds`, `LastOrderIsMade`, `PressesInOrder`, `NothingAfterFailure`, `OrdersEnd`, the inductive invariant `VoiceInv` | holds, 478,660 states |
| `cup_pick` | `CupIsWhereJournaled`, `HeldCupIsKept`, `ComesOpen`, the inductive invariant `PickInv` | holds, 1,585,293 states |
| `lid_stage` | `ShakeIsEarned`, `PickedCupIsKept`, `OpensWithoutForce`, `StageEnds`, the inductive invariant `LidInv` | holds, 825,423 states |
| `handover` | `TriggerIsCalm`, `ReleaseIsEarned`, `HumanHasCup`, `HandoverEnds`, the inductive invariant `HandoverInv` | holds, 748,982 states |
| `panel` | `ForegroundIsWatched`, `QuietStopEndsAll`, `StopEndsQueue`, `RequestsEnd`, the inductive invariant `PanelInv`; the lists of steps (`ListsOfSteps`) | holds, 607,422 states |
| `refused_resume` | a refused resume leaves what the next resume accepts | violated: finding |
| `lost_node` | a lost node can be missed and its stage journaled as completed | violated: finding |
| `lid_recovery` | the recovery from a failed twist moves with force control possibly on | violated: finding |

Type correctness (`TypeOK`) is a conjunct of each of the inductive invariants, which TLC has checked on the runs
before they were proved; the theorems of section 5 are about the same definitions.

### The properties

* `FileFollowsSnapshot`: when no thread has a write left to do, the file is the snapshot;
  neither thread's write brings back an older one.  This is what the lock is for.
* `JournalIsEarned`: a stage the file lists as completed really ran to exit code 0, in this
  run or one it was resumed from.
* `JournaledWorkIsKept`: no step starts over a stage that the file lists.
* `JournalImplemented`: `StageJournal`, with the file as it will be when the write in
  progress has ended as the abstract journal.
* `RunsEnd`: a router's run ends through every failure, reload and late reader, if its children exit.
* `JournalTellsCup`, `PouredAsJournaled`: whenever a runner may be replaced by another, the
  cup is where the journal's next stage takes it from, and each group's strokes have gone
  into it as often as the recipe says, or not at all.
* `JournalNeverGoesBack`: the recipe journal is lost or moves on.
* `ProcessEnds`: from whatever journal it starts, a runner gets through all groups.
* `OnlyStraysOverlap`: two pipelines move the robot at once only if the node has lost sight of one of
  them: a late monitor of an earlier pipeline has cleared its slot, or the node was restarted.  The
  plain "one pipeline at a time" is what the busy test is for, and does not hold.
* `MakingIsUnderWay`: starting and running are not the last word on the status topic.
* `EndIsTold`: the end of every watched pipeline is reported.
* `EInv` also says that a refused order is told the id of the running order, or none (`BusyNamesNoOther`).
* `CancelHolds`: an order that is made was not called off between the utterance that placed it and the one that
  confirmed it, whichever mapper listens, unless a full topic dropped a message in between.
* `LastOrderIsMade`: a confirmation makes the order that was placed last, and no order is made twice.
* `PressesInOrder`, `NothingAfterFailure`: the presses of an order follow each other from the first on, orders do
  not mix, and an order whose press failed or whose requests were dropped gets no further press.
* `OrdersEnd`: every confirmed order is refused, poured, failed, dropped or lost; none waits for ever.
* `CupIsWhereJournaled`: when the stage is journaled as done, the cup is in the gripper, and the arm stands where the route
  ends, whatever attempts failed before, outside of what it names (`esc`, `key`, `missed`, `late`, `unseen`).
* `HeldCupIsKept`: a cup that was picked up is not dropped.
* `ComesOpen`: no attempt comes down with fingers that nobody told to open since they closed: the side grasp's never, the
  uprighting node's only after a failed way home, a raised call or a late thread.  That they then are open no code
  looks at, and in the model they need not be.
* `SceneIsCleared` (in `PickInv`): no box stands for a cup that is gone.
* `ShakeIsEarned`: the cup is taken, and the lid journaled, after some planner has run a whole sequence, which may be
  an orphan's of the attempt before; the cup is shaken only after it was picked; a stage that ends well has shaken.
* `PickedCupIsKept`: a resume after the pick does not open the gripper again.
* `OpensWithoutForce`: in a sequence that goes well, the gripper opens after force control was released.
* `StageEnds`: every attempt ends.
* `TriggerIsCalm`: when the arm starts towards a person, only ready statuses have been heard for as long as a stable
  palm takes, although status and point arrive over different topics.
* `ReleaseIsEarned`: the hand opens over a confirmed contact, or at the end of the search if none is required.
* `HumanHasCup`: the record of a handover is never false.  `HandoverEnds`: every attempt ends, palm or no palm.
* `ForegroundIsWatched`: a command that is waited for never outlives the request that holds `RUN_LOCK`.
* `QuietStopEndsAll`: a stop that no accepted request overlaps ends every process, but for those that had been dropped
  from `processes` before.  `StopEndsQueue`: a stop that ends the command of a request ends the request's list.
* `ListsOfSteps` is an assumption that TLC evaluates beside the panel's instance: for every one or two selected keys, the list
  of steps with its prerequisites holds keys of steps, each once, and no recipe beside a side grip it is chained to.
* `RequestsEnd`: `RUN_LOCK` is freed, even if commands hang for ever.

### Bounds, and why they are enough

* `NumStages` = 3 of the code's 7 (2 for liveness): the stages differ only in whether they
  report progress, can print a fault, and are run by `ros2 launch`.  Three stages make a
  first, a middle and a last one, which is what skipping and `next_stage()` distinguish.  The
  theorems hold for every number.
* `ProgressStages`, `FaultStages`, `LaunchStages`: one stage launched, another one reporting
  progress and faults.
* `MaxLines` = 1: unread lines per child.  A line left unread when the
  next stage starts is the interesting case; one is enough for it.
* `RunIds` has 2 members: the run on file and the one that replaces it.  An id may be drawn
  again once the file does not have it, as the code only compares ids with the file's.
* `Orders` has 2 members and the empty order: equal, different, not given.  None for
  liveness, where orders only decide which launch is possible.
* `MaxLaunches` = 3: processes per recipe order, that is two resumes; each may be stopped at any
  step, so that a resume of a resumed process is included.
* Recipes of one group, of two groups with one double stroke, and of three groups that
  returns to its first dispenser.
* `MaxPipelines` = 2, `MaxLines` = 1 in `voice_executor`: two pipelines are enough for a monitor to
  clear the slot of its successor and for a stray beside a new pipeline after a restart.  The third
  pipeline that starts beside an evicted second one needs three; the safety properties have been proved
  for every number.
* `Snapshots`: nothing, completed, and not recoverable; every branch on the snapshot is taken with these.

* `voice_order`: three kinds of utterances (an order that says "yes" as well, a yes, a cancellation that says "yes",
  too), four of them, one recipe of two presses besides what the language model makes up.  Two orders with a cancellation
  or a repeated yes between them fit into four.  `Depth` = 1 where the code has 10: a queue overruns at once, which the
  code's does after ten.
* `cup_pick`: two samples for a route, one retry of the lowering, one resume, two keys and two attempts per child: a
  key before and one after a pick, a pick thread beside the one before.
* `lid_stage`: two attempts with two requests, so that an orphan of the first hears the request of the second, and the
  parameters of the direct chain, of a plain twist and of no twist.
* `handover`: 1.5 s window, 1 s of calm and two stamps as in the code (3, 2 and 2 ticks), two confirming readings of
  the code's three, three bands of force, two attempts, and options in which the floor or the last step comes first.
  Up to two statuses are in flight (ten in the code) and three stamps held.
* `panel`: two run requests, one stop and three processes; one list with all prerequisites and one
  without.  A process that is replaced in `processes`, one that a stop's snapshot does not have, and a recipe beside both
  helpers need no more.  With two stops (1,289,363 states) the safety properties hold, too; they are proved for any number.
* `voice_order`, `cup_pick`, `lid_stage`, `handover` and `panel` do not check for deadlock: an operator, a speaker or a
  palm that never comes again is a legal end.

Run ids and orders are symmetric in `flow_safety` (it checks no liveness).

### Fairness

`Fairness` of `AutoCupFlow`: weak fairness of the main thread, of each thread's writes, of each
reader, and of the child's exit.  Threads of a Python process are scheduled, a contended
lock is handed on, and a reader blocked in `readline` wakes up when there is a line.  That
children exit is an assumption: nothing in the router bounds them (it waits without a timeout).
Nothing is assumed about printing, faults, crashes or launches.

`FairSpec` of `DispenserRecipe` is weak fairness of the process's next step: motions return,
with success or failure.  Nothing is assumed about launches.

`FairSpec` of `VoicePipelineExecutor` is weak fairness of the callback thread once it has an order, of each
monitor, and of the end of the flow script, which the node waits for without a timeout.

`FairSpec` of `VoiceOrder`: each node spins, the worker thread is scheduled, and a launch ends (the executor waits for it).
`FairSpec` of `LidShakeStage`: the chain polls, its programs end and the waiter has a timeout; nothing is assumed of the
planner or its launch.  `FairSpec` of `PalmHandover`: the router's helper steps, the watcher's clock and the script go on; nothing is assumed of
the detector or the palm.  `FairSpec` of `ControlPanel`: each request's thread goes on; nothing is assumed of the commands it
runs.  `CupPickStage` states none.

## 4. Findings

1. **A refused resume can be resumed** (`ResumedRunsWereBegun`).  `block()` saves a new snapshot
   for the order it refuses; the next resume takes it for a saved run.
2. **A lost node can pass for success** (`LostNodeIsNoSuccess`).  `proc.wait()` may return
   before the reader thread has seen the line that reports the dead node.
3. **The recovery of a twist moves with force control possibly on** (`ReleaseMotionWithoutForce`).  The sequence refuses the
   release motion if force control cannot be released after a twist that went well; after one that failed it goes on.

Each is quoted with its lines in `PROJECT.json`.  Other disagreements between code and texts that the models contain as
behaviour, but that no run is kept for:

* The side grasp logs that it waits "for RG2 full-open before low approach" (`yolo_cup_pick_node.py:2429`); what it waits for is
  the end of the busy bit, the width is only logged (`:1831`), and fingers that did not move come down over the cup.
* A late progress line turns a recorded end back into running (`TM/auto_flow_resume_state.py:273`).
* A recovery command right after a new order is answered from the previous run's journal, so that the status topic says completed while
  a drink is being made (`AV/voice_pipeline_executor_node.py:224`).
* `--resume` of the recipe stage continues an earlier order's recipe journal (`TM/auto_cup_flow_router.py:757`).
* `--skip-initial-move-release` skips the release in every group
  (`tools/run/run_measured_dispenser_recipe_sequence.py:4157`).
* The panel goes on to the next motion once a scene's window is opened, although the comment at
  `tools/run/robot_pipeline_control_server.py:4498` says that it does not.
* A gripper call of the lid planner that is answered with a failure ends the sequence without a status that says so; the
  waiter runs into its timeout (`lid_grip_planner_node.py:3128`).
* With `--no-require-contact-for-release` the hand opens at the end of the search without a contact, although the text at
  `tools/run/handover_cup_to_palm.py:560` speaks of a confirmed one.

## 5. Proofs

`AutoCupFlowProofs` proves for every number of stages, every set of orders and run ids, every
choice of progress, fault and launch stages and every `MaxLines`, from `SnapshotAssumption` and
`FlowAssumption` only:

| Theorem | States |
|---|---|
| `TypeCorrect` | `Spec => [](TypeOK /\ OffIsQuiet)` |
| `Invariance` | `Spec => []IInv` |
| `FileIsSnapshot` | `Spec => []FileFollowsSnapshot` |
| `JournalTruth` | `Spec => []JournalIsEarned` |
| `NoRepeat` | `Spec => JournaledWorkIsKept` |
| `JournalRefinement` | `Spec => JournalImplemented` |

The argument.  None of the safety properties is inductive: from the file alone one cannot tell
that a write in progress, or a snapshot still in memory, is as true as the file.  `IInv` adds

* `OffIsQuiet`: when no router runs, nothing volatile is left;
* `OneWriter`: the lock admits one writer, and until it is done the file is torn;
* `SnapshotOnItsWay`: a running router's snapshot is on file, being written, or about to be;
* `AllEarned`: file, snapshot and every buffer list only what was done, the file and the buffers
  at most what the snapshot lists, and a child that exited with 0 is on the ledger as such;
* `AtStage`: every stage before the current one is completed, the current one, once started, is not;
* `OneStageAhead`: the snapshot is at most one completed stage ahead of the committed journal,
  that stage is the next one in order, and then the main thread has yet to write.

`OneStageAhead` is what makes the refinement work: the abstract `Advance` happens when a thread,
whichever it is, begins to write, and it carries exactly one stage because the main thread does
not go on before its own write.  The steps that leave file and buffers alone (all of the main
thread's, the readers' and the child's) are treated together (`SilentStep`), so that each conjunct
needs one case for them and one each for launches, writes and the end of the process.

`DispenserRecipeProofs` proves for every set of dispensers and recipes and every `MaxLaunches`, from
`RecipeAssumption` only (the missing and the torn file are no records, recipes are not empty, no
dispenser is named like another place of the cup):

| Theorem | States |
|---|---|
| `RecipeInvariance` | `Spec => []RInv` |
| `RecipeTypeCorrect` | `Spec => []TypeOK` |
| `CupIsWhereJournaled` | `Spec => []JournalTellsCup` |
| `PouredIsJournaled` | `Spec => []PouredAsJournaled` |
| `RecipeNeverGoesBack` | `Spec => JournalNeverGoesBack` |

The argument.  What a journal says is true of the cup only because of where the process was when it
wrote, which the file does not show.  `RInv` adds

* `JournalsValid`: the file is missing, torn, or a position in its own recipe; a write under way has
  torn it;
* `OnRecord`: the tracker's position fits where the loop is, and is what the file will hold when the
  write under way has ended.  It contains the fact about `need` that makes the loop right: the stages
  still needed in a group are exactly those from the tracker's stage on;
* `WorldKnown`: unless `astray`, the cup is where the tracker's position has it, or, in the middle of a
  stage, where the motions done so far have put it (`CupMidStage`), and has got what is accounted for.

`Described` is the lemma that ties it together: it is why a process that stops leaves behind what the
next one needs, and why the two invariants about the world hold.  `StageDone` says what the motions of
a whole stage have done, `StartPosition` that a stage is only ever started at the tracker's position.

`VoicePipelineExecutorProofs` proves for every set of recipe ids, every number of pipelines and lines and
any subset of the kinds of snapshot, from `ExecutorAssumption` only:

| Theorem | States |
|---|---|
| `ExecutorInvariance` | `Spec => []EInv` |
| `ExecutorTypeCorrect` | `Spec => []TypeOK` |
| `OnePipelineInSight` | `Spec => []OnlyStraysOverlap` |
| `BusyNamesRight` | `Spec => []BusyNamesNoOther` |
| `MakingEnds` | `Spec => []MakingIsUnderWay` |

The argument.  The busy test is long past when the process is stored, so what it found must survive the
gap: `Claimed` says that from the test on nothing in the slot runs (only the callback thread stores), and
that the id is the new order's or has been cleared by a monitor.  `InSight` says that a running pipeline
that is not a stray is in the slot, or is the one just started and about to be stored; with `Claimed` these
two places are never both taken.  `NextWord` names, for every starting or running on the topic, the thread
that has yet to publish: the callback thread until the monitor exists, then the monitor.

`CupPickStageProofs` proves for every number of samples, retries, starts, keys and attempts, from `PickAssumption` only:

| Theorem | States |
|---|---|
| `PickInvariance` | `Spec => []PickInv` |
| `PickTypeCorrect` | `Spec => []TypeOK` |
| `JournalHasCup` | `Spec => []CupIsWhereJournaled` |
| `CupIsKept` | `Spec => []HeldCupIsKept` |
| `FingersComeOpen` | `Spec => []ComesOpen` |
| `BoxIsCleared` | `Spec => []SceneIsCleared` |

The argument.  The exit code comes from a loop that only looks at `picked`, or at whether `rclpy` is up, and from a launch that
may hide a death.  `PickInv` says what these stand for: `OneChild` and `OneThread` that there is one child and, behind a frozen
frame, one pick thread; `SideKnown` and `UpKnown` what arm, hand and cup are like at each place of the two nodes, a success that has
not yet shut `rclpy` down included; `LeftKnown` that a node which left by itself, and has yet to be reaped, left the cup in the
hand at the end of its route, so that only a launch left by a dead node can be taken for done without one, which is `unseen`;
`HeldCupIsKnown` that a cup in the gripper is known to the child that runs, so that an opening meets none.  `ComesOpen` follows from
the other parts (`KnownComesOpen`).

`PalmHandoverProofs` proves for every set of options and every size of windows, counts and searches, from
`HandoverAssumption` only:

| Theorem | States |
|---|---|
| `ReleaseInvariance` | `Spec => []HandInv` |
| `ReleaseEarned` | `Spec => []ReleaseIsEarned` |
| `JournalGivesCup` | `Spec => []HumanHasCup` |
| `HandoverInvariance` | `Spec => []HandoverInv` |
| `HandoverTypeCorrect` | `Spec => []TypeOK` |
| `TriggerCalm` | `Spec => []TriggerIsCalm` |

The argument.  An exit code says nothing of the hand; `LetGo` does: where the script goes away, and where it has ended with 0,
the hand is open and the cup is the person's.  `ArmIsAbove` makes the arm that finds no contact stand exactly at the end of the search.
The watcher's part is a second invariant, proved beside the first (`WatchInv`).  The watcher triggers on the ages of its stamps, and
each age says how long at least nothing but ready statuses has been heard: `StampsAreCalm` (a status that is not ready empties the
list, a tick ages stamps and calm alike, up to `MinStable`).  Stamps are held in
the order in which they came, so that forgetting the old ones cuts the list once, and no recursion has to be unfolded.

`LidShakeStageProofs` proves for every set of planner parameters and every number of attempts and requests, from
`LidAssumption` only:

| Theorem | States |
|---|---|
| `LidInvariance` | `Spec => []LidInv` |
| `LidTypeCorrect` | `Spec => []TypeOK` |
| `ShakeEarned` | `Spec => []ShakeIsEarned` |
| `CupKeptToTheShake` | `Spec => []PickedCupIsKept` |
| `ReleasedBeforeOpening` | `Spec => []OpensWithoutForce` |

The argument.  The chain knows only what the waiter has told it, and the router what the chain has printed.  `ClosedFirst` ties
waiter, chain and journal to a planner that has run a whole sequence, whichever attempt's it was; `HeldInOrder` says where in the
chain the cup is on record as held or shaken, which is why a resume that begins at a recorded place neither opens over the cup nor
skips the shake.  `OpensWithoutForce` holds of each planner by itself, orphans included.

`VoiceOrderProofs` proves for every set of utterances, every catalogue and number of presses, every depth of topics, and either
mapper, from `VoiceAssumption` only:

| Theorem | States |
|---|---|
| `VoiceInvariance` | `Spec => []VoiceInv` |
| `VoiceTypeCorrect` | `Spec => []TypeOK` |
| `CalledOffIsNotMade` | `Spec => []CancelHolds` |
| `LastOrderOnce` | `Spec => []LastOrderIsMade` |
| `DrinksDoNotMix` | `Spec => []PressesInOrder` |
| `NotPouredOn` | `Spec => NothingAfterFailure` |

The argument.  A confirmation acts on the pending order long after it was said, and topics, the duplicate filter and the queue stand
in between.  `TopicsInOrder`, `HeardOK` and `NothingForgotten` account for every utterance: it is still on its way to the mapper,
was mapped, was lost on a full topic, or is a duplicate of what was mapped last (`Dropped`), and what was mapped is on its way to
the manager, lost, or behind it (`Past`).  `PendingIsLast` then says that nothing behind the manager called the pending order off
or replaced it, and `MadeIsPast` that no utterance can still come before one that has confirmed.  A cancellation between an order and its
confirmation would have to be one of those four; each contradicts `PendingIsLast`, the duplicate because what it repeats is a
cancellation, too.  The pouring is a second chain: `LineInOrder` keeps orders in the order of their numbers from the pending one
to the presses, `QueueInOrder` makes the queue go on where the presses stopped, and `QueueIsQueued` says that unless a queue
is about to be emptied, no order in it has failed, from which the action property `NotPouredOn` follows.

`ControlPanelProofs` proves for every number of requests, processes and stops and every set of selections, from
`PanelAssumption` only:

| Theorem | States |
|---|---|
| `PanelInvariance` | `Spec => []PanelInv` |
| `PanelTypeCorrect` | `Spec => []TypeOK` |
| `ForegroundWatched` | `Spec => []ForegroundIsWatched` |
| `QuietStopEnds` | `Spec => []QuietStopEndsAll` |
| `StopEndsTheQueue` | `Spec => []StopEndsQueue` |

The argument.  Requests, stops and `processes` know a process at different times.  `ThreadOK` says what a thread knows at
each place: it holds `RUN_LOCK`, the process it waits for is of its step, and a process that a stop has ended leaves it only a
failure to collect.  `Traced` says that a live process is in the table, about to be registered, or was dropped; `StartedOnly` that
table and sweep name only processes that were started; `QuietSweep` that as long as no request is accepted, what a sweep has not
come to is on its list, which is what a snapshot taken before a sweep needs to be enough.  Steps that neither start nor end a
process are treated together (`SameFact`, `QuietStep`).

Model-checked only: liveness (`RunsEnd`, `ProcessEnds`, `EndIsTold`, `OrdersEnd`, `StageEnds`, `HandoverEnds`, `RequestsEnd`), which
rests on fairness and `ENABLED`; and what `StepsOf` makes of a selection (`ListsOfSteps`), a fold over a list whose result for every list
needs induction over data.  The theorems about the panel hold whatever lists it makes.

## 6. Not modelled, and the plan

Not modelled for good: poses, kinematics, image processing, audio, drawing, device protocols,
configuration; they are numeric or pure input and output, and no interleaving hides in them.  They are most of the
repository's lines: the largest files (the lid planner, the side grasp node, the recipe runner, the panel) are
modelled by their control, and the rest of their text is geometry, messages and pages.  `src/dsr_practice` holds exercises and
duplicates of nodes, of which the flow uses one (the side grasp node).

Not modelled yet, in the order in which it would be added:

1. `CocktailRecovery`: executor, flow journal and recipe journal together: `clear_recovery` while a
   router writes, empty `recipe_colors` on resume, a completed recipe whose stage was not
   journaled, an orphaned child beside a resumed one.
2. The panel's service and camera windows, and the helpers that start with it.
3. The kiosk's screen in front of `VoiceOrder`, and the executor behind it: an order confirmed while a pipeline
   runs is answered "starting" by the dialogue and dropped as busy by the executor.
4. `PickAndAlign`, an action server for bench tests that the flow does not call.

Every safety property that a passing run checks is proved.  Theorems worth proving next: abstract specifications of the executor
(one pipeline and its word on the topic) and of the panel (one foreground command under one lock), implemented by the modules
outside of what their history variables name, as `StageJournal` is by the flow; and the invariant of `CocktailRecovery`, which
would be built from those of its three parts.
