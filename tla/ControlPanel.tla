----------------------------- MODULE ControlPanel -----------------------------
(***************************************************************************)
(* The robot control panel: an HTTP server with a thread per request.      *)
(* /api/run holds RUN_LOCK and runs a list of steps one after the other;   *)
(* /api/stop and /api/cleanup take no lock and sweep the table of          *)
(* processes in a thread of their own.  A step is a foreground command     *)
(* that its thread waits for (with a timeout), the reconnect command       *)
(* (waited for at most 90 s and left running), or a tmux window that is    *)
(* opened and left alone.  The keys below stand for the panel's step       *)
(* kinds: gates, kill patterns and what the loop does with the result.     *)
(***************************************************************************)
EXTENDS Naturals, Sequences, FiniteSets, SequencesExt

CONSTANTS
    Selections,     \* what browsers post: [keys : sequence of step keys, expanded : BOOLEAN]
    MaxRequests,    \* bound: /api/run requests
    MaxProcs,       \* bound: processes ever started by Popen
    MaxStops        \* bound: /api/stop and /api/cleanup requests

Connect == "connect_robot"
Scene == "start_collision_scene"
Status == "status_check"
Recipe == "run_color_recipe_sequence"
Helper == "hand_eye_static_tf"      \* started by the preflight of the lid step, not by a button
Gripper == "connect_gripper"        \* started by the preflight of a step that needs its services
ManualMotions == {"side_grip", "lid_grip_close"}        \* PANEL_DIRECT_TMUX_STEPS
Windows == ManualMotions \cup {Scene}                   \* PANEL_TMUX_STEPS
SceneMotions == {"home_robot", Recipe}                  \* requires_collision_scene_step
Foreground == SceneMotions \cup {Status}
Keys == Windows \cup Foreground \cup {Connect}
Tracked == Foreground \cup {Connect, Helper, Gripper}   \* keys of `processes`

Requests == 1 .. MaxRequests
Procs == 1 .. MaxProcs

ASSUME PanelAssumption ==
    /\ MaxRequests \in Nat /\ MaxProcs \in Nat /\ MaxStops \in Nat
    /\ \A s \in Selections : s.keys \in Seq(Keys) /\ s.expanded \in BOOLEAN

VARIABLES
    lock,       \* the request that holds RUN_LOCK, 0 for none
    req,        \* per request: its thread
    table,      \* `processes`: key -> process, 0 for none
    proc, last, \* per process: its key and state; the process started last
    win,        \* per tmux window: its state
    stop,       \* the thread of a stop or cleanup request
    stops,      \* how many there were
    lost        \* history: live processes that were dropped from `processes`

vars == <<lock, req, table, proc, last, win, stop, stops, lost>>

Busy == {"up", "moving"}
Live == {p \in Procs : proc[p].st \in Busy}
RobotMoves == \/ \E p \in Procs : proc[p].st = "moving"
              \/ \E w \in Windows : win[w] = "moving"

NewThread == [pc |-> "new", todo |-> <<>>, at |-> "", p |-> 0, killed |-> FALSE]
NoStop == [pc |-> "idle", all |-> FALSE, todo |-> {}, key |-> "", p |-> 0, quiet |-> TRUE]

Init ==
    /\ lock = 0 /\ last = 0 /\ stops = 0 /\ lost = {} /\ stop = NoStop
    /\ req = [r \in Requests |-> NewThread]
    /\ table = [k \in Tracked |-> 0]
    /\ proc = [p \in Procs |-> [key |-> "", st |-> "none"]]
    /\ win = [w \in Windows |-> "none"]

\* Ends processes P and windows W, however they are ended: a request that waits for one is
\* `killed`.  A process that is not live stays as it is.  Assumed of the commands the steps
\* run: none of them answers SIGINT, SIGTERM or SIGKILL with exit code 0.
Ended(P) == [p \in Procs |-> IF p \in P /\ p \in Live THEN [proc[p] EXCEPT !.st = "nonzero"] ELSE proc[p]]
Closed(W) == [w \in Windows |-> IF w \in W /\ win[w] # "none" THEN "over" ELSE win[w]]
Killed(P) == [r \in Requests |-> [req[r] EXCEPT !.killed = @ \/ (req[r].p \in P \cap Live /\ req[r].pc = "watch")]]

-----------------------------------------------------------------------------
(* The list of steps of a request.                                         *)

AppendOnce(list, key) == IF Contains(list, key) THEN list ELSE Append(list, key)

\* with_collision_scene_prereq: a prerequisite that is on the list already stays where it is.
WithPrereqs(keys) ==
    FoldLeft(LAMBDA list, key :
                 AppendOnce(IF key \in SceneMotions
                            THEN FoldLeft(AppendOnce, list, <<Connect, Status, Scene>>) ELSE list, key),
             <<>>, keys)

\* configure_manual_recipe_chain: the recipe is chained to side_grip in its window.
Configured(keys) ==
    IF Contains(keys, "side_grip") THEN SelectSeq(keys, LAMBDA k : k # Recipe) ELSE keys

StepsOf(s) == Configured(IF s.expanded THEN FoldLeft(AppendOnce, <<>>, s.keys) ELSE WithPrereqs(s.keys))

-----------------------------------------------------------------------------
(* /api/run: the thread of request r.                                      *)

Thread(r, pc) == req' = [req EXCEPT ![r].pc = pc]

\* Mutant: RUN_LOCK is taken whether it is free or not.
PostRunAlways(r) ==
    /\ req[r].pc = "new" /\ \A q \in Requests : q < r => req[q].pc # "new"
    /\ lock' = r
    /\ \E s \in Selections : req' = [req EXCEPT ![r].pc = "next", ![r].todo = StepsOf(s)]
    /\ stop' = [stop EXCEPT !.quiet = FALSE]
    /\ UNCHANGED <<table, proc, last, win, stops, lost>>

PostRun(r) ==
    /\ req[r].pc = "new" /\ \A q \in Requests : q < r => req[q].pc # "new"
    /\ IF lock # 0
       THEN Thread(r, "done") /\ UNCHANGED <<lock, stop>>               \* 409
       ELSE /\ lock' = r
            /\ \E s \in Selections : req' = [req EXCEPT ![r].pc = "next", ![r].todo = StepsOf(s)]
            /\ stop' = [stop EXCEPT !.quiet = FALSE]
    /\ UNCHANGED <<table, proc, last, win, stops, lost>>

Finish(r) ==
    /\ req[r].pc = "next" /\ req[r].todo = <<>>
    /\ Thread(r, "done") /\ lock' = 0
    /\ UNCHANGED <<table, proc, last, win, stop, stops, lost>>

\* These end the request; "started", "running" and "passed" do not.
Ends == {"failed", "blocked", "timeout", "starting"}

\* Mutant: a failed step does not end the request.
AnswerGoesOn(r, status) ==
    IF status \in Ends \ {"failed"}
    THEN lock' = 0 /\ req' = [req EXCEPT ![r].pc = "done", ![r].p = 0]
    ELSE UNCHANGED lock /\ req' = [req EXCEPT ![r].pc = "next", ![r].p = 0]

\* The step's result: the loop goes on or breaks and frees RUN_LOCK.
Answer(r, status) ==
    IF status \in Ends
    THEN lock' = 0 /\ req' = [req EXCEPT ![r].pc = "done", ![r].p = 0]
    ELSE UNCHANGED lock /\ req' = [req EXCEPT ![r].pc = "next", ![r].p = 0]

\* The entry of run_step: windows and the reconnect begin with a cleanup.
TakeStep(r) ==
    /\ req[r].pc = "next" /\ req[r].todo # <<>>
    /\ LET key == Head(req[r].todo)
       IN req' = [req EXCEPT ![r].todo = Tail(@), ![r].at = key,
                             ![r].pc = IF key \in Foreground THEN "gate" ELSE "clean"]
    /\ UNCHANGED <<lock, table, proc, last, win, stop, stops, lost>>

\* Real motion is not armed, a service is missing, a preflight fails.
Refuse(r) ==
    /\ req[r].pc \in {"gate", "prepare", "standby"} \/ (req[r].pc = "clean" /\ req[r].at \in ManualMotions)
    /\ req[r].at # Status
    /\ Answer(r, "blocked")
    /\ UNCHANGED <<table, proc, last, win, stop, stops, lost>>

\* What a step's cleanup ends.  The patterns of side_grip match the nodes of the collision
\* scene and the hand-eye publisher as well, and a reconnect cleans up side_grip and the
\* gripper, too.
PatternWindows(key) == IF key = "lid_grip_close" \/ key = Scene THEN {key} ELSE {"side_grip", Scene}
PatternKeys(key) ==
    CASE key = Connect -> {Helper, Gripper} [] key = "side_grip" -> {Helper} [] OTHER -> {}

Clean(r) ==
    /\ req[r].pc = "clean"
    /\ LET key == req[r].at
           P == {p \in Live : proc[p].key \in PatternKeys(key)}
       IN /\ win' = Closed(PatternWindows(key))
          /\ proc' = Ended(P)
          /\ table' = [k \in Tracked |-> IF k \in PatternKeys(key) THEN 0 ELSE table[k]]
          /\ Thread(r, CASE key = "lid_grip_close" -> "gate" [] key = Connect -> "launch" [] OTHER -> "open")
    /\ UNCHANGED <<lock, last, stop, stops, lost>>

\* Services are there and the robot is in STATE_STANDBY.
PassGate(r) ==
    /\ req[r].pc = "gate" \/ (req[r].pc = "standby" /\ req[r].at = Recipe)
    /\ req[r].at # Status => ~ RobotMoves
    /\ Thread(r, IF req[r].at \in Foreground THEN "launch" ELSE "prepare")
    /\ UNCHANGED <<lock, table, proc, last, win, stop, stops, lost>>

\* The helper a step's preflight starts: the gripper's node for the services of the recipe,
\* the hand-eye publisher for the transform of the lid step.
HelperOf(key) == IF key = Recipe THEN Gripper ELSE Helper

\* ensure_gripper_services, ensure_hand_eye_tf: what the step needs is missing and the
\* helper is not running.
SpawnHelper(r) ==
    /\ req[r].pc = "prepare" \/ (req[r].pc = "gate" /\ req[r].at = Recipe)
    /\ table[HelperOf(req[r].at)] \notin Live /\ last < MaxProcs
    /\ last' = last + 1
    /\ proc' = [proc EXCEPT ![last + 1] = [key |-> HelperOf(req[r].at), st |-> "up"]]
    /\ req' = [req EXCEPT ![r].pc = "helper", ![r].p = last + 1]
    /\ UNCHANGED <<lock, table, win, stop, stops, lost>>

RegisterHelper(r) ==
    /\ req[r].pc = "helper"
    /\ table' = [table EXCEPT ![HelperOf(req[r].at)] = req[r].p]
    /\ req' = [req EXCEPT ![r].pc = "standby", ![r].p = 0]
    /\ UNCHANGED <<lock, proc, last, win, stop, stops, lost>>

\* The transform is there, or the publisher that runs makes it so.
PrepareDone(r) ==
    /\ req[r].pc = "prepare" \/ (req[r].pc = "standby" /\ req[r].at # Recipe)
    /\ Thread(r, "open")
    /\ UNCHANGED <<lock, table, proc, last, win, stop, stops, lost>>

\* start_panel_tmux_window closes the key's old window and opens a new one.
OpenWindow(r) ==
    /\ req[r].pc = "open"
    /\ LET key == req[r].at
       IN \/ /\ win' = [win EXCEPT ![key] = IF key = Scene THEN "starting" ELSE "waiting"]
             /\ Thread(r, "next")        \* "started"
             /\ UNCHANGED lock
          \/ win' = Closed({key}) /\ Answer(r, "failed")
    /\ UNCHANGED <<table, proc, last, stop, stops, lost>>

Launch(r) ==
    /\ req[r].pc = "launch" /\ last < MaxProcs
    /\ last' = last + 1
    /\ proc' = [proc EXCEPT ![last + 1] = [key |-> req[r].at, st |-> "up"]]
    /\ req' = [req EXCEPT ![r].pc = "register", ![r].p = last + 1]
    /\ UNCHANGED <<lock, table, win, stop, stops, lost>>

\* Popen raises OSError.
LaunchFails(r) ==
    /\ req[r].pc = "launch"
    /\ Answer(r, "failed")
    /\ UNCHANGED <<table, proc, last, win, stop, stops, lost>>

\* `processes[key] = proc`, over whatever was there.
Register(r) ==
    /\ req[r].pc = "register"
    /\ table' = [table EXCEPT ![req[r].at] = req[r].p]
    /\ lost' = lost \cup ({table[req[r].at]} \cap Live)
    /\ Thread(r, "watch")
    /\ UNCHANGED <<lock, proc, last, win, stop, stops>>

\* The process has ended; what it printed can make a failure of exit code 0.
Collect(r) ==
    /\ req[r].pc = "watch" /\ req[r].p \notin Live
    /\ \/ Answer(r, "failed")
       \/ proc[req[r].p].st = "zero" /\ Answer(r, "passed")
    /\ UNCHANGED <<table, proc, last, win, stop, stops, lost>>

\* Mutant: the process of a step that timed out is left alone.
TimeoutLeaves(r) ==
    /\ req[r].pc = "watch" /\ req[r].p \in Live
    /\ IF req[r].at = Connect THEN Answer(r, "starting") ELSE Answer(r, "timeout")
    /\ UNCHANGED <<table, proc, last, win, stop, stops, lost>>

\* Mutant: the reconnect is waited for without a timeout.
TimeoutForeground(r) ==
    /\ req[r].pc = "watch" /\ req[r].p \in Live /\ req[r].at # Connect
    /\ Answer(r, "timeout") /\ proc' = Ended({req[r].p})
    /\ UNCHANGED <<table, last, win, stop, stops, lost>>

\* A foreground command is terminated, the reconnect is left running.
Timeout(r) ==
    /\ req[r].pc = "watch" /\ req[r].p \in Live
    /\ IF req[r].at = Connect
       THEN Answer(r, "starting") /\ UNCHANGED proc
       ELSE Answer(r, "timeout") /\ proc' = Ended({req[r].p})
    /\ UNCHANGED <<table, last, win, stop, stops, lost>>

RunStep(r) ==
    \/ Finish(r) \/ TakeStep(r) \/ Refuse(r) \/ Clean(r) \/ PassGate(r)
    \/ SpawnHelper(r) \/ RegisterHelper(r) \/ PrepareDone(r) \/ OpenWindow(r)
    \/ Launch(r) \/ LaunchFails(r) \/ Register(r) \/ Collect(r) \/ Timeout(r)

-----------------------------------------------------------------------------
(* /api/stop and /api/cleanup.                                             *)

\* list(processes.items())
StopBegins ==
    /\ stop.pc \in {"idle", "done"} /\ stops < MaxStops
    /\ stops' = stops + 1
    /\ \E all \in BOOLEAN :
           stop' = [pc |-> "sweep", all |-> all, key |-> "", p |-> 0, quiet |-> lock = 0,
                    todo |-> {<<k, table[k]>> : k \in {k \in Tracked : table[k] # 0}}]
    /\ UNCHANGED <<lock, req, table, proc, last, win, lost>>

\* Mutant: only foreground commands are terminated.
StopTerminatesForeground ==
    /\ stop.pc = "sweep"
    /\ \E e \in stop.todo :
           /\ stop' = [stop EXCEPT !.pc = "pop", !.key = e[1], !.p = e[2], !.todo = @ \ {e}]
           /\ proc' = Ended(IF e[1] \in Foreground THEN {e[2]} ELSE {})
           /\ req' = Killed({e[2]})
    /\ UNCHANGED <<lock, table, last, win, stops, lost>>

StopTerminates ==
    /\ stop.pc = "sweep"
    /\ \E e \in stop.todo :
           /\ stop' = [stop EXCEPT !.pc = "pop", !.key = e[1], !.p = e[2], !.todo = @ \ {e}]
           /\ proc' = Ended({e[2]})
           /\ req' = Killed({e[2]})
    /\ UNCHANGED <<lock, table, last, win, stops, lost>>

\* processes.pop(key): by now the key may have a new process.
StopPops ==
    /\ stop.pc = "pop"
    /\ table' = [table EXCEPT ![stop.key] = 0]
    /\ lost' = lost \cup (({table[stop.key]} \cap Live) \ {stop.p})
    /\ stop' = [stop EXCEPT !.pc = "sweep", !.key = "", !.p = 0]
    /\ UNCHANGED <<lock, req, proc, last, win, stops>>

\* A stop leaves the windows alone.  A cleanup goes on to kill by patterns: windows,
\* stale commands, helpers and what is left of a reconnect.
StopEnds ==
    /\ stop.pc = "sweep" /\ stop.todo = {}
    /\ stop' = [stop EXCEPT !.pc = "done"]
    /\ IF stop.all
       THEN win' = Closed(Windows) /\ proc' = Ended(Procs) /\ req' = Killed(Procs)
       ELSE UNCHANGED <<win, proc, req>>
    /\ UNCHANGED <<lock, table, last, stops, lost>>

Sweep == StopTerminates \/ StopPops \/ StopEnds

-----------------------------------------------------------------------------
(* Processes, windows and the operator.                                    *)

\* A command moves the robot; the reconnect has got to stop_azas_all.sh, which ends
\* the tmux session and every ROS process.
ProcWorks(p) ==
    /\ proc[p].st = "up"
    /\ \/ /\ proc[p].key \in SceneMotions
          /\ proc' = [proc EXCEPT ![p].st = "moving"]
          /\ UNCHANGED win
       \/ /\ proc[p].key = Connect
          /\ proc' = Ended({q \in Procs : proc[q].key \in {Helper, Gripper, Recipe}})
          /\ win' = Closed(Windows)
    /\ UNCHANGED <<lock, req, table, last, stop, stops, lost>>

ProcExits(p) ==
    /\ p \in Live
    /\ \E st \in {"zero", "nonzero"} : proc' = [proc EXCEPT ![p].st = st]
    /\ UNCHANGED <<lock, req, table, last, win, stop, stops, lost>>

\* The p key in a manual window, the end of its motion, the q key; a scene that is up.
WindowWorks(w) ==
    /\ \/ win[w] = "waiting" /\ \E s \in {"moving", "over"} : win' = [win EXCEPT ![w] = s]
       \/ win[w] = "moving" /\ \E s \in {"waiting", "over"} : win' = [win EXCEPT ![w] = s]
       \/ win[w] = "starting" /\ win' = [win EXCEPT ![w] = "ready"]
    /\ UNCHANGED <<lock, req, table, proc, last, stop, stops, lost>>

Next ==
    \/ \E r \in Requests : PostRun(r) \/ RunStep(r)
    \/ StopBegins \/ Sweep
    \/ \E p \in Procs : ProcWorks(p) \/ ProcExits(p)
    \/ \E w \in Windows : WindowWorks(w)

Spec == Init /\ [][Next]_vars

\* Threads are scheduled.  Nothing is assumed of commands, windows and the operator.
FairSpec == Spec /\ \A r \in Requests : WF_vars(RunStep(r))

-----------------------------------------------------------------------------
Places == {"new", "next", "clean", "gate", "prepare", "helper", "standby", "open", "launch", "register", "watch",
           "done"}
ProcRecords == [key : Tracked \cup {""}, st : {"none", "up", "moving", "zero", "nonzero"}]

\* The types of the variables; what StepsOf makes of a selection is checked beside the instance.
TypeOK ==
    /\ lock \in 0 .. MaxRequests /\ last \in 0 .. MaxProcs /\ stops \in 0 .. MaxStops /\ lost \subseteq Procs
    /\ DOMAIN req = Requests
    /\ \A r \in Requests :
           /\ DOMAIN req[r] = {"pc", "todo", "at", "p", "killed"}
           /\ req[r].pc \in Places /\ req[r].p \in 0 .. MaxProcs /\ req[r].killed \in BOOLEAN
    /\ table \in [Tracked -> 0 .. MaxProcs]
    /\ proc \in [Procs -> ProcRecords]
    /\ win \in [Windows -> {"none", "waiting", "starting", "moving", "ready", "over"}]
    /\ stop \in [pc : {"idle", "sweep", "pop", "done"}, all : BOOLEAN, todo : SUBSET (Tracked \X Procs),
                 key : Tracked \cup {""}, p : 0 .. MaxProcs, quiet : BOOLEAN]

\* A foreground command never outlives the request that started it, nor RUN_LOCK: whatever
\* stops, cleanups and timeouts do, its thread holds the lock and waits for it.  So no two
\* of them move the robot at once.
ForegroundIsWatched ==
    \A p \in Live : proc[p].key \in Foreground =>
        \E r \in Requests : lock = r /\ req[r].p = p /\ req[r].pc \in {"register", "watch"}

\* A stop that no accepted request overlaps ends every process the panel has started,
\* but for those that were dropped from the table before: a reconnect replaced by the
\* next one, a helper registered just before an earlier stop's pop.
QuietStopEndsAll == stop.pc = "done" /\ stop.quiet => Live \subseteq lost

\* A stop that ends the command a request waits for ends the request, too: it starts no
\* further step of its list.
StopEndsQueue == \A r \in Requests : req[r].killed => req[r].pc \in {"watch", "done"}

\* Every accepted request is answered and frees RUN_LOCK, even if commands hang for ever.
RequestsEnd == \A r \in Requests : lock = r ~> lock # r

-----------------------------------------------------------------------------
(* The inductive invariant of the panel.                                   *)

\* A thread that is on its way holds the lock, waits for a process of its own, and when a stop has
\* ended that process, has nothing but a failure to collect.
ThreadOK(r) ==
    /\ req[r].pc \notin {"new", "done"} => lock = r
    /\ req[r].pc \in {"launch", "register", "watch"} => req[r].at \in Foreground \cup {Connect}
    /\ req[r].pc \in {"register", "watch"} => req[r].p \in 1 .. last /\ proc[req[r].p].key = req[r].at
    /\ req[r].pc = "helper" =>
           req[r].p \in 1 .. last /\ proc[req[r].p].key = HelperOf(req[r].at) /\ table[HelperOf(req[r].at)] \notin Live
    /\ req[r].killed =>
           req[r].pc = "done" \/ (req[r].pc = "watch" /\ proc[req[r].p].st = "nonzero")

\* Nothing but processes that were started is in the table and on a stop's list, and what a stop
\* pops has ended.
StartedOnly ==
    /\ \A k \in Tracked : table[k] <= last
    /\ stop.p <= last /\ \A e \in stop.todo : e[2] <= last
    /\ stop.pc = "pop" => stop.p \notin Live
    /\ \A p \in Live : proc[p].key \in Tracked

\* A live process is found in the table, or is about to be, or was dropped from it.
Traced ==
    \A p \in Live :
        \/ p \in lost \/ table[proc[p].key] = p
        \/ \E r \in Requests : req[r].p = p /\ req[r].pc \in {"helper", "register"}

\* While no request is accepted, what a stop has not come to yet is on its list.
QuietSweep ==
    stop.quiet =>
        /\ lock = 0
        /\ stop.pc \in {"sweep", "pop"} => \A p \in Live : p \in lost \/ <<proc[p].key, p>> \in stop.todo

PanelInv ==
    /\ TypeOK /\ (\A r \in Requests : ThreadOK(r)) /\ StartedOnly /\ Traced /\ QuietSweep
    /\ ForegroundIsWatched /\ QuietStopEndsAll /\ StopEndsQueue
=============================================================================
