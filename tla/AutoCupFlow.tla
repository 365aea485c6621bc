----------------------------- MODULE AutoCupFlow -----------------------------
(***************************************************************************)
(* One order through AutoCupFlowRouter (auto_cup_flow_router.py) and its   *)
(* durable stage journal (AutoFlowResumeStore).                            *)
(*                                                                         *)
(* The router's main thread walks through the stages, starts one child     *)
(* process per stage and waits for it.  A reader thread per child follows  *)
(* the child's output and journals progress behind the main thread's back. *)
(* Both threads change the same snapshot and then write it to one file,    *)
(* under a lock, by truncating the file and filling it again.  The whole   *)
(* process may die at any step; what survives is the file.                 *)
(***************************************************************************)
EXTENDS ResumeSnapshot, Sequences

CONSTANTS None,            \* no snapshot: {} in memory, nothing readable on disk
          ProgressStages,  \* stages whose output update_progress() follows
          FaultStages,     \* stages whose output can call fail_stage()
          LaunchStages,    \* stages run by `ros2 launch`
          MaxLines         \* bound: lines of one child not yet read

ASSUME FlowAssumption ==
    /\ None \notin Snapshots \cup RunIds
    /\ ProgressStages \subseteq Stage
    /\ FaultStages \subseteq Stage
    /\ LaunchStages \subseteq Stage
    /\ MaxLines \in Nat

VARIABLES
    file,      \* what load_resume_snapshot() returns now
    snap,      \* the store's self.snapshot
    pc, cur,   \* main thread: what it does next, and the stage it is at
    resuming,  \* resume_mode is "resume"
    want,      \* threads that changed the snapshot and have yet to write it
    buf,       \* what a thread inside write_text() is writing, or None
    child,     \* the process of the current stage
    pipe,      \* lines each stage's child printed and no reader is done with
    beat,      \* readers that are past heartbeat() with the line they are at
    failures,  \* stages with an entry in _child_node_failures
    ledger     \* history: what became of each stage's action, per run id

router == <<snap, pc, cur, resuming, want, buf, child, pipe, beat, failures>>
vars   == <<file, router, ledger>>

Main    == 0
Threads == {Main} \cup Stage     \* thread i > 0 is the reader of stage i
Lines   == {"text", "progress", "fault", "died"}

\* "ok" is an action that did its work, "died" one whose launch exited with
\* code 0 after losing a node.
Outcomes == {"none", "started", "ok", "died", "failed"}

Idle(t) == t \notin want /\ buf[t] = None

\* A machine on which no router has run yet.
Init ==
    /\ file = None /\ snap = None /\ pc = "off" /\ cur = 1
    /\ resuming = FALSE /\ want = {} /\ buf = [t \in Threads |-> None]
    /\ child = "none" /\ pipe = [s \in Stage |-> <<>>]
    /\ beat = {} /\ failures = {}
    /\ ledger = [r \in RunIds |-> [s \in Stage |-> "none"]]
-----------------------------------------------------------------------------
(***************************************************************************)
(* Launch: main(), _prepare_resume_store() and prepare().  A refused       *)
(* resume blocks: it makes a new snapshot, writes it and exits.            *)
(***************************************************************************)
FreshRun(r) ==
    /\ file = None \/ (file # None /\ file.run # r)
    /\ ledger' = [ledger EXCEPT ![r] = [s \in Stage |-> "none"]]

LaunchNew(m, o, r) ==
    /\ pc = "off"
    /\ m \in {"normal", "restart"}
    /\ FreshRun(r)
    /\ snap' = NewSnapshot(r, "running", o)
    /\ file' = IF m = "restart" THEN None ELSE file
    /\ pc' = "stage" /\ cur' = 1 /\ resuming' = FALSE
    /\ want' = {Main}
    /\ UNCHANGED <<buf, child, pipe, beat, failures>>

LaunchResume(o) ==
    /\ pc = "off"
    /\ file # None
    /\ SameOrder(o, file)
    /\ snap' = Resumed(file)
    /\ pc' = "stage" /\ cur' = 1 /\ resuming' = TRUE
    /\ want' = {Main}
    /\ UNCHANGED <<file, buf, child, pipe, beat, failures, ledger>>

RefuseResume(o, r) ==
    /\ pc = "off"
    /\ file = None \/ (file # None /\ ~SameOrder(o, file))
    /\ FreshRun(r)
    /\ snap' = Blocked(r, o)
    /\ pc' = "exit" /\ resuming' = TRUE
    /\ want' = {Main}
    /\ UNCHANGED <<file, cur, buf, child, pipe, beat, failures>>
-----------------------------------------------------------------------------
(***************************************************************************)
(* _write_snapshot(): with the lock held the snapshot is dumped as it is   *)
(* now, the file is truncated, then filled.                                *)
(***************************************************************************)
\* Mutant of BeginWrite: no lock.
BeginWriteUnlocked(t) ==
    /\ t \in want
    /\ buf' = [buf EXCEPT ![t] = snap]
    /\ want' = want \ {t}
    /\ file' = None
    /\ UNCHANGED <<snap, pc, cur, resuming, child, pipe, beat, failures, ledger>>

BeginWrite(t) ==
    /\ t \in want
    /\ \A u \in Threads : buf[u] = None
    /\ buf' = [buf EXCEPT ![t] = snap]
    /\ want' = want \ {t}
    /\ file' = None
    /\ UNCHANGED <<snap, pc, cur, resuming, child, pipe, beat, failures,
                   ledger>>

EndWrite(t) ==
    /\ buf[t] # None
    /\ file' = buf[t]
    /\ buf' = [buf EXCEPT ![t] = None]
    /\ UNCHANGED <<snap, pc, cur, resuming, want, child, pipe, beat, failures,
                   ledger>>
-----------------------------------------------------------------------------
(***************************************************************************)
(* The main thread: run() and _run_resumable_stage().                      *)
(***************************************************************************)
\* Mutant of Skip: trust "next_stage" instead of the list of completed stages.
SkipToNext(i) == resuming /\ i < snap.next

\* Mutant of Skip: skip the stage the snapshot is at, too.
SkipThroughCurrent(i) == resuming /\ i \in snap.done \cup {snap.stage}

Skip(i) == resuming /\ i \in snap.done      \* should_skip

SkipStage ==
    /\ pc = "stage" /\ Idle(Main) /\ cur \in Stage
    /\ Skip(cur)
    /\ cur' = cur + 1
    /\ UNCHANGED <<file, snap, pc, resuming, want, buf, child, pipe, beat,
                   failures, ledger>>

StartStage ==
    /\ pc = "stage" /\ Idle(Main) /\ cur \in Stage
    /\ ~Skip(cur)
    /\ snap' = Started(snap, cur)
    /\ want' = want \cup {Main}
    /\ pc' = "spawn"
    /\ UNCHANGED <<file, cur, resuming, buf, child, pipe, beat, failures,
                   ledger>>

\* The stage's action begins: a service call, or _run_process() after it has
\* dropped what an earlier process of this label left in _child_node_failures.
Spawn ==
    /\ pc = "spawn" /\ Idle(Main)
    /\ child' = "running"
    /\ failures' = failures \ {cur}
    /\ ledger' = [ledger EXCEPT ![snap.run][cur] = "started"]
    /\ pc' = "wait"
    /\ UNCHANGED <<file, snap, cur, resuming, want, buf, pipe, beat>>

\* Mutant of Passed: only the node deaths count, not the exit code.
PassedAnyCode == cur \notin failures

\* proc.wait() has returned: node deaths read so far fail the stage, then the
\* exit code decides.
Passed == child = "exit0" /\ cur \notin failures

Reap ==
    /\ pc = "wait" /\ child \in {"exit0", "exit1"}
    /\ child' = "none"
    /\ failures' = failures \ {cur}
    /\ want' = want \cup {Main}
    /\ \/ /\ Passed
          /\ snap' = Completed(snap, cur)
          /\ cur' = cur + 1 /\ pc' = "stage"
       \/ /\ ~Passed
          /\ snap' = Failed(snap, cur)
          /\ pc' = "exit" /\ UNCHANGED cur
    /\ UNCHANGED <<file, resuming, buf, pipe, beat, ledger>>

FinishRun ==
    /\ pc = "stage" /\ Idle(Main) /\ cur = Complete
    /\ snap' = RunCompleted(snap)
    /\ want' = want \cup {Main}
    /\ pc' = "exit"
    /\ UNCHANGED <<file, cur, resuming, buf, child, pipe, beat, failures,
                   ledger>>

\* The reader threads are daemons: they end with the process, wherever they are.
Vanish ==
    /\ snap' = None /\ pc' = "off" /\ cur' = 1 /\ resuming' = FALSE
    /\ want' = {} /\ buf' = [t \in Threads |-> None]
    /\ child' = "none" /\ pipe' = [s \in Stage |-> <<>>]
    /\ beat' = {} /\ failures' = {}
    /\ UNCHANGED <<file, ledger>>

Exit == pc = "exit" /\ Idle(Main) /\ Vanish

\* Ctrl-C (not an Exception, so no fail_stage), a kill, or the power going off.
Crash == pc # "off" /\ Vanish
-----------------------------------------------------------------------------
(***************************************************************************)
(* The child process of the current stage.                                 *)
(***************************************************************************)
Emit(line) == pipe' = [pipe EXCEPT ![cur] = Append(@, line)]

PrintLine(line) ==
    /\ child = "running"
    /\ line = "text" \/ cur \in ProgressStages
    /\ Len(pipe[cur]) < MaxLines
    /\ Emit(line)
    /\ UNCHANGED <<file, snap, pc, cur, resuming, want, buf, child, beat,
                   failures, ledger>>

\* The lid stage prints a status "failed"; the chain script then ends with an
\* exit code other than 0.
PrintFault ==
    /\ child = "running" /\ cur \in FaultStages
    /\ Len(pipe[cur]) < MaxLines
    /\ Emit("fault")
    /\ child' = "faulted"
    /\ UNCHANGED <<file, snap, pc, cur, resuming, want, buf, beat, failures,
                   ledger>>

\* A node of the launch dies: the launch reports it and winds up.
NodeDies ==
    /\ child = "running" /\ cur \in LaunchStages
    /\ Len(pipe[cur]) < MaxLines
    /\ Emit("died")
    /\ child' = "nodeless"
    /\ UNCHANGED <<file, snap, pc, cur, resuming, want, buf, beat, failures,
                   ledger>>

\* Mutant of ChildExit: a launch that lost a node does not wind up.
ChildExitUnlessNodeless(code, outcome) ==
    /\ \/ child = "running" /\ <<code, outcome>> = <<"exit0", "ok">>
       \/ child \in {"running", "faulted"}
          /\ <<code, outcome>> = <<"exit1", "failed">>
    /\ child' = code
    /\ ledger' = [ledger EXCEPT ![snap.run][cur] = outcome]
    /\ UNCHANGED <<file, snap, pc, cur, resuming, want, buf, pipe, beat, failures>>

ChildExit(code, outcome) ==
    /\ \/ child = "running"  /\ <<code, outcome>> = <<"exit0", "ok">>
       \/ child = "nodeless" /\ <<code, outcome>> = <<"exit0", "died">>
       \/ child \in {"running", "faulted", "nodeless"}
          /\ <<code, outcome>> = <<"exit1", "failed">>
    /\ child' = code
    /\ ledger' = [ledger EXCEPT ![snap.run][cur] = outcome]
    /\ UNCHANGED <<file, snap, pc, cur, resuming, want, buf, pipe, beat,
                   failures>>
-----------------------------------------------------------------------------
(***************************************************************************)
(* The reader of stage s: _forward_output().  For every line it first      *)
(* calls heartbeat(), which writes the snapshot with new time stamps at    *)
(* most every two seconds, and then looks at what the line says.           *)
(***************************************************************************)
Heartbeat(s) ==
    /\ Idle(s) /\ pipe[s] # <<>> /\ s \notin beat
    /\ beat' = beat \cup {s}
    /\ want' \in {want, want \cup {s}}
    /\ UNCHANGED <<file, snap, pc, cur, resuming, buf, child, pipe, failures,
                   ledger>>

TakeLine(s, line) ==
    /\ Idle(s) /\ s \in beat /\ pipe[s] # <<>> /\ Head(pipe[s]) = line
    /\ pipe' = [pipe EXCEPT ![s] = Tail(@)]
    /\ beat' = beat \ {s}
    /\ UNCHANGED <<file, pc, cur, resuming, buf, child, ledger>>

\* The test in update_progress() for a step it has journaled already.
Known(s) == snap.stage = s /\ snap.step = "progress"

ReadProgress(s) ==
    /\ TakeLine(s, "progress")
    /\ \/ /\ ~Known(s)
          /\ snap' = Progressed(snap, s)
          /\ want' = want \cup {s}
       \/ /\ Known(s)
          /\ want' \in {want, want \cup {s}}    \* heartbeat() again
          /\ UNCHANGED snap
    /\ UNCHANGED failures

ReadFault(s) ==
    /\ TakeLine(s, "fault")
    /\ snap' = Failed(snap, s)
    /\ want' = want \cup {s}
    /\ UNCHANGED failures

ReadOther(s) ==
    /\ \/ TakeLine(s, "text") /\ UNCHANGED failures
       \/ TakeLine(s, "died") /\ failures' = failures \cup {s}
    /\ UNCHANGED <<snap, want>>

Read(s) == Heartbeat(s) \/ ReadProgress(s) \/ ReadFault(s) \/ ReadOther(s)
-----------------------------------------------------------------------------
Launch ==
    \E o \in Orders \cup {NoOrder} :
        \/ \E r \in RunIds : LaunchNew("normal", o, r)
        \/ \E r \in RunIds : LaunchNew("restart", o, r)
        \/ LaunchResume(o)
        \/ \E r \in RunIds : RefuseResume(o, r)

ChildStep ==
    \/ (\E line \in {"text", "progress"} : PrintLine(line)) \/ PrintFault \/ NodeDies
    \/ \E code \in {"exit0", "exit1"}, o \in Outcomes : ChildExit(code, o)

MainStep == SkipStage \/ StartStage \/ Spawn \/ Reap \/ FinishRun \/ Exit

Write == \E t \in Threads : BeginWrite(t) \/ EndWrite(t)

Next == Launch \/ MainStep \/ Write \/ ChildStep \/ Crash
        \/ \E s \in Stage : Read(s)

Spec == Init /\ [][Next]_vars

\* Threads run when they can, children end.  Nothing makes an operator launch
\* a router, and nothing makes one crash.
Fairness ==
    /\ WF_vars(MainStep)
    /\ \A t \in Threads : WF_vars(BeginWrite(t)) /\ WF_vars(EndWrite(t))
    /\ WF_vars(\E code \in {"exit0", "exit1"}, o \in Outcomes : ChildExit(code, o))
    /\ \A s \in Stage : WF_vars(Read(s))

FairSpec == Spec /\ Fairness
-----------------------------------------------------------------------------
(***************************************************************************)
(* Properties.                                                             *)
(***************************************************************************)
TypeOK ==
    /\ file \in Snapshots \cup {None}
    /\ snap \in Snapshots \cup {None}
    /\ pc \in {"off", "stage", "spawn", "wait", "exit"}
    /\ pc # "off" => snap # None
    /\ cur \in 1 .. Complete
    /\ pc \in {"spawn", "wait"} => cur \in Stage
    /\ resuming \in BOOLEAN
    /\ want \in SUBSET Threads
    /\ buf \in [Threads -> Snapshots \cup {None}]
    /\ child \in {"none", "running", "faulted", "nodeless", "exit0", "exit1"}
    /\ child # "none" => pc = "wait"
    /\ pipe \in [Stage -> Seq(Lines)]
    /\ beat \in SUBSET Stage
    /\ failures \in SUBSET Stage
    /\ ledger \in [RunIds -> [Stage -> Outcomes]]

\* Two threads change one snapshot and each rewrites the whole file.  Whenever
\* no thread of a running router has a write left to do, the file holds exactly
\* the snapshot: neither thread's write can bring back an older one.
FileFollowsSnapshot ==
    (pc # "off" /\ \A t \in Threads : Idle(t)) => file = snap

\* What the file can tell a later resume is true of the world: a stage it lists
\* as completed ran, in this very run or one it was resumed from, to exit code
\* 0.  This holds across crashes, refused resumes and runs given up half way.
JournalIsEarned ==
    file # None => \A s \in file.done : ledger[file.run][s] \in {"ok", "died"}

\* No step of any thread, crash or relaunch starts over a stage which the file
\* lists as completed: a resumed order never repeats journaled work.
JournaledWorkIsKept ==
    [][file # None =>
         \A s \in file.done : ledger'[file.run][s] = ledger[file.run][s]]_vars

\* The journal a reader would find once the write in progress, if there is one,
\* has ended.
Writers   == {t \in Threads : buf[t] # None}
Committed == IF Writers = {} THEN file ELSE buf[CHOOSE t \in Writers : TRUE]

\* The file implements the abstract journal: whatever the threads, crashes and
\* relaunches do, it is never rolled back, never grows by more than the one
\* stage that just completed, and is lost only as a whole.
Journal == INSTANCE StageJournal WITH
    run  <- IF Committed = None THEN None ELSE Committed.run,
    done <- IF Committed = None THEN {} ELSE Committed.done

JournalImplemented == Journal!Spec

\* Every run ends: main thread and readers cannot lock each other out of the
\* file, and no stage is waited for once its child has ended.
RunsEnd == pc # "off" ~> pc = "off"

(***************************************************************************)
(* The inductive invariant behind the safety properties above.             *)
(***************************************************************************)
OffIsQuiet ==
    pc = "off" => /\ snap = None /\ want = {} /\ Writers = {}
                  /\ \A s \in Stage : pipe[s] = <<>>

\* The lock: one thread writes at a time, and until it is done the file is torn.
OneWriter ==
    /\ \A t, u \in Writers : t = u
    /\ Writers # {} => file = None

\* The snapshot is on its way to the file, if it is not there.
SnapshotOnItsWay ==
    pc # "off" => \/ want # {} \/ file = snap
                  \/ \E t \in Threads : buf[t] = snap

Earned(j) == j # None => \A s \in j.done : ledger[j.run][s] \in {"ok", "died"}

\* j is an older state of the journal that the router has in memory.
Behind(j) ==
    (pc # "off" /\ j # None) => (j.run = snap.run => j.done \subseteq snap.done)

AllEarned ==
    /\ Earned(file) /\ Earned(snap) /\ \A t \in Threads : Earned(buf[t])
    /\ Behind(file) /\ \A t \in Threads : Behind(buf[t])
    /\ child = "exit0" => ledger[snap.run][cur] \in {"ok", "died"}

\* Where the main thread is among the stages.
AtStage ==
    /\ pc \in {"stage", "spawn", "wait"} => 1 .. (cur - 1) \subseteq snap.done
    /\ pc \in {"stage", "spawn", "wait"} /\ ~resuming =>
          snap.done \subseteq 1 .. (cur - 1)
    /\ pc \in {"spawn", "wait"} => cur \notin snap.done
    /\ pc = "wait" => Main \notin want

\* The committed journal is the snapshot's, short of at most one stage, or an
\* older one that a journal without any stage is about to replace.
OneStageAhead ==
    pc # "off" =>
      IF Committed # None /\ Committed.run = snap.run
      THEN \/ snap.done = Committed.done
           \/ /\ Main \in want
              /\ \E s \in Stage : /\ s \notin Committed.done
                                  /\ 1 .. (s - 1) \subseteq Committed.done
                                  /\ snap.done = Committed.done \cup {s}
      ELSE snap.done = {} /\ Main \in want

IInv == /\ TypeOK /\ OffIsQuiet /\ OneWriter /\ SnapshotOnItsWay
        /\ AllEarned /\ AtStage /\ OneStageAhead

(***************************************************************************)
(* What the repository says and the code does not do.                      *)
(***************************************************************************)

\* A resume without a saved state, or for another order, is refused with the
\* advice to start a new order first: what the refused resume leaves behind is
\* no run that a second resume could continue.
ResumedRunsWereBegun ==
    [][pc = "off" /\ pc' = "stage" /\ resuming' => file.status # "blocked"]_vars

\* A launch exits with code 0 even when one of its nodes died, so the router
\* looks for the death in the output: such a stage is not journaled as done.
LostNodeIsNoSuccess ==
    file # None => \A s \in file.done : ledger[file.run][s] # "died"
=============================================================================
