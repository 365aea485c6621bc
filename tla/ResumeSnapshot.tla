--------------------------- MODULE ResumeSnapshot ---------------------------
(***************************************************************************)
(* The stage journal of the cocktail flow as values: what each method of   *)
(* AutoFlowResumeStore (auto_flow_resume_state.py) makes of the snapshot   *)
(* it keeps in memory.  Stage number i is FLOW_STAGES[i-1]; Complete       *)
(* stands for the "complete" that next_stage() returns when none is left.  *)
(* Left out of a snapshot: time stamps, labels, message texts, and the     *)
(* verified facts and held objects, which only the lid stage reads.        *)
(***************************************************************************)
EXTENDS Integers

CONSTANTS NumStages,  \* length of FLOW_STAGES
          Orders,     \* recipe_colors strings a launch can be given
          NoOrder,    \* the empty recipe_colors string
          RunIds      \* the uuids a new snapshot can draw

ASSUME SnapshotAssumption ==
    /\ NumStages \in Nat \ {0}
    /\ NoOrder \notin Orders

Stage    == 1 .. NumStages
Complete == NumStages + 1

Statuses == {"running", "stopped", "blocked", "completed"}

\* What the "step" string says about the stage it belongs to: start_stage,
\* update_progress, complete_stage, fail_stage and complete_run write it.
Steps == {"none", "start", "progress", "done", "failed", "complete"}

\* next_stage(): the first stage that is not among the completed ones.
NextStage(done) ==
    LET open == (Stage \ done) \cup {Complete}
    IN  CHOOSE s \in open : \A t \in open : s <= t

Snapshots == [run    : RunIds,
              status : Statuses,
              stage  : 0 .. Complete,           \* 0 is None
              step   : Steps,
              next   : 1 .. Complete,
              done   : SUBSET Stage,            \* completed_stages
              order  : Orders \cup {NoOrder},   \* recipe.recipe_colors
              auto   : BOOLEAN]                 \* auto_recoverable

\* _new_snapshot
NewSnapshot(r, status, o) ==
    [run |-> r, status |-> status, stage |-> 0, step |-> "none", next |-> 1,
     done |-> {}, order |-> o, auto |-> TRUE]

\* block() on a store that has no snapshot yet
Blocked(r, o) == [NewSnapshot(r, "blocked", o) EXCEPT !.auto = FALSE]

\* Mutant of Resumed: the completed stages are worked out again from
\* "next_stage", which a late reader may have set back.
ResumedFromNext(s) ==
    [s EXCEPT !.status = "running", !.done = 1 .. (s.next - 1)]

\* The tail of prepare() that adopts the previous snapshot.
Resumed(s) == [s EXCEPT !.status = "running"]

\* start_stage
Started(s, i) ==
    [s EXCEPT !.status = "running", !.stage = i, !.step = "start",
              !.next = i, !.auto = TRUE]

\* complete_stage
Completed(s, i) ==
    LET all == s.done \cup {i}
    IN  [s EXCEPT !.status = "running", !.stage = i, !.step = "done",
                  !.done = all, !.next = NextStage(all)]

\* update_progress, when the stage or the step is a new one
Progressed(s, i) ==
    [s EXCEPT !.status = "running", !.stage = i, !.step = "progress",
              !.next = i]

\* fail_stage; every caller in the router passes auto_recoverable=True
Failed(s, i) ==
    [s EXCEPT !.status = "stopped", !.stage = i, !.step = "failed",
              !.next = i, !.auto = TRUE]

\* complete_run
RunCompleted(s) ==
    [s EXCEPT !.status = "completed", !.stage = Complete,
              !.step = "complete", !.next = Complete, !.done = Stage]

\* The test prepare() makes before it adopts a previous snapshot.
SameOrder(o, s) == o = NoOrder \/ s.order = NoOrder \/ o = s.order
=============================================================================
