--------------------------- MODULE DispenserRecipe ---------------------------
(***************************************************************************)
(* The recipe stage: run_measured_dispenser_recipe_sequence.py, which      *)
(* carries the cup from dispenser to dispenser, and its RecipeResumeTracker *)
(* the second journal of the system.  The journal names the next robot     *)
(* step; the cup is wherever the motions left it.  A motion that fails     *)
(* ends the process without a word in the journal, as a crash does.        *)
(*                                                                         *)
(* A recipe is a sequence of groups [id, count]: count strokes of the pump *)
(* of dispenser id.  Poses and motions are left out but for what they do   *)
(* to the cup.                                                             *)
(***************************************************************************)
EXTENDS Naturals, Sequences

CONSTANTS Dispensers,   \* physical dispenser ids
          Recipes,      \* grouped recipes an order can ask for
          None, Torn,   \* no journal file; one that does not parse
          MaxLaunches   \* bound: processes started for one order

Group == [id : Dispensers, count : Nat \ {0}]

Stages    == {"move_release", "press", "regrasp"}     \* RESUME_STAGES
Positions == [group : Nat, stage : Stages \cup {"cup_holder"}]
Journals  == [recipe : Recipes, group : Nat,
              stage : Stages \cup {"cup_holder"}, done : BOOLEAN]

ASSUME RecipeAssumption ==
    /\ None # Torn /\ {None, Torn} \cap Journals = {}
    /\ Recipes \subseteq Seq(Group)
    /\ \A r \in Recipes : Len(r) > 0
    /\ {"gripper", "holder", "lost"} \cap Dispensers = {}
    /\ MaxLaunches \in Nat

VARIABLES
    file,           \* the journal: what a resume reads
    buf,            \* what a _write() under way is writing, or None
    tr,             \* the tracker's next_group_index and next_stage
    pc, idx, at,    \* main(): what it does, its group, and its stage
    need,           \* the stages of the group that were found to be needed
    did,            \* effects of the current stage's motions so far
    recipe, skip,   \* the order; --skip-initial-move-release
    cup,            \* "gripper", "holder", "lost", or the dispenser it is at
    poured,         \* per group: strokes that went into the cup
    spilled,        \* strokes that did not
    launches,       \* processes started for this order
    own,            \* history: the journal has been opened for this order
    astray          \* history: the journal does not tell, see Unjournaled

process == <<buf, tr, pc, idx, at, need, did>>
world   == <<cup, poured, spilled>>
order   == <<recipe, skip, launches, own, astray>>
vars    == <<file, process, world, order>>

\* resume_stage_index(), and the order of the loop
Rank     == [move_release |-> 1, press |-> 2, regrasp |-> 3]
Follower == [move_release |-> "press", press |-> "regrasp"]

n    == Len(recipe)
Here == recipe[idx].id
Home(r, k) == IF k THEN r[1].id ELSE "gripper"

Beginning == [group |-> 1, stage |-> "move_release"]

\* Nothing ordered yet: the first order, then, is as any later one.
Init ==
    \E r \in Recipes, k \in BOOLEAN :
        /\ file = None /\ buf = None /\ tr = Beginning
        /\ pc = "off" /\ idx = 1 /\ at = "move_release" /\ need = {} /\ did = 0
        /\ recipe = r /\ skip = k /\ cup = Home(r, k)
        /\ poured = [g \in 1 .. Len(r) |-> 0] /\ spilled = 0
        /\ launches = 0 /\ own = FALSE /\ astray = FALSE

\* Another order: another cup has been picked up.  With k the operator starts
\* from a cup that stands at the first dispenser.
NewOrder(r, k) ==
    /\ pc = "off"
    /\ recipe' = r /\ skip' = k /\ cup' = Home(r, k)
    /\ poured' = [g \in 1 .. Len(r) |-> 0] /\ spilled' = 0
    /\ launches' = 0 /\ own' = FALSE /\ astray' = FALSE
    /\ UNCHANGED <<file, process>>
-----------------------------------------------------------------------------
(***************************************************************************)
(* RecipeResumeTracker.                                                    *)
(***************************************************************************)
\* _write(): the file is truncated, then filled.
Save(t, completed) ==
    /\ buf' = [recipe |-> recipe, group |-> t.group, stage |-> t.stage,
               done |-> completed]
    /\ file' = Torn

EndWrite ==
    /\ buf # None
    /\ file' = buf /\ buf' = None
    /\ UNCHANGED <<tr, pc, idx, at, need, did, world, order>>

IsJournal(f) == f \notin {None, Torn}

Begin ==
    /\ pc = "off" /\ launches < MaxLaunches
    /\ pc' = "init" /\ launches' = launches + 1

\* --no-resume --clear-resume-state, which the router passes unless it resumes
LaunchFresh ==
    /\ Begin /\ ~own
    /\ file' = None
    /\ tr' = Beginning
    /\ UNCHANGED <<buf, idx, at, need, did, world, recipe, skip, own, astray>>

\* _load_if_present(): an unfinished journal of another recipe and a torn one
\* are refused; a completed one counts as none at all.
Unfinished(f) == IsJournal(f) /\ ~f.done

\* Mutant of LaunchResume: what was loaded is not adopted.
LaunchResumeForgets ==
    /\ Begin /\ file # Torn
    /\ Unfinished(file) => file.recipe = recipe
    /\ tr' = Beginning
    /\ UNCHANGED <<file, buf, idx, at, need, did, world, recipe, skip, own, astray>>

LaunchResume ==
    /\ Begin
    /\ file # Torn
    /\ \/ ~Unfinished(file) /\ tr' = Beginning
       \/ /\ Unfinished(file) /\ file.recipe = recipe
          /\ tr' = [group |-> file.group, stage |-> file.stage]
    /\ astray' = (astray \/ (IsJournal(file) /\ (own <=> file.done)))
    /\ UNCHANGED <<file, buf, idx, at, need, did, world, recipe, skip, own>>

\* The end of __init__
OpenJournal ==
    /\ pc = "init"
    /\ Save(tr, FALSE)
    /\ pc' = "group" /\ idx' = 1 /\ own' = TRUE
    /\ UNCHANGED <<tr, at, need, did, world, recipe, skip, launches, astray>>

\* Mutant of ShouldRun: the stage the journal is at counts as done.
ShouldRunLater(g, s) ==
    IF g # tr.group THEN g > tr.group
    ELSE tr.stage # "cup_holder" /\ Rank[s] > Rank[tr.stage]

ShouldRun(g, s) ==
    IF g # tr.group THEN g > tr.group
    ELSE tr.stage # "cup_holder" /\ Rank[s] >= Rank[tr.stage]

\* Mutant of AfterStage: the press is followed by the next group.
AfterStageNoRegrasp(g, s) ==
    IF s = "move_release" THEN [group |-> g, stage |-> "press"]
    ELSE [group |-> g + 1, stage |-> "move_release"]

\* complete_stage(): what is next.
AfterStage(g, s) ==
    IF s = "regrasp" THEN [group |-> g + 1, stage |-> "move_release"]
    ELSE [group |-> g, stage |-> Follower[s]]

\* Mutant of ShouldRunCupHolder: one group too late.
ShouldRunCupHolderPast == tr.group > n + 1

ShouldRunCupHolder == tr.group >= n + 1
-----------------------------------------------------------------------------
(***************************************************************************)
(* main(): the loop over the groups.                                       *)
(***************************************************************************)
Needed == {s \in Stages : ShouldRun(idx, s)}

SkipGroup ==
    /\ pc = "group" /\ buf = None /\ idx <= n
    /\ Needed = {}
    /\ idx' = idx + 1
    /\ UNCHANGED <<file, buf, tr, pc, at, need, did, world, order>>

\* Mutant of EnterGroup: all stages are run, whatever the journal says.
EnterGroupAll ==
    /\ pc = "group" /\ buf = None /\ idx <= n
    /\ Needed # {}
    /\ need' = Stages /\ at' = "move_release" /\ pc' = "stage"
    /\ UNCHANGED <<file, buf, tr, idx, did, world, order>>

EnterGroup ==
    /\ pc = "group" /\ buf = None /\ idx <= n
    /\ Needed # {}
    /\ need' = Needed /\ at' = "move_release" /\ pc' = "stage"
    /\ UNCHANGED <<file, buf, tr, idx, did, world, order>>

PassStage ==
    /\ pc = "stage" /\ buf = None
    /\ at \notin need /\ at # "regrasp"
    /\ at' = Follower[at]
    /\ UNCHANGED <<file, buf, tr, pc, idx, need, did, world, order>>

StartStage ==
    /\ pc = "stage" /\ buf = None
    /\ at \in need
    /\ tr' = [group |-> idx, stage |-> at]
    /\ Save(tr', FALSE)
    /\ pc' = "act" /\ did' = 0
    /\ UNCHANGED <<idx, at, need, world, order>>

\* After the last group, when should_run_cup_holder() always holds.
StartCupHolder ==
    /\ pc = "group" /\ buf = None /\ idx > n
    /\ ShouldRunCupHolder
    /\ tr' = [group |-> n + 1, stage |-> "cup_holder"]
    /\ Save(tr', FALSE)
    /\ pc' = "act" /\ at' = "cup_holder" /\ did' = 0
    /\ UNCHANGED <<idx, need, world, order>>
-----------------------------------------------------------------------------
(***************************************************************************)
(* IntegratedRecipeMotion: what the motions of a stage do to the cup.      *)
(***************************************************************************)
Acting(s, k) == pc = "act" /\ buf = None /\ at = s /\ did = k

Effect ==
    /\ did' = did + 1
    /\ UNCHANGED <<file, buf, tr, pc, idx, at, need, order>>

\* The gripper opens at the dispenser.  If the cup stands there already, the
\* arm has been driven into it.
MoveAndRelease ==
    /\ Acting("move_release", 0) /\ ~skip
    /\ \/ cup \in {"gripper", Here} /\ cup' = Here
       \/ cup = Here /\ cup' = "lost"
       \/ cup \notin {"gripper", Here} /\ UNCHANGED cup
    /\ Effect
    /\ UNCHANGED <<poured, spilled>>

PressOnce ==
    /\ pc = "act" /\ buf = None /\ at = "press" /\ did < recipe[idx].count
    /\ IF cup = Here
       THEN poured' = [poured EXCEPT ![idx] = @ + 1] /\ UNCHANGED spilled
       ELSE spilled' = spilled + 1 /\ UNCHANGED poured
    /\ Effect
    /\ UNCHANGED cup

\* The gripper opens away from the dispenser, and drops what it holds.
OpenForRegrasp ==
    /\ Acting("regrasp", 0)
    /\ cup' = IF cup = "gripper" THEN "lost" ELSE cup
    /\ Effect
    /\ UNCHANGED <<poured, spilled>>

Grasp ==
    /\ Acting("regrasp", 1)
    /\ cup' = IF cup = Here THEN "gripper" ELSE cup
    /\ Effect
    /\ UNCHANGED <<poured, spilled>>

PlaceCupInHolder ==
    /\ Acting("cup_holder", 0)
    /\ cup' = IF cup = "gripper" THEN "holder" ELSE cup
    /\ Effect
    /\ UNCHANGED <<poured, spilled>>

\* Effects of a whole stage
Effects ==
    CASE at = "move_release" -> IF skip THEN 0 ELSE 1
      [] at = "press"        -> recipe[idx].count
      [] at = "regrasp"      -> 2
      [] at = "cup_holder"   -> 1

CompleteStage ==
    /\ pc = "act" /\ buf = None /\ at \in Stages /\ did = Effects
    /\ tr' = AfterStage(idx, at)
    /\ Save(tr', FALSE)
    /\ did' = 0
    /\ IF at = "regrasp"
       THEN pc' = "group" /\ idx' = idx + 1 /\ UNCHANGED at
       ELSE pc' = "stage" /\ at' = Follower[at] /\ UNCHANGED idx
    /\ UNCHANGED <<need, world, order>>

CompleteAll ==
    /\ pc = "act" /\ buf = None /\ at = "cup_holder" /\ did = Effects
    /\ Save(tr, TRUE)
    /\ pc' = "end" /\ did' = 0
    /\ UNCHANGED <<tr, idx, at, need, world, order>>

\* The process is gone: the volatile state is what a new one starts with.
Gone ==
    /\ buf' = None /\ tr' = Beginning /\ pc' = "off"
    /\ idx' = 1 /\ at' = "move_release" /\ need' = {} /\ did' = 0
    /\ UNCHANGED <<file, world, recipe, skip, launches, own>>

End == pc = "end" /\ buf = None /\ Gone /\ UNCHANGED astray

(***************************************************************************)
(* The journal does not describe the world, and what the next process does *)
(* is undetermined, from here on: an effect was left without its journal   *)
(* entry.  (LaunchResume has the two other ways to go astray: to go by the *)
(* journal of an earlier order, and to start a completed order again.)     *)
(***************************************************************************)
Unjournaled ==
    pc = "act" /\ did > 0 /\ ~(at = "regrasp" /\ did = 1)

\* A motion that fails (the process returns without writing), a crash or a kill.
Stop ==
    /\ pc # "off"
    /\ Gone
    /\ astray' = (astray \/ Unjournaled)
-----------------------------------------------------------------------------
Launch == LaunchFresh \/ LaunchResume

Motion == MoveAndRelease \/ PressOnce \/ OpenForRegrasp \/ Grasp \/ PlaceCupInHolder

Step == OpenJournal \/ EndWrite \/ SkipGroup \/ EnterGroup \/ PassStage
        \/ StartStage \/ StartCupHolder \/ Motion \/ CompleteStage
        \/ CompleteAll \/ End

Next == (\E r \in Recipes, k \in BOOLEAN : NewOrder(r, k))
        \/ Launch \/ Step \/ Stop

Spec == Init /\ [][Next]_vars

\* A process that is not stopped goes on.
FairSpec == Spec /\ WF_vars(Step)
-----------------------------------------------------------------------------
(***************************************************************************)
(* Properties.                                                             *)
(***************************************************************************)
TypeOK ==
    /\ recipe \in Recipes /\ skip \in BOOLEAN
    /\ file \in Journals \cup {None, Torn}
    /\ buf \in Journals \cup {None}
    /\ tr \in Positions
    /\ pc \in {"off", "init", "group", "stage", "act", "end"}
    /\ idx \in 1 .. n + 1
    /\ at \in Stages \cup {"cup_holder"}
    /\ need \in SUBSET Stages
    /\ did \in Nat
    /\ cup \in Dispensers \cup {"gripper", "holder", "lost"}
    /\ poured \in [1 .. n -> Nat] /\ spilled \in Nat
    /\ launches \in Nat /\ own \in BOOLEAN /\ astray \in BOOLEAN

\* The journal is about this order, and --skip-initial-move-release, if given,
\* concerns the one dispenser the cup stands at.
Sound == own /\ ~astray /\ (skip => n = 1)

\* Where the cup is when the stage that the journal names next has not begun.
CupFor(f) ==
    CASE f.done -> "holder"
      [] ~f.done /\ f.group > n -> "gripper"
      [] ~f.done /\ f.group <= n ->
           IF f.stage = "move_release" THEN Home(recipe, skip)
           ELSE recipe[f.group].id

\* Whenever the process may be replaced by another one that goes by the journal,
\* the cup is where the journal's next stage takes it from: in the gripper,
\* under the dispenser, or in the holder.
JournalTellsCup ==
    Sound /\ IsJournal(file) /\ ~Unjournaled => cup = CupFor(file)

\* The strokes that the journal f accounts for in group g
Accounted(f, g) ==
    IF g < f.group \/ (g = f.group /\ f.stage = "regrasp")
    THEN recipe[g].count ELSE 0

\* However often the process is stopped and resumed, each group's strokes have
\* gone into the cup exactly as often as the recipe says, if the journal says
\* so, and not at all, if it does not; none went past the cup.
PouredAsJournaled ==
    Sound /\ IsJournal(file) =>
        /\ spilled = 0
        /\ \A g \in 1 .. n :
             poured[g] = Accounted(file, g)
                 + (IF pc = "act" /\ at = "press" /\ g = idx THEN did ELSE 0)

\* The journal a resume would find if the write under way ended.
Committed == IF buf = None THEN file ELSE buf

(***************************************************************************)
(* The inductive invariant behind JournalTellsCup and PouredAsJournaled.   *)
(***************************************************************************)

\* The tracker's position as _write() puts it on record
Entry(completed) ==
    [recipe |-> recipe, group |-> tr.group, stage |-> tr.stage, done |-> completed]

\* f is a position in recipe r.
InRecipe(f, r) ==
    \/ f.group \in 1 .. Len(r) /\ f.stage \in Stages
    \/ f.group = Len(r) + 1 /\ f.stage \in {"move_release", "cup_holder"}

JournalsValid ==
    /\ IsJournal(file) => /\ InRecipe(file, file.recipe)
                          /\ file.done => file.group = Len(file.recipe) + 1
                          /\ own => file.recipe = recipe
    /\ own => file # None
    /\ buf # None => file = Torn
    /\ pc \in {"off", "init"} => buf = None
    /\ ~own => pc \in {"off", "init"}

\* What the tracker says fits where the process is, and is on record.
OnRecord ==
    /\ IF pc = "off" THEN idx = 1 ELSE InRecipe(tr, recipe)
    /\ pc = "init" /\ own => IsJournal(file) /\ (file.done \/ file = Entry(FALSE))
    /\ pc \notin {"off", "init"} => Committed = Entry(pc = "end")
    /\ pc = "group" => idx <= tr.group
    /\ pc = "stage" => /\ idx = tr.group /\ idx <= n
                       /\ at \in Stages /\ Rank[at] <= Rank[tr.stage]
    /\ pc = "act" => /\ idx = tr.group /\ at = tr.stage /\ (at \in Stages => idx <= n)
                     /\ did <= Effects /\ (did > 0 => buf = None)
    /\ pc \in {"stage", "act"} /\ at \in Stages =>
          {s \in need : Rank[s] >= Rank[at]} = {s \in Stages : Rank[s] >= Rank[tr.stage]}
    /\ pc = "end" => tr.group = n + 1

\* The cup is where position f has it, and has got what f accounts for.
Describes(f) ==
    /\ cup = CupFor(f) /\ spilled = 0
    /\ \A g \in 1 .. n : poured[g] = Accounted(f, g)

\* The same in the middle of a stage
CupMidStage ==
    /\ did = 0 \/ at = "press" \/ (at = "regrasp" /\ did = 1) => cup = CupFor(Entry(FALSE))
    /\ at = "move_release" /\ did = 1 => cup = Here
    /\ at = "regrasp" /\ did = 2      => cup = "gripper"
    /\ at = "cup_holder" /\ did = 1   => cup = "holder"

WorldKnown ==
    ~astray /\ (skip => n = 1) =>
        /\ ~own => /\ cup = Home(recipe, skip) /\ spilled = 0
                   /\ \A g \in 1 .. n : poured[g] = 0
                   /\ pc = "init" => tr = Beginning
        /\ own /\ pc = "off" /\ IsJournal(file) => Describes(file)
        /\ own /\ pc = "init" => ~file.done
        /\ own /\ pc \in {"init", "group", "stage"} => Describes(Entry(FALSE))
        /\ pc = "end" => Describes(Entry(TRUE))
        /\ pc = "act" => /\ CupMidStage /\ spilled = 0
                         /\ \A g \in 1 .. n :
                              poured[g] = Accounted(Entry(FALSE), g)
                                + (IF at = "press" /\ g = idx THEN did ELSE 0)

RInv == TypeOK /\ JournalsValid /\ OnRecord /\ WorldKnown

\* f is at an earlier stage than g
Before(f, g) ==
    \/ f.group < g.group
    \/ /\ f.group = g.group
       /\ f.stage \in Stages /\ g.stage \in Stages /\ Rank[f.stage] < Rank[g.stage]

\* Within an order the journal is lost or moves on, but never goes back: no
\* process does again what the journal has put on record, unless it has put
\* the whole order on record.
JournalNeverGoesBack ==
    [][own /\ own' /\ Unfinished(Committed) /\ IsJournal(Committed')
        => ~Before(Committed', Committed)]_vars

\* Whatever journal it starts from, this order's or another's, a process that
\* is not stopped gets through all groups and ends.
ProcessEnds == pc = "init" ~> pc = "off"
=============================================================================
