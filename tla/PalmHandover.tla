---------------------------- MODULE PalmHandover ----------------------------
(***************************************************************************)
(* The last stage of the flow: the router sees to it that camera and hand  *)
(* detection run, a watcher waits until an open palm has been held still,  *)
(* and a handover script takes the cup there, goes down in steps while it  *)
(* reads the tool force, and opens the gripper.  The detector publishes a  *)
(* point (only for a palm that is open and still) and then a status, over  *)
(* two topics; the watcher stamps a point if the latest status it has      *)
(* heard is ready.  Time passes in ticks of half a second.                 *)
(***************************************************************************)
EXTENDS Naturals, Sequences, FiniteSets, SequencesExt

CONSTANTS
    Configs,        \* options: [contact (required for the release), recheck, floor, steps]
    Window,         \* ticks a stamp counts (--trigger-window-sec 1.5)
    MinStable,      \* ticks from the first stamp to the trigger (--trigger-min-stable-sec 1.0)
    Count,          \* stamps for a trigger (--trigger-stable-count 2)
    MaxWait,        \* ticks until the watcher gives up
    Confirms,       \* readings that confirm a contact (--contact-confirm-samples 3)
    MaxForce,       \* bound: bands of tool force that the thresholds tell apart
    StatusDepth,    \* bound: statuses in flight (10 in the code)
    MaxStamps,      \* bound: stamps that the watcher holds
    MaxAttempts     \* bound: attempts at the stage

Levels == 0 .. MaxForce

ASSUME HandoverAssumption ==
    /\ Configs \subseteq [contact : BOOLEAN, recheck : BOOLEAN, floor : Nat, steps : Nat]
    /\ {Window, MinStable, Count, MaxWait, Confirms, MaxForce, StatusDepth, MaxStamps, MaxAttempts}
         \subseteq Nat \ {0}
    /\ MinStable <= Window

VARIABLES
    cfg,            \* the options, fixed
    topics,         \* {"camera", "detector"}: what publishes
    helpers,        \* of these, what this router run has started
    palm,           \* the detector's window: empty, filling (an open palm) or stable
    statuses,       \* statuses in flight, TRUE for a ready one
    point,          \* a point is in flight (best effort, depth 1)
    watch,          \* the watcher: [ready, stamps (their ages), left]
    calm,           \* history: ticks since the watcher heard a status that is not ready (capped)
    stage,          \* [pc, attempt, rc]
    arm,            \* steps down from above the palm
    force,          \* [prev, ref, hits]: last reading, reference of a candidate, hits in a row
    hand, cup,      \* the gripper: closed or open; the cup: gripper or human
    journal         \* the router's record: [cup, done]

vars == <<cfg, topics, helpers, palm, statuses, point, watch, calm, stage, arm, force,
          hand, cup, journal>>
detecting == <<palm, statuses, point>>
watching == <<watch, calm>>
world == <<arm, force, hand, cup>>

NoReading == [prev |-> 0, ref |-> 0, hits |-> 0]

Init ==
    /\ cfg \in Configs /\ topics \in SUBSET {"camera", "detector"} /\ helpers = {}
    /\ palm = "empty" /\ statuses = <<>> /\ point = FALSE
    /\ watch = [ready |-> FALSE, stamps |-> <<>>, left |-> 0] /\ calm = 0
    /\ stage = [pc |-> "idle", attempt |-> 0, rc |-> 0]
    /\ arm = 0 /\ force = NoReading /\ hand = "closed" /\ cup = "gripper"
    /\ journal = [cup |-> "gripper", done |-> FALSE]

At(pc) == stage.pc = pc
Goes(pc) == stage' = [stage EXCEPT !.pc = pc]
Ends(rc) == stage' = [stage EXCEPT !.pc = "over", !.rc = rc]

-----------------------------------------------------------------------------
(* The router's stage.                                                     *)

\* A stage that the journal has as done is skipped.
Begin ==
    /\ At("idle") /\ stage.attempt < MaxAttempts /\ ~journal.done
    /\ stage' = [pc |-> "camera", attempt |-> stage.attempt + 1, rc |-> 0]
    /\ UNCHANGED <<cfg, topics, helpers, detecting, watching, world, journal>>

\* A helper whose topic has no publisher is started, and its topics are waited for: they come,
\* or a RuntimeError ends the stage with the helpers still there.
Support(helper, next) ==
    /\ At(helper)
    /\ \/ helper \in topics /\ Goes(next) /\ UNCHANGED <<topics, helpers>>
       \/ /\ helper \notin topics
          /\ helpers' = helpers \cup {helper}
          /\ \/ topics' = topics \cup {helper} /\ Goes(next)
             \/ topics' = topics /\ Ends(1)
    /\ UNCHANGED <<cfg, detecting, watching, world, journal>>

StartSupport == Support("camera", "detector") \/ Support("detector", "listen")

\* The watcher subscribes and says so; the router journals the line.
Listen ==
    /\ At("listen") /\ Goes("watch")
    /\ statuses' = <<>> /\ point' = FALSE
    /\ watch' = [ready |-> FALSE, stamps |-> <<>>, left |-> MaxWait] /\ calm' = 0
    /\ journal' = [journal EXCEPT !.cup = "gripper"]
    /\ palm' \in {"empty", "filling", "stable"}
    /\ UNCHANGED <<cfg, topics, helpers, world>>

\* The stage's helpers, or with an exception the run's children, are stopped; the PASS line and
\* the stage's completion are journaled.
Finish ==
    /\ At("over") /\ Goes("idle")
    /\ topics' = topics \ helpers /\ helpers' = {}
    /\ journal' = IF stage.rc = 0 THEN [cup |-> "human", done |-> TRUE] ELSE journal
    /\ UNCHANGED <<cfg, detecting, watching, world>>

-----------------------------------------------------------------------------
(* The hand detector, a node of its own.                                   *)

CanPublish == {"camera", "detector"} \subseteq topics

\* A frame without an open palm at a valid depth empties the window.  A palm in a stable window is
\* published (and may be lost) before its status, which the watcher may find not ready for its depth.
Frame ==
    /\ At("watch") /\ CanPublish /\ Len(statuses) < StatusDepth
    /\ \/ /\ palm' = "empty" /\ statuses' = Append(statuses, FALSE) /\ UNCHANGED point
       \/ /\ palm # "stable" /\ palm' = "filling"
          /\ statuses' = Append(statuses, FALSE) /\ UNCHANGED point
       \/ /\ palm = "stable" /\ UNCHANGED palm
          /\ \E ready \in BOOLEAN : statuses' = Append(statuses, ready)
          /\ point' \in {point, TRUE}
    /\ UNCHANGED <<cfg, topics, helpers, watching, stage, world, journal>>

\* A window that has been filled for a tick is stable.
Settle == palm' = IF palm = "filling" THEN "stable" ELSE palm

\* The detector dies; without images it lives on and publishes nothing.
Dies ==
    /\ At("watch") /\ CanPublish
    /\ topics' = topics \ {"detector"}
    /\ UNCHANGED <<cfg, helpers, detecting, watching, stage, world, journal>>

-----------------------------------------------------------------------------
(* The watcher: each turn of its loop handles one callback or lets time    *)
(* pass, drops old stamps and looks whether the palm has been held.        *)

Off == [ready |-> FALSE, stamps |-> <<>>, left |-> 0]

\* The rest of a turn, with what the callback leaves; stamps are in the order of time, so that the old
\* ones are the first n.  The watcher's end takes its subscriptions along.
Turn(ready, stamps, left, queue, slot) ==
    \E n \in 0 .. Len(stamps) :
        LET kept == SubSeq(stamps, n + 1, Len(stamps))
            triggered == Len(kept) >= Count /\ kept[1] >= MinStable
        IN /\ \A i \in DOMAIN stamps : stamps[i] > Window <=> i <= n
           /\ IF triggered \/ left = 0
              THEN /\ watch' = Off /\ statuses' = <<>> /\ point' = FALSE
                   /\ IF triggered THEN Goes("pose") ELSE Ends(3)
              ELSE /\ watch' = [ready |-> ready, stamps |-> kept, left |-> left]
                   /\ statuses' = queue /\ point' = slot /\ UNCHANGED stage

\* Mutant: a status that is not ready leaves the stamps.
HearStatusKeeps ==
    /\ At("watch") /\ statuses # <<>>
    /\ calm' = IF Head(statuses) THEN calm ELSE 0
    /\ Turn(Head(statuses), watch.stamps, watch.left, Tail(statuses), point)
    /\ UNCHANGED <<cfg, topics, helpers, palm, world, journal>>

HearStatus ==
    /\ At("watch") /\ statuses # <<>>
    /\ calm' = IF Head(statuses) THEN calm ELSE 0
    /\ Turn(Head(statuses), IF Head(statuses) THEN watch.stamps ELSE <<>>, watch.left,
            Tail(statuses), point)
    /\ UNCHANGED <<cfg, topics, helpers, palm, world, journal>>

\* A point that comes while the latest status is not ready is left out.
HearPoint ==
    /\ At("watch") /\ point /\ Len(watch.stamps) < MaxStamps
    /\ Turn(watch.ready, IF watch.ready THEN Append(watch.stamps, 0) ELSE watch.stamps, watch.left,
            statuses, FALSE)
    /\ UNCHANGED <<cfg, topics, helpers, palm, calm, world, journal>>

\* Mutant: no deadline.
TickForEver ==
    /\ At("watch")
    /\ Settle
    /\ calm' = IF calm < MinStable THEN calm + 1 ELSE calm
    /\ Turn(watch.ready, [i \in DOMAIN watch.stamps |-> watch.stamps[i] + 1], watch.left,
            statuses, point)
    /\ UNCHANGED <<cfg, topics, helpers, world, journal>>

Tick ==
    /\ At("watch")
    /\ Settle
    /\ calm' = IF calm < MinStable THEN calm + 1 ELSE calm
    /\ Turn(watch.ready, [i \in DOMAIN watch.stamps |-> watch.stamps[i] + 1], watch.left - 1,
            statuses, point)
    /\ UNCHANGED <<cfg, topics, helpers, world, journal>>

-----------------------------------------------------------------------------
(* The handover script.  A RuntimeError of any step ends it with 1, and    *)
(* the arm stays where it is.                                              *)

Still == UNCHANGED <<cfg, topics, helpers, detecting, watching>>

\* Pose and palm are read, the palm must be within bounds, the cup goes up and over to it.
Approach ==
    /\ At("pose")
    /\ \/ Goes(IF cfg.recheck THEN "recheck" ELSE "baseline")
       \/ Ends(1)
    /\ arm' = 0 /\ force' = NoReading
    /\ Still /\ UNCHANGED <<hand, cup, journal>>

\* The palm has moved: back, with the cup.
Recheck ==
    /\ At("recheck")
    /\ Goes("baseline") \/ Goes("back") \/ Ends(1)
    /\ Still /\ UNCHANGED <<world, journal>>

Lowest == IF cfg.steps > 0 /\ cfg.steps < cfg.floor THEN cfg.steps ELSE cfg.floor

\* The average of the first readings is the baseline, 0 here.
Baseline ==
    /\ At("baseline")
    /\ Goes("down") \/ Ends(1)
    /\ Still /\ UNCHANGED <<world, journal>>

\* Mutant: one step too many.
DownPast ==
    /\ At("down")
    /\ IF arm <= Lowest
       THEN \/ Goes("read") /\ arm' = arm + 1
            \/ Ends(1) /\ UNCHANGED arm
       ELSE Goes(IF cfg.contact THEN "back" ELSE "open") /\ UNCHANGED arm
    /\ Still /\ UNCHANGED <<force, hand, cup, journal>>

\* The search is over at the floor or after the last step.  Without a confirmed contact the cup is
\* taken back, unless contact is not required.
Down ==
    /\ At("down")
    /\ IF arm < Lowest
       THEN \/ Goes("read") /\ arm' = arm + 1
            \/ Ends(1) /\ UNCHANGED arm
       ELSE Goes(IF cfg.contact THEN "back" ELSE "open") /\ UNCHANGED arm
    /\ Still /\ UNCHANGED <<force, hand, cup, journal>>

\* A candidate is above the baseline and above the last reading.
Read ==
    /\ At("read")
    /\ \/ \E f \in Levels :
            IF f > 0 /\ f > force.prev
            THEN force' = [prev |-> f, ref |-> force.prev, hits |-> 0] /\ Goes("confirm")
            ELSE force' = [force EXCEPT !.prev = f] /\ Goes("down")
       \/ Ends(1) /\ UNCHANGED force
    /\ Still /\ UNCHANGED <<arm, hand, cup, journal>>

\* Mutant: any hit among the confirming readings will do.
ConfirmOnce ==
    /\ At("confirm")
    /\ \/ \E f \in Levels :
            IF f > force.ref
            THEN force' = [force EXCEPT !.hits = @ + 1] /\ Goes("open")
            ELSE force' = [force EXCEPT !.hits = 0] /\ Goes("down")
       \/ Ends(1) /\ UNCHANGED force
    /\ Still /\ UNCHANGED <<arm, hand, cup, journal>>

\* All confirming readings have to be above the last reading before the candidate.  If one is not,
\* the candidate was noise: its reading is what the next ones are compared with.
Confirm ==
    /\ At("confirm")
    /\ \/ \E f \in Levels :
            IF f > force.ref
            THEN /\ force' = [force EXCEPT !.hits = @ + 1]
                 /\ Goes(IF force.hits + 1 = Confirms THEN "open" ELSE "confirm")
            ELSE force' = [force EXCEPT !.hits = 0] /\ Goes("down")
       \/ Ends(1) /\ UNCHANGED force
    /\ Still /\ UNCHANGED <<arm, hand, cup, journal>>

\* The gripper's service, started if it is absent, opens the hand and says so; or it fails, or its
\* answer comes too late: then the hand may be open or closed.
Open ==
    /\ At("open")
    /\ \/ hand' = "open" /\ cup' = "human" /\ (Goes("away") \/ Ends(1))
       \/ UNCHANGED <<hand, cup>> /\ Ends(1)
    /\ Still /\ UNCHANGED <<arm, force, journal>>

\* Mutant: a handover that was given up ends well, too.
RetreatAlways ==
    /\ stage.pc \in {"back", "away"}
    /\ Ends(0)
    /\ Still /\ UNCHANGED <<world, journal>>

Retreat ==
    /\ stage.pc \in {"back", "away"}
    /\ (At("away") /\ Ends(0)) \/ Ends(1)
    /\ Still /\ UNCHANGED <<world, journal>>

-----------------------------------------------------------------------------
Watch == HearStatus \/ HearPoint \/ Tick
Handover == Approach \/ Recheck \/ Baseline \/ Down \/ Read \/ Confirm \/ Open \/ Retreat
Next == Begin \/ StartSupport \/ Listen \/ Finish \/ Frame \/ Dies \/ Watch \/ Handover

Spec == Init /\ [][Next]_vars

\* Clocks run and the scripts go on; neither a palm nor a running detector is taken for granted.
FairSpec == Spec /\ WF_vars(StartSupport \/ Listen \/ Finish) /\ WF_vars(Tick) /\ WF_vars(Handover)

-----------------------------------------------------------------------------
Scripts == {"pose", "recheck", "baseline", "down", "read", "confirm", "open", "back", "away"}

TypeOK ==
    /\ cfg \in Configs
    /\ topics \subseteq {"camera", "detector"} /\ helpers \subseteq {"camera", "detector"}
    /\ palm \in {"empty", "filling", "stable"}
    /\ statuses \in Seq(BOOLEAN) /\ Len(statuses) <= StatusDepth /\ point \in BOOLEAN
    /\ watch.ready \in BOOLEAN /\ watch.left \in 0 .. MaxWait
    /\ watch.stamps \in Seq(0 .. Window) /\ Len(watch.stamps) <= MaxStamps
    /\ calm \in 0 .. MinStable
    /\ stage.pc \in {"idle", "camera", "detector", "listen", "watch", "over"} \cup Scripts
    /\ stage.attempt \in 0 .. MaxAttempts /\ stage.rc \in {0, 1, 3}
    /\ arm \in 0 .. cfg.floor
    /\ force \in [prev : Levels, ref : Levels, hits : 0 .. Confirms]
    /\ hand \in {"closed", "open"} /\ cup \in {"gripper", "human"}
    /\ journal \in [cup : {"gripper", "human"}, done : BOOLEAN]

\* The arm moves towards a person only after the watcher has heard nothing but ready statuses for
\* as long as a stable palm takes: statuses and points come over two topics, late, lost or from a
\* detector that has died, and the stamps of a palm that has gone must not count.
TriggerIsCalm == stage.pc \in Scripts => calm = MinStable

\* The hand opens over a confirmed contact, or where the search ends if contact is not required:
\* no noise in the force, no failed move and no failed reading lets go of the cup above the palm.
ReleaseIsEarned ==
    At("open") \/ (At("away") /\ hand = "open") =>
        force.hits = Confirms \/ (~cfg.contact /\ arm = Lowest)

\* The journal gives the cup to the person only if the hand has let go of it, whatever failed on
\* the way; after that the stage is not begun again.
HumanHasCup == journal.cup = "human" \/ journal.done => cup = "human" /\ hand = "open"

\* An attempt at the stage comes to an end, whether or not a palm is shown and the detector lives.
HandoverEnds == ~At("idle") ~> At("idle")

-----------------------------------------------------------------------------
(* The inductive invariant of the script and the journal.                  *)

\* The variables that the script and the journal share, with their types.
StagePlaces == {"idle", "camera", "detector", "listen", "watch", "over"} \cup Scripts
StageRecords == [pc : StagePlaces, attempt : Nat, rc : {0, 1, 3}]
ForceRecords == [prev : Levels, ref : Levels, hits : Nat]

ScriptOK ==
    /\ cfg \in Configs
    /\ stage \in StageRecords /\ arm \in Nat /\ force \in ForceRecords
    /\ journal \in [cup : {"gripper", "human"}, done : BOOLEAN]

\* The search does not go below where it ends.
ArmIsAbove == arm <= Lowest

\* Where the script goes away, and where it has ended well, the hand has let go of the cup.
LetGo ==
    At("away") \/ (At("over") /\ stage.rc = 0) => hand = "open" /\ cup = "human"

\* The watcher stops counting at its deadline, and the script confirms no longer than it has to.
CountsDown ==
    /\ At("watch") => watch.left > 0
    /\ At("confirm") => force.hits < Confirms

\* No stamp is older than the last status that was not ready.
StampsAreCalm == \A i \in DOMAIN watch.stamps : calm = MinStable \/ watch.stamps[i] <= calm

\* All of it, with the safety properties of the stage: the release's part, and the watcher's.
HandInv == ScriptOK /\ ArmIsAbove /\ LetGo /\ ReleaseIsEarned /\ HumanHasCup
WatchInv == TypeOK /\ CountsDown /\ StampsAreCalm /\ TriggerIsCalm
HandoverInv == HandInv /\ WatchInv
=============================================================================
