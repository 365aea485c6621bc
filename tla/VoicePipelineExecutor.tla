------------------------- MODULE VoicePipelineExecutor -------------------------
(***************************************************************************)
(* VoicePipelineExecutorNode: confirmed orders and spoken recovery         *)
(* commands start the flow script as a process, one at a time.  The node's *)
(* callback thread (`cb`) decides and starts; a monitor thread per         *)
(* pipeline reads the script's output, waits for it, frees the slot and    *)
(* reports.  They share `_active_proc` and `_active_recipe_id` (`slot`,    *)
(* `slotId`).  The critical sections of `_lock` are short and never wait,  *)
(* so each is one step; what is between two of them is not.                *)
(***************************************************************************)
EXTENDS Naturals, FiniteSets

CONSTANTS
    RecipeIds,      \* recipe ids of confirmed orders
    NoId,           \* `_active_recipe_id` is None
    EmptyId,        \* the recipe id "" of a recovery command
    Snapshots,      \* kinds of snapshot considered
    MaxPipelines,   \* bound: pipelines ever started
    MaxLines        \* bound: unread lines of a pipeline's output

\* "none": missing or torn; "orderless": without recipe_colors; "manual": not auto_recoverable
AllSnapshots == {"none", "orderless", "manual", "completed", "open"}

ASSUME ExecutorAssumption ==
    /\ "none" \in Snapshots /\ Snapshots \subseteq AllSnapshots
    /\ MaxPipelines \in Nat /\ MaxLines \in Nat
    /\ EmptyId # NoId /\ NoId \notin RecipeIds

VARIABLES
    slot,           \* `_active_proc`, 0 for None
    slotId,         \* `_active_recipe_id`
    cb,             \* the callback thread
    proc, recipe,   \* per pipeline: its process, the id it was ordered by
    unread,         \* per pipeline: lines the monitor has not yet read
    mon,            \* per pipeline: its monitor thread
    last,           \* the pipeline started last
    saved,          \* what load_resume_snapshot() would find
    shown,          \* the last message on the status topic, as screens show it
    strays          \* history: pipelines that ran on when the node lost sight of them

vars == <<slot, slotId, cb, proc, recipe, unread, mon, last, saved, shown, strays>>

Pipelines == 1 .. MaxPipelines
Ids == RecipeIds \cup {EmptyId}
Intents == {"recheck_recovery", "resume_flow", "restart_flow"}

Running == {p \in Pipelines : proc[p] = "running"}
Idle == [pc |-> "idle", id |-> EmptyId]
\* A status message; `fresh` while the node that published it is still the one running.
Publish(status, p) == shown' = [status |-> status, about |-> p, fresh |-> TRUE]

Statuses == {"nothing", "blocked", "busy", "starting", "dry_run", "running", "completed", "failed",
             "recovery_cleared", "recovery_ready"}
Messages == [status : Statuses, about : 0 .. MaxPipelines + 1, fresh : BOOLEAN]

Init ==
    /\ slot = 0 /\ slotId = NoId /\ cb = Idle /\ last = 0 /\ strays = {}
    /\ proc = [p \in Pipelines |-> "none"]
    /\ recipe = [p \in Pipelines |-> EmptyId]
    /\ unread = [p \in Pipelines |-> 0]
    /\ mon = [p \in Pipelines |-> "none"]
    /\ saved \in Snapshots
    /\ shown = [status |-> "nothing", about |-> 0, fresh |-> FALSE]

-----------------------------------------------------------------------------
(* The callback thread.                                                    *)

\* A message that is no JSON, not confirmed, without colors or of unknown intent.
RefuseMessage ==
    /\ cb.pc = "idle"
    /\ Publish("blocked", 0)
    /\ UNCHANGED <<slot, slotId, cb, proc, recipe, unread, mon, last, saved, strays>>

ReceiveOrder(id) ==
    /\ cb.pc = "idle"
    /\ cb' = [pc |-> "claim", id |-> id]
    /\ UNCHANGED <<slot, slotId, proc, recipe, unread, mon, last, saved, shown, strays>>

ClearRecovery ==
    /\ cb.pc = "idle"
    /\ saved' = "none"
    /\ Publish("recovery_cleared", 0)
    /\ UNCHANGED <<slot, slotId, cb, proc, recipe, unread, mon, last, strays>>

\* A recovery command judges the snapshot it has loaded.  Load and judgement are one
\* step: the file is read once, and nothing that happens in between changes the answer.
Blocked(intent) == {"none"} \cup (IF intent = "recheck_recovery" THEN {"manual"} ELSE {"orderless"})
                            \cup (IF intent = "resume_flow" THEN {"manual"} ELSE {})

AlreadyDone(intent) == intent = "resume_flow" /\ saved = "completed"

\* The recovery commands that are answered without starting anything.
AnswerRecovery(intent) ==
    /\ cb.pc = "idle"
    /\ \/ saved \in Blocked(intent) /\ Publish("blocked", 0)
       \/ AlreadyDone(intent) /\ Publish("completed", 0)
       \/ saved \notin Blocked(intent) /\ intent = "recheck_recovery" /\ Publish("recovery_ready", 0)
    /\ UNCHANGED <<slot, slotId, cb, proc, recipe, unread, mon, last, saved, strays>>

AcceptRecovery(intent) ==
    /\ cb.pc = "idle" /\ intent # "recheck_recovery"
    /\ saved \notin Blocked(intent) /\ ~ AlreadyDone(intent)
    /\ cb' = [pc |-> "claim", id |-> EmptyId]
    /\ UNCHANGED <<slot, slotId, proc, recipe, unread, mon, last, saved, shown, strays>>

Busy == slot \in Running

\* Mutant: the id is set before the busy test.
RefuseBusyRenames ==
    /\ cb.pc = "claim" /\ Busy
    /\ slotId' = cb.id
    /\ cb' = Idle
    /\ Publish("busy", 0)
    /\ UNCHANGED <<slot, proc, recipe, unread, mon, last, saved, strays>>

RefuseBusy ==
    /\ cb.pc = "claim" /\ Busy
    /\ cb' = Idle
    /\ Publish("busy", 0)
    /\ UNCHANGED <<slot, slotId, proc, recipe, unread, mon, last, saved, strays>>

\* Mutant: no busy test.
ClaimUntested ==
    /\ cb.pc = "claim"
    /\ slotId' = cb.id
    /\ cb' = [cb EXCEPT !.pc = "announce"]
    /\ UNCHANGED <<slot, proc, recipe, unread, mon, last, saved, shown, strays>>

Claim ==
    /\ cb.pc = "claim" /\ ~ Busy
    /\ slotId' = cb.id
    /\ cb' = [cb EXCEPT !.pc = "announce"]
    /\ UNCHANGED <<slot, proc, recipe, unread, mon, last, saved, shown, strays>>

Announce ==
    /\ cb.pc = "announce"
    /\ cb' = [cb EXCEPT !.pc = "spawn"]
    /\ Publish("starting", last + 1)
    /\ UNCHANGED <<slot, slotId, proc, recipe, unread, mon, last, saved, strays>>

\* enable_hardware_execution is off, or Popen raises OSError.
SpawnNothing ==
    /\ cb.pc = "spawn" /\ cb' = Idle
    /\ \E status \in {"dry_run", "failed"} : Publish(status, 0)
    /\ UNCHANGED <<slot, slotId, proc, recipe, unread, mon, last, saved, strays>>

Spawn ==
    /\ cb.pc = "spawn" /\ last < MaxPipelines
    /\ last' = last + 1
    /\ proc' = [proc EXCEPT ![last + 1] = "running"]
    /\ recipe' = [recipe EXCEPT ![last + 1] = cb.id]
    /\ cb' = [cb EXCEPT !.pc = "store"]
    /\ UNCHANGED <<slot, slotId, unread, mon, saved, shown, strays>>

\* Storing the process and starting its monitor: nothing else looks in between.
Store ==
    /\ cb.pc = "store" /\ cb' = Idle
    /\ slot' = last
    /\ mon' = [mon EXCEPT ![last] = "reading"]
    /\ UNCHANGED <<slotId, proc, recipe, unread, last, saved, shown, strays>>

Receive == \/ RefuseMessage \/ ClearRecovery
           \/ \E id \in RecipeIds : ReceiveOrder(id)
           \/ \E intent \in Intents : AnswerRecovery(intent) \/ AcceptRecovery(intent)

Callback == \/ RefuseBusy \/ Claim \/ Announce \/ SpawnNothing \/ Spawn \/ Store

-----------------------------------------------------------------------------
(* A pipeline's process: the flow script and the router under it.          *)

PrintStage(p) ==
    /\ p \in Running /\ unread[p] < MaxLines
    /\ unread' = [unread EXCEPT ![p] = @ + 1]
    /\ UNCHANGED <<slot, slotId, cb, proc, recipe, mon, last, saved, shown, strays>>

\* The router's journal, or one of its torn writes.
WriteJournal(p) ==
    /\ p \in Running
    /\ saved' \in Snapshots
    /\ UNCHANGED <<slot, slotId, cb, proc, recipe, unread, mon, last, shown, strays>>

ScriptExit(p) ==
    /\ p \in Running
    /\ \E code \in {"ok", "error"} : proc' = [proc EXCEPT ![p] = code]
    /\ UNCHANGED <<slot, slotId, cb, recipe, unread, mon, last, saved, shown, strays>>

-----------------------------------------------------------------------------
(* The monitor thread of pipeline p.                                       *)

ReadLine(p) ==
    /\ mon[p] = "reading" /\ unread[p] > 0
    /\ unread' = [unread EXCEPT ![p] = @ - 1]
    /\ \/ Publish("running", p)
       \/ UNCHANGED shown            \* the stage is the one already published
    /\ UNCHANGED <<slot, slotId, cb, proc, recipe, mon, last, saved, strays>>

\* Mutant: the monitor waits for its pipeline to be the one in the slot.
WaitOwnSlot(p) ==
    /\ mon[p] = "reading" /\ unread[p] = 0 /\ p \notin Running /\ slot = p
    /\ mon' = [mon EXCEPT ![p] = "waited"]
    /\ UNCHANGED <<slot, slotId, cb, proc, recipe, unread, last, saved, shown, strays>>

Wait(p) ==
    /\ mon[p] = "reading" /\ unread[p] = 0 /\ p \notin Running
    /\ mon' = [mon EXCEPT ![p] = "waited"]
    /\ UNCHANGED <<slot, slotId, cb, proc, recipe, unread, last, saved, shown, strays>>

\* Clears the slot, whoever is in it.
FreeSlot(p) ==
    /\ mon[p] = "waited"
    /\ slot' = 0 /\ slotId' = NoId
    /\ mon' = [mon EXCEPT ![p] = "freed"]
    /\ strays' = strays \cup ({slot} \cap Running)
    /\ UNCHANGED <<cb, proc, recipe, unread, last, saved, shown>>

\* Mutant: the end of a failed pipeline is not published.
ReportSuccess(p) ==
    /\ mon[p] = "freed"
    /\ mon' = [mon EXCEPT ![p] = "reported"]
    /\ IF proc[p] = "ok" THEN Publish("completed", p) ELSE UNCHANGED shown
    /\ UNCHANGED <<slot, slotId, cb, proc, recipe, unread, last, saved, strays>>

Report(p) ==
    /\ mon[p] = "freed"
    /\ mon' = [mon EXCEPT ![p] = "reported"]
    /\ Publish(IF proc[p] = "ok" THEN "completed" ELSE "failed", p)
    /\ UNCHANGED <<slot, slotId, cb, proc, recipe, unread, last, saved, strays>>

Monitor(p) == ReadLine(p) \/ Wait(p) \/ FreeSlot(p) \/ Report(p)

-----------------------------------------------------------------------------
\* The node ends, by shutdown or by a crash, and is started again.  Its threads
\* are gone.  Pipelines are in sessions of their own: one that is not signalled
\* (destroy_node signals the one in the slot, a crash none) or takes its time to
\* end runs on.
RestartNode ==
    /\ slot' = 0 /\ slotId' = NoId /\ cb' = Idle
    /\ mon' = [p \in Pipelines |-> IF p <= last /\ mon[p] # "reported" THEN "gone" ELSE mon[p]]
    /\ strays' = strays \cup Running
    /\ shown' = [shown EXCEPT !.fresh = FALSE]
    /\ UNCHANGED <<proc, recipe, unread, last, saved>>

Next ==
    \/ Receive \/ Callback \/ RestartNode
    \/ \E p \in Pipelines : PrintStage(p) \/ WriteJournal(p) \/ ScriptExit(p) \/ Monitor(p)

Spec == Init /\ [][Next]_vars

\* Threads are scheduled, and the flow script ends: nothing in the node bounds it.
FairSpec == /\ Spec /\ WF_vars(Callback)
            /\ \A p \in Pipelines : WF_vars(Monitor(p)) /\ WF_vars(ScriptExit(p))

-----------------------------------------------------------------------------
TypeOK ==
    /\ slot \in 0 .. last /\ last \in 0 .. MaxPipelines
    /\ slotId \in Ids \cup {NoId}
    /\ cb \in [pc : {"idle", "claim", "announce", "spawn", "store"}, id : Ids]
    /\ proc \in [Pipelines -> {"none", "running", "ok", "error"}]
    /\ recipe \in [Pipelines -> Ids]
    /\ unread \in [Pipelines -> 0 .. MaxLines]
    /\ mon \in [Pipelines -> {"none", "reading", "waited", "freed", "reported", "gone"}]
    /\ saved \in Snapshots
    /\ shown \in Messages
    /\ strays \subseteq Pipelines

\* Two pipelines move the robot at once only if the node has lost sight of one: its
\* slot was cleared by the monitor of an earlier pipeline, or the node was restarted
\* while it ran.  In every other interleaving the busy test keeps them apart, although
\* it and the storing of the process are separate critical sections.
OnlyStraysOverlap == \A p, q \in Running \ strays : p = q

\* A refused order is told the id of the order that is running, or none (the monitor of
\* the previous pipeline may have cleared the id that the callback had set already), but
\* never the id of another order.
BusyNamesNoOther == Busy => slotId \in {NoId, recipe[slot]}

Live(p) == mon[p] \in {"reading", "waited", "freed"}

\* A screen does not stay at "making": as long as the last word is starting or running,
\* the callback thread or the pipeline's monitor still has a message to publish.
MakingIsUnderWay ==
    shown.fresh /\ shown.status \in {"starting", "running"} =>
        cb.pc \in {"spawn", "store"} \/ (shown.about \in Pipelines /\ Live(shown.about))

(* The inductive invariant, for the proofs in VoicePipelineExecutorProofs.   *)

\* Pipelines are numbered in the order they are started.
Numbered == \A p \in Pipelines : p > last => proc[p] = "none"

\* A pipeline that runs is in the slot, about to be put there, or a stray.
InSight ==
    /\ strays \subseteq 1 .. last /\ slot \notin strays
    /\ cb.pc = "store" => last \in Pipelines \ strays
    /\ \A p \in Running \ strays : p = slot \/ (cb.pc = "store" /\ p = last)

\* From the busy test until the new process is stored, none in the slot runs, and the id
\* is the new order's unless a monitor has cleared it.
Claimed ==
    /\ cb.pc \in {"announce", "spawn", "store"} => ~ Busy
    /\ cb.pc \in {"announce", "spawn"} => slotId \in {NoId, cb.id}
    /\ cb.pc = "store" => slotId \in {NoId, recipe[last]}

\* Who will have the next word after starting or running.
NextWord ==
    shown.fresh /\ shown.status \in {"starting", "running"} =>
        \/ cb.pc = "spawn" /\ shown.about = last + 1
        \/ cb.pc = "store" /\ shown.about = last
        \/ shown.about \in Pipelines /\ Live(shown.about)

EInv == TypeOK /\ Numbered /\ InSight /\ Claimed /\ BusyNamesNoOther /\ NextWord

\* Every pipeline that is watched gets its end reported, unless the node is restarted.
EndIsTold == \A p \in Pipelines : Live(p) ~> mon[p] \in {"reported", "gone"}
=============================================================================
