---------------------- MODULE VoicePipelineExecutorProofs ----------------------
(***************************************************************************)
(* Theorems about VoicePipelineExecutor, for every set of recipe ids and   *)
(* every bound on pipelines and lines.                                     *)
(***************************************************************************)
EXTENDS VoicePipelineExecutor, TLAPS

\* The constants' assumption, with the sizes of the sets it speaks of.
LEMMA ConstantsFact ==
    /\ MaxPipelines \in Nat /\ MaxLines \in Nat
    /\ "none" \in Snapshots
    /\ EmptyId # NoId /\ NoId \notin Ids
BY ExecutorAssumption DEF ExecutorAssumption, Ids

\* What is published is a message.
LEMMA PublishTyped ==
    ASSUME NEW status \in Statuses, NEW p \in 0 .. MaxPipelines + 1, Publish(status, p)
    PROVE  shown' \in Messages
BY Zenon DEF Publish, Messages

\* Messages are about no pipeline, one of them, or the next one.
LEMMA AboutTyped ==
    /\ 0 \in 0 .. MaxPipelines + 1
    /\ \A p \in Pipelines : p \in 0 .. MaxPipelines + 1
    /\ \A n \in 0 .. MaxPipelines : n + 1 \in 0 .. MaxPipelines + 1
BY ConstantsFact DEF Pipelines

\* The initial states satisfy the invariant.
LEMMA InitEInv == Init => EInv
<1> SUFFICES ASSUME Init PROVE EInv
    OBVIOUS
<1> USE ConstantsFact DEF Init
<1>1. TypeOK
  <2>1. shown \in Messages
      BY AboutTyped, Zenon DEF Messages, Statuses
  <2> QED
      BY <2>1 DEF TypeOK, Idle, Ids, Pipelines
<1>2. Numbered /\ InSight /\ Claimed /\ BusyNamesNoOther /\ NextWord
    BY DEF Numbered, InSight, Claimed, BusyNamesNoOther, NextWord, Busy, Running, Idle, Pipelines
<1> QED
    BY <1>1, <1>2 DEF EInv

\* Type correctness is kept by every step.
LEMMA NextTypeOK == EInv /\ [Next]_vars => TypeOK'
<1> SUFFICES ASSUME EInv, [Next]_vars PROVE TypeOK'
    OBVIOUS
<1> USE ConstantsFact DEF EInv, TypeOK
<1>1. CASE RefuseMessage
    BY <1>1, PublishTyped, AboutTyped DEF Statuses, RefuseMessage
<1>2. CASE ClearRecovery
    BY <1>2, PublishTyped, AboutTyped DEF Statuses, ClearRecovery
<1>3. ASSUME NEW id \in RecipeIds, ReceiveOrder(id) PROVE TypeOK'
    BY <1>3 DEF ReceiveOrder, Ids
<1>4. ASSUME NEW intent \in Intents, AnswerRecovery(intent) PROVE TypeOK'
    BY <1>4, PublishTyped, AboutTyped DEF Statuses, AnswerRecovery
<1>5. ASSUME NEW intent \in Intents, AcceptRecovery(intent) PROVE TypeOK'
    BY <1>5 DEF AcceptRecovery, Ids
<1>6. CASE RefuseBusy
    BY <1>6, PublishTyped, AboutTyped DEF Statuses, RefuseBusy, Idle, Ids
<1>7. CASE Claim
    BY <1>7 DEF Claim
<1>8. CASE Announce
    BY <1>8, PublishTyped, AboutTyped DEF Statuses, Announce
<1>9. CASE SpawnNothing
    BY <1>9, PublishTyped, AboutTyped DEF Statuses, SpawnNothing, Idle, Ids
<1>10. CASE Spawn
    BY <1>10 DEF Spawn, Pipelines
<1>11. CASE Store
  <2>1. last \in 0 .. last' /\ last \in Pipelines
      BY <1>11 DEF Store, InSight
  <2> QED
      BY <1>11, <2>1 DEF Store, Idle, Ids
<1>12. ASSUME NEW p \in Pipelines, PrintStage(p) PROVE TypeOK'
    BY <1>12 DEF PrintStage
<1>13. ASSUME NEW p \in Pipelines, WriteJournal(p) PROVE TypeOK'
    BY <1>13 DEF WriteJournal
<1>14. ASSUME NEW p \in Pipelines, ScriptExit(p) PROVE TypeOK'
    BY <1>14 DEF ScriptExit
<1>15. ASSUME NEW p \in Pipelines, ReadLine(p) PROVE TypeOK'
    BY <1>15, PublishTyped, AboutTyped DEF Statuses, ReadLine
<1>16. ASSUME NEW p \in Pipelines, Wait(p) PROVE TypeOK'
    BY <1>16 DEF Wait
<1>17. ASSUME NEW p \in Pipelines, FreeSlot(p) PROVE TypeOK'
    BY <1>17 DEF FreeSlot, Running
<1>18. ASSUME NEW p \in Pipelines, Report(p) PROVE TypeOK'
    BY <1>18, PublishTyped, AboutTyped DEF Statuses, Report
<1>19. CASE RestartNode
  <2>1. shown' \in Messages
      BY <1>19, Zenon DEF RestartNode, Messages
  <2>2. mon' \in [Pipelines -> {"none", "reading", "waited", "freed", "reported", "gone"}]
      BY <1>19 DEF RestartNode
  <2> QED
      BY <1>19, <2>1, <2>2 DEF RestartNode, Idle, Ids, Running
<1>20. CASE UNCHANGED vars
    BY <1>20 DEF vars
<1> QED
    BY <1>1, <1>2, <1>3, <1>4, <1>5, <1>6, <1>7, <1>8, <1>9, <1>10, <1>11, <1>12, <1>13, <1>14, <1>15,
       <1>16, <1>17, <1>18, <1>19, <1>20 DEF Next, Receive, Callback, Monitor

\* The part of the invariant about slot, processes and the callback thread, apart from
\* the words on the status topic.
Slots == Numbered /\ InSight /\ Claimed /\ BusyNamesNoOther

\* A step that leaves slot, callback thread and processes alone, or only moves the
\* callback thread among places where it has not yet claimed the slot, keeps Slots.
LEMMA BystanderKeepsSlots ==
    ASSUME EInv, UNCHANGED <<slot, slotId, proc, recipe, last, strays>>,
           cb' = cb \/ (cb.pc # "store" /\ cb'.pc \in {"idle", "claim"})
    PROVE  Slots'
<1>1. Numbered'
    BY DEF EInv, Numbered
<1>2. InSight'
    BY DEF EInv, InSight, Running
<1>3. Claimed' /\ BusyNamesNoOther'
    BY DEF EInv, Claimed, BusyNamesNoOther, Busy, Running
<1> QED
    BY <1>1, <1>2, <1>3 DEF Slots

\* Slot, processes and callback thread stay in agreement in every step.
LEMMA NextSlots == EInv /\ [Next]_vars => Slots'
<1> SUFFICES ASSUME EInv, [Next]_vars PROVE Slots'
    OBVIOUS
<1> USE ConstantsFact
<1>0. TypeOK /\ Slots
    BY DEF EInv, Slots
<1>1. CASE RefuseMessage \/ ClearRecovery
    BY <1>1, BystanderKeepsSlots DEF RefuseMessage, ClearRecovery
<1>2. ASSUME NEW id \in RecipeIds, ReceiveOrder(id) PROVE Slots'
    BY <1>2, BystanderKeepsSlots DEF ReceiveOrder
<1>3. ASSUME NEW intent \in Intents, AnswerRecovery(intent) \/ AcceptRecovery(intent) PROVE Slots'
    BY <1>3, BystanderKeepsSlots DEF AnswerRecovery, AcceptRecovery
<1>4. CASE RefuseBusy \/ SpawnNothing
    BY <1>4, BystanderKeepsSlots DEF RefuseBusy, SpawnNothing, Idle
<1>5. CASE Claim
  <2>1. cb'.pc = "announce" /\ cb'.id = cb.id
      BY <1>0, <1>5 DEF Claim, TypeOK
  <2> QED
      BY <1>0, <1>5, <2>1 DEF Claim, Slots, Numbered, InSight, Claimed, BusyNamesNoOther, Busy, Running
<1>6. CASE Announce
  <2>1. cb'.pc = "spawn" /\ cb'.id = cb.id
      BY <1>0, <1>6 DEF Announce, TypeOK
  <2> QED
      BY <1>0, <1>6, <2>1 DEF Announce, Slots, Numbered, InSight, Claimed, BusyNamesNoOther, Busy, Running
<1>7. CASE Spawn
  <2>1. /\ cb'.pc = "store" /\ last' = last + 1 /\ last + 1 \in Pipelines
        /\ slot' = slot /\ slotId' = slotId /\ strays' = strays /\ slot # last + 1
        /\ recipe'[last + 1] = cb.id
      BY <1>0, <1>7 DEF Spawn, TypeOK, Pipelines
  <2>2. \A p \in Pipelines : p # last + 1 => proc'[p] = proc[p] /\ recipe'[p] = recipe[p]
      BY <1>0, <1>7 DEF Spawn, TypeOK
  <2>3. Numbered'
    <3> SUFFICES ASSUME NEW p \in Pipelines, p > last + 1 PROVE proc'[p] = "none"
        BY <2>1 DEF Numbered
    <3>1. last \in Nat /\ p \in Nat
        BY <1>0 DEF TypeOK, Pipelines
    <3>2. p > last /\ p # last + 1
        BY <3>1
    <3> QED
        BY <1>0, <2>2, <3>2 DEF Slots, Numbered
  <2>4. ~ Busy'
    <3>1. ~ Busy
        BY <1>0, <1>7 DEF Spawn, Slots, Claimed
    <3> QED
        BY <1>0, <2>1, <2>2, <3>1 DEF Busy, Running
  <2>5. Claimed' /\ BusyNamesNoOther'
      BY <1>0, <1>7, <2>1, <2>4 DEF Spawn, Slots, Claimed, BusyNamesNoOther
  <2>6. strays' \subseteq 1 .. last' /\ last' \in Pipelines \ strays'
      BY <1>0, <2>1 DEF Slots, InSight, TypeOK
  <2>7. \A p \in Running' \ strays' : p = slot' \/ p = last'
      BY <1>0, <1>7, <2>1, <2>2 DEF Spawn, Slots, InSight, Running
  <2> QED
      BY <1>0, <2>1, <2>3, <2>5, <2>6, <2>7 DEF Slots, InSight
<1>8. CASE Store
  <2>1. slot' = last /\ cb'.pc = "idle" /\ UNCHANGED <<slotId, proc, recipe, last, strays>> /\ cb.pc = "store"
      BY <1>8 DEF Store, Idle
  <2>2. ~ Busy /\ slotId \in {NoId, recipe[last]}
      BY <1>0, <2>1 DEF Slots, Claimed
  <2> QED
      BY <1>0, <2>1, <2>2 DEF Slots, Numbered, InSight, Claimed, BusyNamesNoOther, Busy, Running
<1>9. ASSUME NEW p \in Pipelines, PrintStage(p) \/ WriteJournal(p) \/ ReadLine(p) \/ Wait(p) \/ Report(p)
      PROVE Slots'
    BY <1>9, BystanderKeepsSlots DEF PrintStage, WriteJournal, ReadLine, Wait, Report
<1>10. ASSUME NEW p \in Pipelines, ScriptExit(p) PROVE Slots'
  <2>1. /\ UNCHANGED <<slot, slotId, cb, recipe, last, strays>>
        /\ Running' \subseteq Running
        /\ \A q \in Pipelines : proc[q] = "none" => proc'[q] = "none"
      BY <1>0, <1>10 DEF ScriptExit, TypeOK, Running
  <2> QED
      BY <1>0, <2>1 DEF Slots, Numbered, InSight, Claimed, BusyNamesNoOther, Busy
<1>11. ASSUME NEW p \in Pipelines, FreeSlot(p) PROVE Slots'
  <2>1. /\ slot' = 0 /\ slotId' = NoId /\ strays' = strays \cup ({slot} \cap Running)
        /\ UNCHANGED <<cb, proc, recipe, last>>
      BY <1>11 DEF FreeSlot
  <2>2. 0 \notin Pipelines /\ Running' = Running
      BY <2>1 DEF Pipelines, Running
  <2>3. strays' \subseteq 1 .. last'
    <3>1. last \in Nat /\ slot \in 0 .. last
        BY <1>0 DEF TypeOK
    <3>2. slot \in Running => slot \in 1 .. last
        BY <3>1 DEF Running, Pipelines
    <3> QED
        BY <1>0, <2>1, <3>2 DEF Slots, InSight
  <2>4. cb.pc = "store" => strays' = strays
      BY <1>0, <2>1 DEF Slots, Claimed, Busy
  <2>5. \A q \in Running \ strays' : cb.pc = "store" /\ q = last
      BY <1>0, <2>1 DEF Slots, InSight
  <2>6. InSight'
      BY <1>0, <2>1, <2>2, <2>3, <2>4, <2>5 DEF Slots, InSight
  <2>7. Numbered' /\ Claimed' /\ BusyNamesNoOther'
      BY <1>0, <2>1, <2>2 DEF Slots, Numbered, Claimed, BusyNamesNoOther, Busy, Running
  <2> QED
      BY <2>6, <2>7 DEF Slots
<1>12. CASE RestartNode
  <2>1. /\ slot' = 0 /\ cb'.pc = "idle" /\ strays' = strays \cup Running
        /\ UNCHANGED <<proc, recipe, last>>
      BY <1>12 DEF RestartNode, Idle
  <2>2. Running \subseteq 1 .. last /\ 0 \notin Running /\ Running' = Running
      BY <1>0, <2>1 DEF Slots, Numbered, Running, TypeOK, Pipelines
  <2> QED
      BY <1>0, <2>1, <2>2 DEF Slots, Numbered, InSight, Claimed, BusyNamesNoOther, Busy
<1>13. CASE UNCHANGED vars
    BY <1>13, BystanderKeepsSlots DEF vars
<1> QED
    BY <1>1, <1>2, <1>3, <1>4, <1>5, <1>6, <1>7, <1>8, <1>9, <1>10, <1>11, <1>12, <1>13
       DEF Next, Receive, Callback, Monitor

\* Somebody stays responsible for the word after starting or running.
LEMMA NextNextWord == EInv /\ [Next]_vars => NextWord'
<1> SUFFICES ASSUME EInv, [Next]_vars PROVE NextWord'
    OBVIOUS
<1> USE ConstantsFact
<1>0. TypeOK /\ NextWord
    BY DEF EInv
<1>1. CASE RefuseMessage \/ ClearRecovery
    BY <1>1 DEF RefuseMessage, ClearRecovery, Publish, NextWord
<1>2. ASSUME NEW id \in RecipeIds, ReceiveOrder(id) PROVE NextWord'
    BY <1>0, <1>2 DEF ReceiveOrder, NextWord, Live
<1>3. ASSUME NEW intent \in Intents, AnswerRecovery(intent) PROVE NextWord'
    BY <1>3 DEF AnswerRecovery, Publish, NextWord
<1>4. ASSUME NEW intent \in Intents, AcceptRecovery(intent) PROVE NextWord'
    BY <1>0, <1>4 DEF AcceptRecovery, NextWord, Live
<1>5. CASE RefuseBusy \/ SpawnNothing
    BY <1>5 DEF RefuseBusy, SpawnNothing, Publish, NextWord
<1>6. CASE Claim
    BY <1>0, <1>6 DEF Claim, NextWord, Live
<1>7. CASE Announce
    BY <1>0, <1>7 DEF Announce, Publish, NextWord, TypeOK
<1>8. CASE Spawn
    BY <1>0, <1>8 DEF Spawn, NextWord, Live, TypeOK
<1>9. CASE Store
  <2>1. cb.pc = "store" /\ UNCHANGED <<shown, last>> /\ last \in Pipelines
      BY <1>9 DEF Store, EInv, InSight
  <2>2. \A q \in Pipelines : Live(q) \/ q = last => Live(q)'
      BY <1>0, <1>9 DEF Store, Live, TypeOK
  <2> QED
      BY <1>0, <2>1, <2>2 DEF NextWord
<1>10. ASSUME NEW p \in Pipelines, PrintStage(p) \/ WriteJournal(p) \/ ScriptExit(p) PROVE NextWord'
    BY <1>0, <1>10 DEF PrintStage, WriteJournal, ScriptExit, NextWord, Live
<1>11. ASSUME NEW p \in Pipelines, ReadLine(p) PROVE NextWord'
  <2>1. Live(p) /\ UNCHANGED <<cb, mon, last>>
      BY <1>11 DEF ReadLine, Live
  <2>2. CASE Publish("running", p)
      BY <2>1, <2>2 DEF Publish, NextWord, Live
  <2>3. CASE UNCHANGED shown
      BY <1>0, <2>1, <2>3 DEF NextWord, Live
  <2> QED
      BY <1>11, <2>2, <2>3 DEF ReadLine
<1>12. ASSUME NEW p \in Pipelines, Wait(p) \/ FreeSlot(p) PROVE NextWord'
  <2>1. UNCHANGED <<cb, shown, last>> /\ \A q \in Pipelines : Live(q) => Live(q)'
      BY <1>0, <1>12 DEF Wait, FreeSlot, Live, TypeOK
  <2> QED
      BY <1>0, <2>1 DEF NextWord
<1>13. ASSUME NEW p \in Pipelines, Report(p) PROVE NextWord'
    BY <1>13 DEF Report, Publish, NextWord
<1>14. CASE RestartNode
    BY <1>0, <1>14 DEF RestartNode, NextWord, TypeOK
<1>15. CASE UNCHANGED vars
    BY <1>0, <1>15 DEF vars, NextWord, Live
<1> QED
    BY <1>1, <1>2, <1>3, <1>4, <1>5, <1>6, <1>7, <1>8, <1>9, <1>10, <1>11, <1>12, <1>13, <1>14, <1>15
       DEF Next, Receive, Callback, Monitor

\* The inductive invariant: slot, processes, callback thread and status topic agree in
\* every interleaving of callback, monitors, pipelines and restarts of the node.
THEOREM ExecutorInvariance == Spec => []EInv
<1>1. EInv /\ [Next]_vars => EInv'
    BY NextTypeOK, NextSlots, NextNextWord DEF EInv, Slots
<1> QED
    BY InitEInv, <1>1, PTL DEF Spec

\* Type correctness of the executor.
THEOREM ExecutorTypeCorrect == Spec => []TypeOK
<1>1. EInv => TypeOK
    BY DEF EInv
<1> QED
    BY ExecutorInvariance, <1>1, PTL

\* Two pipelines run at once only if the node has lost sight of one of them.
THEOREM OnePipelineInSight == Spec => []OnlyStraysOverlap
<1>1. EInv => OnlyStraysOverlap
  <2> SUFFICES ASSUME EInv, NEW p \in Running \ strays, NEW q \in Running \ strays PROVE p = q
      BY DEF OnlyStraysOverlap
  <2>1. cb.pc = "store" => slot \notin Running
      BY DEF EInv, Claimed, Busy
  <2>2. p \in {slot, last} /\ q \in {slot, last}
      BY DEF EInv, InSight
  <2>3. CASE cb.pc = "store"
      BY <2>1, <2>2, <2>3
  <2>4. CASE cb.pc # "store"
      BY <2>4 DEF EInv, InSight
  <2> QED
      BY <2>3, <2>4
<1> QED
    BY ExecutorInvariance, <1>1, PTL

\* A refused order is never told the id of an order that is not running.
THEOREM BusyNamesRight == Spec => []BusyNamesNoOther
<1>1. EInv => BusyNamesNoOther
    BY DEF EInv
<1> QED
    BY ExecutorInvariance, <1>1, PTL

\* Starting and running are never the last word of a node that goes on.
THEOREM MakingEnds == Spec => []MakingIsUnderWay
<1>1. EInv => MakingIsUnderWay
    BY DEF EInv, NextWord, MakingIsUnderWay
<1> QED
    BY ExecutorInvariance, <1>1, PTL
=============================================================================
