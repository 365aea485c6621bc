-------------------------- MODULE ControlPanelProofs --------------------------
(***************************************************************************)
(* Theorems about ControlPanel, for every choice of step lists and every   *)
(* number of requests, processes and stops.  What a step list contains is  *)
(* computed by folds and does not matter to them: a thread may be at any   *)
(* key at all.                                                             *)
(***************************************************************************)
EXTENDS ControlPanel, TLAPS

\* The bounds.
LEMMA BoundsFact ==
    MaxRequests \in Nat /\ MaxProcs \in Nat /\ MaxStops \in Nat
BY PanelAssumption DEF PanelAssumption

\* The kinds of keys.
LEMMA KeysFact ==
    /\ Foreground \cup {Connect, Helper, Gripper} = Tracked /\ "" \notin Tracked
    /\ Connect \notin Foreground
    /\ \A key : HelperOf(key) \in Tracked /\ HelperOf(key) \notin Foreground \cup {Connect}
    /\ Status \in Foreground /\ SceneMotions \subseteq Foreground
    /\ ManualMotions \cap Foreground = {} /\ Connect \notin ManualMotions
BY DEF Foreground, Tracked, SceneMotions, Connect, Helper, Gripper, HelperOf, Status, Recipe, ManualMotions

\* A request and a process are numbers other than 0.
LEMMA NumbersFact ==
    /\ \A r \in Requests : r \in Nat /\ r # 0 /\ r \in 0 .. MaxRequests
    /\ \A p \in Procs : p \in Nat /\ p # 0 /\ p \in 0 .. MaxProcs
    /\ 0 \notin Live /\ Live \subseteq Procs
BY BoundsFact DEF Requests, Procs, Live

\* The processes started so far are some of them all.
LEMMA LastFact ==
    ASSUME last \in 0 .. MaxProcs
    PROVE  0 <= last /\ last \in Nat /\ \A p \in 1 .. last : p \in Procs
BY BoundsFact DEF Procs

-----------------------------------------------------------------------------
(* What the operators make of processes and threads.                       *)

\* Processes only end.
Calmed ==
    /\ proc' \in [Procs -> ProcRecords] /\ Live' \subseteq Live
    /\ \A p \in Procs : proc'[p].key = proc[p].key /\ (proc[p].st = "nonzero" => proc'[p].st = "nonzero")

\* The threads' table keeps its form, and all but r their places.
Moved(r, pc, at, p) ==
    /\ DOMAIN req' = Requests
    /\ \A q \in Requests : DOMAIN req'[q] = {"pc", "todo", "at", "p", "killed"}
    /\ \A q \in Requests : q # r => req'[q] = req[q]
    /\ req'[r].pc = pc /\ req'[r].at = at /\ req'[r].p = p /\ req'[r].killed = req[r].killed

\* Ending processes leaves none of them live, and all others as they are.
LEMMA EndedFact ==
    ASSUME TypeOK, NEW P, proc' = Ended(P)
    PROVE  Calmed /\ Live' = Live \ P /\ \A p \in P : p \in Live => proc'[p].st = "nonzero"
<1>1. /\ proc \in [Procs -> ProcRecords]
      /\ proc' = [p \in Procs |-> IF p \in P /\ p \in Live THEN [proc[p] EXCEPT !.st = "nonzero"] ELSE proc[p]]
    BY Zenon DEF TypeOK, Ended
<1>2. \A p \in Procs : /\ proc[p] \in ProcRecords /\ proc'[p] \in ProcRecords /\ proc'[p].key = proc[p].key
                       /\ p \in P /\ p \in Live => proc'[p].st = "nonzero"
                       /\ ~ (p \in P /\ p \in Live) => proc'[p] = proc[p]
  <2> SUFFICES ASSUME NEW p \in Procs
               PROVE  /\ proc[p] \in ProcRecords /\ proc'[p] \in ProcRecords /\ proc'[p].key = proc[p].key
                      /\ p \in P /\ p \in Live => proc'[p].st = "nonzero"
                      /\ ~ (p \in P /\ p \in Live) => proc'[p] = proc[p]
      OBVIOUS
  <2>1. proc[p] \in ProcRecords
      BY <1>1
  <2>2. CASE p \in P /\ p \in Live
    <3>1. proc'[p] = [proc[p] EXCEPT !.st = "nonzero"]
        BY <1>1, <2>2
    <3> QED
        BY <2>1, <2>2, <3>1 DEF ProcRecords
  <2>3. CASE ~ (p \in P /\ p \in Live)
    <3>1. proc'[p] = proc[p]
        BY <1>1, <2>3
    <3> QED
        BY <2>1, <2>3, <3>1
  <2> QED
      BY <2>2, <2>3
<1>3. proc' \in [Procs -> ProcRecords]
    BY <1>1, <1>2
<1>4. \A p \in Procs : proc[p].st = "nonzero" => proc'[p].st = "nonzero"
    BY <1>2
<1>5. Live' = Live \ P
    BY <1>2 DEF Live, Busy
<1> QED
    BY <1>2, <1>3, <1>4, <1>5, NumbersFact DEF Calmed

\* Nothing happens to processes.
LEMMA SameFact ==
    ASSUME TypeOK, proc' = proc
    PROVE  Calmed /\ Live' = Live
BY DEF TypeOK, Calmed, Live

\* A thread goes to its next place.
LEMMA ThreadFact ==
    ASSUME TypeOK, NEW r \in Requests, NEW pc, Thread(r, pc)
    PROVE  Moved(r, pc, req[r].at, req[r].p)
BY DEF TypeOK, Thread, Moved

\* A step's result ends the request and frees the lock, or the loop goes on.
LEMMA AnswerFact ==
    ASSUME TypeOK, NEW r \in Requests, NEW status, Answer(r, status), lock = r
    PROVE  /\ Moved(r, IF status \in Ends THEN "done" ELSE "next", req[r].at, 0)
           /\ lock' = IF status \in Ends THEN 0 ELSE r
<1>1. CASE status \in Ends
  <2>1. lock' = 0 /\ req' = [req EXCEPT ![r].pc = "done", ![r].p = 0]
      BY <1>1, Zenon DEF Answer
  <2> QED
      BY <1>1, <2>1 DEF TypeOK, Moved
<1>2. CASE status \notin Ends
  <2>1. lock' = r /\ req' = [req EXCEPT ![r].pc = "next", ![r].p = 0]
      BY <1>2, Zenon DEF Answer
  <2> QED
      BY <1>2, <2>1 DEF TypeOK, Moved
<1> QED
    BY <1>1, <1>2

\* While one thread holds the lock, or none does, the others have not begun or are over.
LEMMA OthersRest ==
    ASSUME PanelInv, NEW r \in Requests, lock \in {0, r}
    PROVE  \A q \in Requests : q # r => req[q].pc \in {"new", "done"} /\ (req[q].killed => req[q].pc = "done")
BY NumbersFact DEF PanelInv, ThreadOK

\* A foreground command runs only while its own thread waits for it.
LEMMA NoneRuns ==
    ASSUME PanelInv, NEW r \in Requests, lock = r \/ (lock = 0 /\ req[r].pc = "new"),
           req[r].pc \notin {"register", "watch"}
    PROVE  \A p \in Live : proc[p].key \notin Foreground
BY NumbersFact DEF PanelInv, ForegroundIsWatched

-----------------------------------------------------------------------------
(* Four kinds of steps.                                                    *)

\* What ThreadOK says of one thread, of its fields alone.
LEMMA ThreadIsOK ==
    ASSUME NEW r \in Requests, NEW pc, NEW at, NEW p, Moved(r, pc, at, p),
           pc \notin {"new", "done"} => lock' = r,
           pc \in {"launch", "register", "watch"} => at \in Foreground \cup {Connect},
           pc \in {"register", "watch"} => p \in 1 .. last' /\ proc'[p].key = at,
           pc = "helper" => p \in 1 .. last' /\ proc'[p].key = HelperOf(at) /\ table'[HelperOf(at)] \notin Live',
           req[r].killed => pc = "done" \/ (pc = "watch" /\ proc'[p].st = "nonzero")
    PROVE  ThreadOK(r)'
BY DEF Moved, ThreadOK, HelperOf

\* The request's thread goes on, answers, or begins: no process is started.
LEMMA ThreadStep ==
    ASSUME PanelInv, NEW r \in Requests, NEW pc \in Places, NEW at, NEW p \in 0 .. MaxProcs, Moved(r, pc, at, p),
           lock = r \/ (lock = 0 /\ req[r].pc = "new"), lock' = IF pc = "done" THEN 0 ELSE r, pc \notin {"new", "helper", "register"},
           ThreadOK(r)', Calmed, UNCHANGED <<last, stops>>, lost \subseteq lost', lost' \subseteq Procs,
           table' \in [Tracked -> 0 .. MaxProcs], \A k \in Tracked : table'[k] <= last,
           win' \in [Windows -> {"none", "waiting", "starting", "moving", "ready", "over"}],
           (stop' = stop /\ lock = r) \/ stop' = [stop EXCEPT !.quiet = FALSE],
           \A q \in Live' : q \in lost' \/ table'[proc'[q].key] = q,
           \A q \in Live' : proc'[q].key \in Foreground => pc = "watch" /\ p = q
    PROVE  PanelInv'
<1>0. /\ TypeOK /\ StartedOnly /\ QuietSweep /\ last \in 0 .. MaxProcs /\ StopEndsQueue
      /\ \A q \in Requests : ThreadOK(q)
    BY DEF PanelInv, TypeOK
<1>1. /\ stop'.pc = stop.pc /\ stop'.p = stop.p /\ stop'.todo = stop.todo /\ stop'.key = stop.key /\ stop'.all = stop.all
      /\ ~ stop'.quiet
      /\ stop' \in [pc : {"idle", "sweep", "pop", "done"}, all : BOOLEAN, todo : SUBSET (Tracked \X Procs),
                    key : Tracked \cup {""}, p : 0 .. MaxProcs, quiet : BOOLEAN]
  <2>1. stop.quiet => lock # r
      BY <1>0, NumbersFact DEF QuietSweep
  <2> QED
      BY <1>0, <2>1 DEF TypeOK
<1>2. TypeOK'
  <2>1. lock' \in 0 .. MaxRequests
      BY NumbersFact, BoundsFact
  <2>2. \A q \in Requests : req'[q].pc \in Places /\ req'[q].p \in 0 .. MaxProcs /\ req'[q].killed \in BOOLEAN
    <3>1. \A q \in Requests : req[q].pc \in Places /\ req[q].p \in 0 .. MaxProcs /\ req[q].killed \in BOOLEAN
        BY <1>0, Zenon DEF TypeOK
    <3> QED
        BY <3>1 DEF Moved
  <2> QED
      BY <1>0, <1>1, <2>1, <2>2, Zenon DEF TypeOK, Moved, Calmed
<1>3. ASSUME NEW q \in Requests PROVE ThreadOK(q)'
  <2>1. CASE q # r
    <3>1. req'[q] = req[q] /\ req[q].pc \in {"new", "done"} /\ (req[q].killed => req[q].pc = "done")
      <4>1. req'[q] = req[q]
          BY <2>1, Zenon DEF Moved
      <4>2. req[q].pc \in {"new", "done"} /\ (req[q].killed => req[q].pc = "done")
          BY <2>1, OthersRest
      <4> QED
          BY <4>1, <4>2, Zenon
    <3> QED
        BY <3>1 DEF ThreadOK
  <2> QED
      BY <2>1
<1>4. StartedOnly'
  <2>1. \A q \in Live' : q \in Live /\ q \in Procs /\ proc'[q].key = proc[q].key
      BY NumbersFact DEF Calmed
  <2>2. \A q \in Live' : proc'[q].key \in Tracked
      BY <1>0, <2>1 DEF StartedOnly
  <2>3. stop'.pc = "pop" => stop'.p \notin Live'
      BY <1>0, <1>1, <2>1 DEF StartedOnly
  <2> QED
      BY <1>0, <1>1, <2>2, <2>3, Zenon DEF StartedOnly
<1>5. Traced'
    BY DEF Traced
<1>6. QuietSweep' /\ QuietStopEndsAll'
    BY <1>1 DEF QuietSweep, QuietStopEndsAll
<1>7. ForegroundIsWatched'
  <2>1. ASSUME NEW q \in Live', proc'[q].key \in Foreground
        PROVE  lock' = r /\ req'[r].p = q /\ req'[r].pc \in {"register", "watch"}
      BY <2>1 DEF Moved
  <2> QED
      BY <2>1, Zenon DEF ForegroundIsWatched
<1>8. StopEndsQueue'
    BY <1>3 DEF ThreadOK, StopEndsQueue
<1> QED
    BY <1>2, <1>3, <1>4, <1>5, <1>6, <1>7, <1>8 DEF PanelInv

\* The thread starts a process: one that it registers next.
LEMMA StartStep ==
    ASSUME PanelInv, NEW r \in Requests, lock = r, NEW pc, NEW key \in Tracked, NEW at,
           last < MaxProcs, last' = last + 1, Moved(r, pc, at, last + 1),
           req[r].pc \notin {"helper", "register", "watch", "new", "done"},
           \/ pc = "register" /\ at = key /\ key \in Foreground \cup {Connect}
           \/ pc = "helper" /\ key = HelperOf(at) /\ table[key] \notin Live,
           proc' = [proc EXCEPT ![last + 1] = [key |-> key, st |-> "up"]],
           UNCHANGED <<lock, table, win, stop, stops, lost>>
    PROVE  PanelInv'
<1>0. /\ TypeOK /\ StartedOnly /\ QuietSweep /\ Traced /\ last \in 0 .. MaxProcs
      /\ \A q \in Requests : ThreadOK(q)
      /\ proc \in [Procs -> ProcRecords] /\ table \in [Tracked -> 0 .. MaxProcs] /\ ~ req[r].killed
    BY DEF PanelInv, TypeOK, StopEndsQueue
<1> DEFINE new == last + 1
<1>1. new \in Procs /\ new \in 1 .. last' /\ new > last /\ new \in 0 .. MaxProcs /\ last' \in 0 .. MaxProcs /\ last \in Nat
    BY <1>0, BoundsFact DEF Procs
<1>2. /\ proc' \in [Procs -> ProcRecords] /\ proc'[new].key = key /\ proc'[new].st = "up"
      /\ \A p \in Procs : p # new => proc'[p] = proc[p]
    BY <1>0, <1>1 DEF ProcRecords
<1> HIDE DEF new
<1>3. Live' = Live \cup {new} /\ \A k \in Tracked : table[k] # new
  <2>1. Live' = Live \cup {new}
      BY <1>1, <1>2 DEF Live, Busy
  <2>2. ASSUME NEW k \in Tracked PROVE table[k] # new
    <3>1. table[k] <= last /\ table[k] \in 0 .. MaxProcs
        BY <1>0 DEF StartedOnly
    <3> QED
        BY <1>1, <3>1
  <2> QED
      BY <2>1, <2>2
<1>4. TypeOK'
  <2>1. \A q \in Requests : req'[q].pc \in Places /\ req'[q].p \in 0 .. MaxProcs /\ req'[q].killed \in BOOLEAN
    <3>1. pc \in Places /\ \A q \in Requests : req[q].pc \in Places /\ req[q].p \in 0 .. MaxProcs /\ req[q].killed \in BOOLEAN
        BY <1>0 DEF TypeOK, Places
    <3> QED
        BY <1>1, <3>1 DEF Moved, new
  <2> QED
      BY <1>0, <1>1, <1>2, <2>1, Zenon DEF TypeOK, Moved
<1>5. ASSUME NEW q \in Requests PROVE ThreadOK(q)'
  <2>1. CASE q # r
    <3>1. req'[q] = req[q] /\ req[q].pc \in {"new", "done"} /\ (req[q].killed => req[q].pc = "done")
        BY <2>1, OthersRest, Zenon DEF Moved
    <3> QED
        BY <3>1 DEF ThreadOK
  <2>2. CASE q = r
    <3>1. CASE pc = "register" /\ at = key /\ key \in Foreground \cup {Connect}
        BY <1>0, <1>1, <1>2, <2>2, <3>1, KeysFact, ThreadIsOK DEF new
    <3>2. CASE pc = "helper" /\ key = HelperOf(at) /\ table[key] \notin Live
      <4>1. table'[key] \notin Live'
          BY <1>3, <3>2, KeysFact
      <4> QED
          BY <1>0, <1>1, <1>2, <2>2, <3>2, <4>1, ThreadIsOK DEF new
    <3> QED
        BY <3>1, <3>2
  <2> QED
      BY <2>1, <2>2
<1>6. StartedOnly'
  <2>1. ASSUME NEW k \in Tracked PROVE table'[k] <= last'
    <3>1. table[k] <= last /\ table[k] \in 0 .. MaxProcs
        BY <1>0 DEF StartedOnly
    <3> QED
        BY <1>1, <3>1
  <2>2. stop \in [pc : {"idle", "sweep", "pop", "done"}, all : BOOLEAN, todo : SUBSET (Tracked \X Procs),
                  key : Tracked \cup {""}, p : 0 .. MaxProcs, quiet : BOOLEAN]
      BY <1>0 DEF TypeOK
  <2>3. stop.p <= last /\ stop.p \in Nat
    <3>1. stop.p \in 0 .. MaxProcs
        BY <2>2
    <3> QED
        BY <1>0, <3>1 DEF StartedOnly
  <2>4. \A e \in stop.todo : e[2] <= last /\ e[2] \in Nat
      BY <1>0, <2>2, NumbersFact DEF StartedOnly
  <2>5. stop.p <= last' /\ stop.p # new /\ \A e \in stop.todo : e[2] <= last'
      BY <1>1, <2>3, <2>4
  <2>6. stop.pc = "pop" => stop.p \notin Live'
      BY <1>0, <1>3, <2>5 DEF StartedOnly
  <2>7. ASSUME NEW p \in Live' PROVE proc'[p].key \in Tracked
      BY <1>0, <1>2, <1>3, NumbersFact DEF StartedOnly
  <2> QED
      BY <2>1, <2>5, <2>6, <2>7 DEF StartedOnly
<1>7. Traced'
  <2> SUFFICES ASSUME NEW p \in Live'
               PROVE  p \in lost \/ table[proc'[p].key] = p \/ \E q \in Requests : req'[q].p = p /\ req'[q].pc \in {"helper", "register"}
      BY DEF Traced
  <2>1. CASE p = new
      BY <2>1, Zenon DEF new, Moved
  <2>2. CASE p # new
    <3>1. p \in Live /\ proc'[p] = proc[p]
        BY <1>2, <1>3, <2>2, NumbersFact
    <3>2. \A q \in Requests : ~ (req[q].p = p /\ req[q].pc \in {"helper", "register"})
        BY OthersRest
    <3> QED
        BY <1>0, <3>1, <3>2 DEF Traced
  <2> QED
      BY <2>1, <2>2
<1>8. QuietSweep' /\ QuietStopEndsAll'
    BY <1>0, NumbersFact DEF QuietSweep, QuietStopEndsAll
<1>9. ForegroundIsWatched'
  <2> SUFFICES ASSUME NEW p \in Live', proc'[p].key \in Foreground
               PROVE  lock = r /\ req'[r].p = p /\ req'[r].pc \in {"register", "watch"}
      BY Zenon DEF ForegroundIsWatched
  <2>1. p = new
      BY <1>2, <1>3, NoneRuns, NumbersFact
  <2>2. key \in Foreground /\ pc = "register"
    <3>1. proc'[p].key = key
        BY <1>2, <2>1
    <3> QED
        BY <3>1, KeysFact
  <2> QED
      BY <2>1, <2>2 DEF Moved, new
<1>10. StopEndsQueue'
    BY <1>5 DEF ThreadOK, StopEndsQueue
<1> QED
    BY <1>4, <1>5, <1>6, <1>7, <1>8, <1>9, <1>10 DEF PanelInv

\* A stop, a process or a window: threads stay where they are, but for a note that a stop has ended
\* what one of them waits for.
LEMMA WorldStep ==
    ASSUME PanelInv, Calmed, UNCHANGED <<lock, last>>, stops' \in 0 .. MaxStops,
           lost \subseteq lost', lost' \subseteq Procs,
           DOMAIN req' = Requests,
           \A r \in Requests :
               /\ DOMAIN req'[r] = {"pc", "todo", "at", "p", "killed"} /\ req'[r].killed \in BOOLEAN
               /\ req'[r].pc = req[r].pc /\ req'[r].at = req[r].at /\ req'[r].p = req[r].p
               /\ req'[r].killed => req[r].killed \/ (req[r].pc = "watch" /\ proc'[req[r].p].st = "nonzero"),
           table' \in [Tracked -> 0 .. MaxProcs], \A k \in Tracked : table'[k] \in {table[k], 0},
           \A p \in Live' : table[proc[p].key] = p => p \in lost' \/ table'[proc[p].key] = p,
           win' \in [Windows -> {"none", "waiting", "starting", "moving", "ready", "over"}],
           stop' \in [pc : {"idle", "sweep", "pop", "done"}, all : BOOLEAN, todo : SUBSET (Tracked \X Procs),
                      key : Tracked \cup {""}, p : 0 .. MaxProcs, quiet : BOOLEAN],
           stop'.p <= last, \A e \in stop'.todo : e[2] <= last, stop'.pc = "pop" => stop'.p \notin Live',
           QuietSweep', QuietStopEndsAll'
    PROVE  PanelInv'
<1>0. /\ TypeOK /\ StartedOnly /\ Traced /\ ForegroundIsWatched /\ last \in 0 .. MaxProcs
      /\ \A r \in Requests : ThreadOK(r)
    BY DEF PanelInv, TypeOK
<1>1. TypeOK'
  <2>1. \A r \in Requests : req'[r].pc \in Places /\ req'[r].p \in 0 .. MaxProcs
      BY <1>0 DEF TypeOK
  <2>2. lock' \in 0 .. MaxRequests /\ last' \in 0 .. MaxProcs
      BY <1>0, Zenon DEF TypeOK
  <2> QED
      BY <2>1, <2>2, Zenon DEF TypeOK, Calmed
<1>2. \A p \in Live' : p \in Live /\ p \in Procs /\ proc'[p].key = proc[p].key
    BY NumbersFact DEF Calmed
<1>3. \A k \in Tracked : table'[k] <= last /\ (table[k] \notin Live => table'[k] \notin Live')
  <2> SUFFICES ASSUME NEW k \in Tracked PROVE table'[k] <= last /\ (table[k] \notin Live => table'[k] \notin Live')
      OBVIOUS
  <2>1. CASE table'[k] = table[k]
      BY <1>0, <1>2, <2>1 DEF StartedOnly
  <2>2. CASE table'[k] = 0
    <3>1. 0 <= last /\ 0 \notin Live'
        BY <1>0, <1>2, NumbersFact, LastFact, Zenon
    <3> QED
        BY <2>2, <3>1
  <2> QED
      BY <2>1, <2>2
<1>4. ASSUME NEW r \in Requests PROVE ThreadOK(r)'
  <2>1. \A p \in 1 .. last : p \in Procs
      BY <1>0, LastFact, Zenon
  <2>2. req[r].pc \in {"register", "watch", "helper"} => req[r].p \in 1 .. last /\ proc'[req[r].p].key = proc[req[r].p].key
      BY <1>0, <2>1 DEF ThreadOK, Calmed
  <2>3. req[r].pc = "helper" => table'[HelperOf(req[r].at)] \notin Live'
      BY <1>0, <1>3, KeysFact DEF ThreadOK
  <2>4. req'[r].killed => req[r].pc = "done" \/ (req[r].pc = "watch" /\ proc'[req[r].p].st = "nonzero")
      BY <1>0, <2>1, <2>2 DEF ThreadOK, Calmed
  <2>5. /\ req[r].pc \notin {"new", "done"} => lock = r
        /\ req[r].pc \in {"launch", "register", "watch"} => req[r].at \in Foreground \cup {Connect}
        /\ req[r].pc \in {"register", "watch"} => req[r].p \in 1 .. last /\ proc'[req[r].p].key = req[r].at
        /\ req[r].pc = "helper" => req[r].p \in 1 .. last /\ proc'[req[r].p].key = HelperOf(req[r].at)
      BY <1>0, <2>2 DEF ThreadOK
  <2>6. req'[r].pc = req[r].pc /\ req'[r].at = req[r].at /\ req'[r].p = req[r].p /\ lock' = lock /\ last' = last
      OBVIOUS
  <2> QED
      BY <2>3, <2>4, <2>5, <2>6, Zenon DEF ThreadOK
<1>5. StartedOnly'
  <2>1. \A p \in Live' : proc'[p].key \in Tracked
      BY <1>0, <1>2 DEF StartedOnly
  <2> QED
      BY <1>3, <2>1, Zenon DEF StartedOnly
<1>6. Traced'
  <2> SUFFICES ASSUME NEW p \in Live'
               PROVE  p \in lost' \/ table'[proc'[p].key] = p \/ \E r \in Requests : req'[r].p = p /\ req'[r].pc \in {"helper", "register"}
      BY DEF Traced
  <2>1. p \in lost \/ table[proc[p].key] = p \/ \E r \in Requests : req[r].p = p /\ req[r].pc \in {"helper", "register"}
      BY <1>0, <1>2 DEF Traced
  <2> QED
      BY <1>2, <2>1
<1>7. ForegroundIsWatched'
  <2> SUFFICES ASSUME NEW p \in Live', proc'[p].key \in Foreground
               PROVE  \E r \in Requests : lock' = r /\ req'[r].p = p /\ req'[r].pc \in {"register", "watch"}
      BY Zenon DEF ForegroundIsWatched
  <2>1. PICK r \in Requests : lock = r /\ req[r].p = p /\ req[r].pc \in {"register", "watch"}
    <3>1. p \in Live /\ proc[p].key \in Foreground
        BY <1>2
    <3> QED
        BY <1>0, <3>1, Zenon DEF ForegroundIsWatched
  <2> QED
      BY <2>1
<1>8. StopEndsQueue'
    BY <1>4 DEF ThreadOK, StopEndsQueue
<1> QED
    BY <1>1, <1>4, <1>5, <1>6, <1>7, <1>8 DEF PanelInv

\* The special case that neither threads nor a stop take part in.
LEMMA QuietStep ==
    ASSUME PanelInv, Calmed, UNCHANGED <<lock, req, table, last, stop, stops, lost>>,
           win' \in [Windows -> {"none", "waiting", "starting", "moving", "ready", "over"}]
    PROVE  PanelInv'
<1>0. TypeOK /\ StartedOnly /\ QuietSweep /\ QuietStopEndsAll
    BY DEF PanelInv
<1>1. QuietSweep' /\ QuietStopEndsAll'
  <2>1. \A p \in Live' : p \in Live /\ proc'[p].key = proc[p].key
      BY NumbersFact DEF Calmed
  <2> QED
      BY <1>0, <2>1 DEF QuietSweep, QuietStopEndsAll
<1>2. /\ stops' \in 0 .. MaxStops /\ lost \subseteq lost' /\ lost' \subseteq Procs /\ DOMAIN req' = Requests
      /\ \A r \in Requests :
             /\ DOMAIN req'[r] = {"pc", "todo", "at", "p", "killed"} /\ req'[r].killed \in BOOLEAN
             /\ req'[r].pc = req[r].pc /\ req'[r].at = req[r].at /\ req'[r].p = req[r].p
             /\ req'[r].killed => req[r].killed \/ (req[r].pc = "watch" /\ proc'[req[r].p].st = "nonzero")
      /\ table' \in [Tracked -> 0 .. MaxProcs] /\ \A k \in Tracked : table'[k] \in {table[k], 0}
      /\ \A p \in Live' : table[proc[p].key] = p => p \in lost' \/ table'[proc[p].key] = p
      /\ stop' \in [pc : {"idle", "sweep", "pop", "done"}, all : BOOLEAN, todo : SUBSET (Tracked \X Procs),
                    key : Tracked \cup {""}, p : 0 .. MaxProcs, quiet : BOOLEAN]
    BY <1>0 DEF TypeOK
<1>3. stop'.p <= last /\ (\A e \in stop'.todo : e[2] <= last) /\ (stop'.pc = "pop" => stop'.p \notin Live')
    BY <1>0 DEF StartedOnly, Calmed
<1> QED
    BY <1>1, <1>2, <1>3, WorldStep, Zenon

-----------------------------------------------------------------------------
(* The thread of a request.                                                *)

\* What the invariant says of the thread that takes a step.
LEMMA ActiveFact ==
    ASSUME PanelInv, NEW r \in Requests, req[r].pc \notin {"new", "done"}
    PROVE  /\ TypeOK /\ lock = r /\ ~ stop.quiet /\ req[r].p \in 0 .. MaxProcs
           /\ req[r].pc # "watch" => ~ req[r].killed
           /\ req[r].pc \notin {"helper", "register"} => \A q \in Live : q \in lost \/ table[proc[q].key] = q
           /\ req[r].pc \notin {"register", "watch"} => \A q \in Live : proc[q].key \notin Foreground
           /\ table \in [Tracked -> 0 .. MaxProcs] /\ \A k \in Tracked : table[k] <= last
           /\ lost \subseteq Procs
           /\ win \in [Windows -> {"none", "waiting", "starting", "moving", "ready", "over"}]
           /\ \A q \in Live : proc[q].key \in Tracked
<1>1. lock = r /\ ~ stop.quiet /\ (req[r].pc # "watch" => ~ req[r].killed)
    BY NumbersFact DEF PanelInv, ThreadOK, QuietSweep
<1>2. req[r].pc \notin {"helper", "register"} => \A q \in Live : q \in lost \/ table[proc[q].key] = q
  <2> SUFFICES ASSUME req[r].pc \notin {"helper", "register"}, NEW q \in Live PROVE q \in lost \/ table[proc[q].key] = q
      OBVIOUS
  <2>1. \A i \in Requests : i # r => req[i].pc \in {"new", "done"}
      BY <1>1, OthersRest
  <2> QED
      BY <2>1 DEF PanelInv, Traced
<1>3. req[r].pc \notin {"register", "watch"} => \A q \in Live : proc[q].key \notin Foreground
    BY <1>1, NoneRuns
<1>4. TypeOK /\ StartedOnly /\ req[r].p \in 0 .. MaxProcs
    BY DEF PanelInv, TypeOK
<1> QED
    BY <1>1, <1>2, <1>3, <1>4 DEF TypeOK, StartedOnly

\* Before a step has started its process, and after it has let it go.
LEMMA PlainMove ==
    ASSUME PanelInv, NEW r \in Requests, NEW pc, NEW at, NEW p \in 0 .. MaxProcs, Moved(r, pc, at, p),
           req[r].pc \in {"next", "clean", "gate", "prepare", "standby", "open", "launch"},
           pc \in {"next", "clean", "gate", "prepare", "standby", "open", "launch", "done"},
           pc = "launch" => at \in Foreground \cup {Connect},
           lock' = IF pc = "done" THEN 0 ELSE r,
           Calmed, UNCHANGED <<table, last, stop, stops, lost>>,
           win' \in [Windows -> {"none", "waiting", "starting", "moving", "ready", "over"}]
    PROVE  PanelInv'
<1>1. req[r].pc \notin {"new", "done", "helper", "register", "watch"} /\ pc \in Places
    BY DEF Places
<1>2. /\ lock = r /\ ~ req[r].killed /\ table' \in [Tracked -> 0 .. MaxProcs] /\ lost \subseteq lost' /\ lost' \subseteq Procs
      /\ \A k \in Tracked : table'[k] <= last
      /\ \A q \in Live : q \in lost' \/ table'[proc[q].key] = q
      /\ \A q \in Live : proc[q].key \notin Foreground
    BY <1>1, ActiveFact
<1>3. \A q \in Live' : (q \in lost' \/ table'[proc'[q].key] = q) /\ proc'[q].key \notin Foreground
    BY <1>2, NumbersFact DEF Calmed
<1>4. ThreadOK(r)'
    BY <1>2, ThreadIsOK
<1> QED
    BY <1>1, <1>2, <1>3, <1>4, ThreadStep

\* The beginning of a request.
LEMMA PostRunKeeps == ASSUME PanelInv, NEW r \in Requests, PostRun(r) PROVE PanelInv'
<1>0. TypeOK /\ req[r].pc = "new" /\ req[r].p \in 0 .. MaxProcs /\ lost \subseteq Procs /\ ~ req[r].killed
    BY DEF PanelInv, TypeOK, PostRun, StopEndsQueue
<1>1. UNCHANGED <<table, proc, last, win, stops, lost>>
    BY DEF PostRun
<1>2. CASE lock # 0
  <2>1. Thread(r, "done") /\ UNCHANGED <<lock, stop>>
      BY <1>2 DEF PostRun
  <2>2. Moved(r, "done", req[r].at, req[r].p)
      BY <1>0, <2>1, ThreadFact
  <2>3. TypeOK'
    <3>1. \A q \in Requests : req'[q].pc \in Places /\ req'[q].p \in 0 .. MaxProcs /\ req'[q].killed \in BOOLEAN
        BY <1>0, <2>2 DEF TypeOK, Moved, Places
    <3> QED
        BY <1>0, <1>1, <2>1, <2>2, <3>1, Zenon DEF TypeOK, Moved
  <2>4. ASSUME NEW q \in Requests PROVE ThreadOK(q)'
    <3>1. CASE q = r
        BY <2>2, <3>1, ThreadIsOK
    <3>2. CASE q # r
      <4>1. req'[q] = req[q] /\ ThreadOK(q) /\ Live' = Live
          BY <1>1, <2>2, <3>2 DEF PanelInv, Moved, Live
      <4> QED
          BY <1>1, <2>1, <4>1, Zenon DEF ThreadOK
    <3> QED
        BY <3>1, <3>2
  <2>5. Live' = Live
      BY <1>1 DEF Live
  <2>6. StartedOnly' /\ QuietSweep' /\ QuietStopEndsAll'
      BY <1>1, <2>1, <2>5, Zenon DEF PanelInv, StartedOnly, QuietSweep, QuietStopEndsAll
  <2>7. Traced' /\ ForegroundIsWatched'
    <3>1. \A q \in Requests : req[q].pc \in {"helper", "register", "watch"} => req'[q] = req[q]
        BY <1>0, <2>2 DEF Moved
    <3>2. Traced'
        BY <1>1, <2>5, <3>1 DEF PanelInv, Traced
    <3>3. ForegroundIsWatched'
        BY <1>1, <2>1, <2>5, <3>1 DEF PanelInv, ForegroundIsWatched
    <3> QED
        BY <3>2, <3>3
  <2>8. StopEndsQueue'
      BY <2>4 DEF ThreadOK, StopEndsQueue
  <2> QED
      BY <2>3, <2>4, <2>6, <2>7, <2>8 DEF PanelInv
<1>3. CASE lock = 0
  <2>1. lock' = r /\ stop' = [stop EXCEPT !.quiet = FALSE]
      BY <1>3 DEF PostRun
  <2>2. PICK s \in Selections : req' = [req EXCEPT ![r].pc = "next", ![r].todo = StepsOf(s)]
      BY <1>3, Zenon DEF PostRun
  <2>3. Moved(r, "next", req[r].at, req[r].p)
      BY <1>0, <2>2 DEF TypeOK, Moved
  <2>4. Calmed /\ Live' = Live
      BY <1>0, <1>1, SameFact
  <2>5. \A q \in Requests : req[q].pc \in {"new", "done"}
      BY <1>0, <1>3, OthersRest
  <2>6. \A q \in Live' : (q \in lost' \/ table'[proc'[q].key] = q) /\ proc'[q].key \notin Foreground
    <3>1. \A q \in Live : proc[q].key \notin Foreground
        BY <1>0, <1>3, NoneRuns
    <3>2. \A q \in Live : q \in lost \/ table[proc[q].key] = q
        BY <2>5 DEF PanelInv, Traced
    <3> QED
        BY <1>1, <2>4, <3>1, <3>2
  <2>7. ThreadOK(r)'
      BY <1>0, <2>1, <2>3, ThreadIsOK
  <2>8. /\ table' \in [Tracked -> 0 .. MaxProcs] /\ lost \subseteq lost' /\ lost' \subseteq Procs
        /\ \A k \in Tracked : table'[k] <= last
        /\ win' \in [Windows -> {"none", "waiting", "starting", "moving", "ready", "over"}]
        /\ "next" \in Places
      BY <1>0, <1>1 DEF PanelInv, TypeOK, StartedOnly, Places
  <2> QED
      BY <1>0, <1>1, <1>3, <2>1, <2>3, <2>4, <2>6, <2>7, <2>8, ThreadStep
<1> QED
    BY <1>2, <1>3

\* The steps of a request that neither start a process nor touch the table.
LEMMA PlainKeeps ==
    ASSUME PanelInv, NEW r \in Requests,
           Finish(r) \/ TakeStep(r) \/ Refuse(r) \/ PassGate(r) \/ PrepareDone(r) \/ OpenWindow(r) \/ LaunchFails(r)
    PROVE  PanelInv'
<1>0. req[r].pc \in {"next", "clean", "gate", "prepare", "standby", "open", "launch"}
    BY DEF Finish, TakeStep, Refuse, PassGate, PrepareDone, OpenWindow, LaunchFails
<1>1. /\ TypeOK /\ lock = r /\ req[r].p \in 0 .. MaxProcs
      /\ win \in [Windows -> {"none", "waiting", "starting", "moving", "ready", "over"}]
    BY <1>0, ActiveFact
<1>2. UNCHANGED <<table, proc, last, stop, stops, lost>>
    BY DEF Finish, TakeStep, Refuse, PassGate, PrepareDone, OpenWindow, LaunchFails
<1>3. Calmed /\ 0 \in 0 .. MaxProcs
    BY <1>1, <1>2, SameFact, BoundsFact
<1>4. "blocked" \in Ends /\ "failed" \in Ends
    BY DEF Ends
<1>5. CASE Finish(r)
  <2>1. Thread(r, "done") /\ lock' = 0 /\ UNCHANGED win
      BY <1>5 DEF Finish
  <2>2. Moved(r, "done", req[r].at, req[r].p)
      BY <1>1, <2>1, ThreadFact
  <2> QED
      BY <1>0, <1>1, <1>2, <1>3, <2>1, <2>2, PlainMove
<1>6. CASE TakeStep(r)
  <2>1. UNCHANGED <<lock, win>>
      BY <1>6 DEF TakeStep
  <2>2. PICK pc \in {"gate", "clean"} :
            req' = [req EXCEPT ![r].todo = Tail(@), ![r].at = Head(req[r].todo), ![r].pc = pc]
      BY <1>6, Zenon DEF TakeStep
  <2> DEFINE key == Head(req[r].todo)  list == Tail(req[r].todo)
  <2>3. req' = [req EXCEPT ![r].todo = list, ![r].at = key, ![r].pc = pc]
      BY <2>2, Zenon
  <2> HIDE DEF key, list
  <2>4. DOMAIN req = Requests /\ \A q \in Requests : DOMAIN req[q] = {"pc", "todo", "at", "p", "killed"}
      BY <1>1, Zenon DEF TypeOK
  <2>5. Moved(r, pc, key, req[r].p)
      BY <2>3, <2>4 DEF Moved
  <2> QED
      BY <1>0, <1>1, <1>2, <1>3, <2>1, <2>5, PlainMove
<1>7. CASE Refuse(r)
  <2>1. Answer(r, "blocked") /\ UNCHANGED win
      BY <1>7 DEF Refuse
  <2>2. Moved(r, "done", req[r].at, 0) /\ lock' = 0
      BY <1>1, <1>4, <2>1, AnswerFact
  <2> QED
      BY <1>0, <1>1, <1>2, <1>3, <2>1, <2>2, PlainMove
<1>8. CASE PassGate(r)
  <2>1. /\ Thread(r, IF req[r].at \in Foreground THEN "launch" ELSE "prepare") /\ UNCHANGED <<lock, win>>
      BY <1>8 DEF PassGate
  <2>2. Moved(r, IF req[r].at \in Foreground THEN "launch" ELSE "prepare", req[r].at, req[r].p)
      BY <1>1, <2>1, ThreadFact
  <2>3. CASE req[r].at \in Foreground
    <3>1. Moved(r, "launch", req[r].at, req[r].p)
        BY <2>2, <2>3
    <3> QED
        BY <1>0, <1>1, <1>2, <1>3, <2>1, <2>3, <3>1, PlainMove
  <2>4. CASE req[r].at \notin Foreground
    <3>1. Moved(r, "prepare", req[r].at, req[r].p)
        BY <2>2, <2>4
    <3> QED
        BY <1>0, <1>1, <1>2, <1>3, <2>1, <3>1, PlainMove
  <2> QED
      BY <2>3, <2>4
<1>9. CASE PrepareDone(r)
  <2>1. Thread(r, "open") /\ UNCHANGED <<lock, win>>
      BY <1>9 DEF PrepareDone
  <2>2. Moved(r, "open", req[r].at, req[r].p)
      BY <1>1, <2>1, ThreadFact
  <2> QED
      BY <1>0, <1>1, <1>2, <1>3, <2>1, <2>2, PlainMove
<1>10. CASE OpenWindow(r)
  <2>1. CASE /\ win' = [win EXCEPT ![req[r].at] = IF req[r].at = Scene THEN "starting" ELSE "waiting"]
             /\ Thread(r, "next") /\ UNCHANGED lock
    <3>1. Moved(r, "next", req[r].at, req[r].p)
        BY <1>1, <2>1, ThreadFact
    <3>2. win' \in [Windows -> {"none", "waiting", "starting", "moving", "ready", "over"}]
        BY <1>1, <2>1
    <3> QED
        BY <1>0, <1>1, <1>2, <1>3, <2>1, <3>1, <3>2, PlainMove
  <2>2. CASE win' = Closed({req[r].at}) /\ Answer(r, "failed")
    <3>1. Moved(r, "done", req[r].at, 0) /\ lock' = 0
        BY <1>1, <1>4, <2>2, AnswerFact
    <3>2. win' \in [Windows -> {"none", "waiting", "starting", "moving", "ready", "over"}]
        BY <1>1, <2>2 DEF Closed
    <3> QED
        BY <1>0, <1>1, <1>2, <1>3, <3>1, <3>2, PlainMove
  <2> QED
      BY <1>10, <2>1, <2>2, Zenon DEF OpenWindow
<1>11. CASE LaunchFails(r)
  <2>1. Answer(r, "failed") /\ UNCHANGED win
      BY <1>11 DEF LaunchFails
  <2>2. Moved(r, "done", req[r].at, 0) /\ lock' = 0
      BY <1>1, <1>4, <2>1, AnswerFact
  <2> QED
      BY <1>0, <1>1, <1>2, <1>3, <2>1, <2>2, PlainMove
<1> QED
    BY <1>5, <1>6, <1>7, <1>8, <1>9, <1>10, <1>11

\* A cleanup ends what its patterns match, before the table forgets it.
LEMMA CleanKeeps == ASSUME PanelInv, NEW r \in Requests, Clean(r) PROVE PanelInv'
<1>0. req[r].pc = "clean"
    BY DEF Clean
<1>1. /\ TypeOK /\ lock = r /\ req[r].p \in 0 .. MaxProcs /\ ~ req[r].killed /\ lost \subseteq Procs
      /\ win \in [Windows -> {"none", "waiting", "starting", "moving", "ready", "over"}]
      /\ table \in [Tracked -> 0 .. MaxProcs] /\ \A k \in Tracked : table[k] <= last
      /\ \A q \in Live : (q \in lost \/ table[proc[q].key] = q) /\ proc[q].key \notin Foreground /\ proc[q].key \in Tracked
    BY <1>0, ActiveFact
<1> DEFINE keys == PatternKeys(req[r].at)
           P == {p \in Live : proc[p].key \in keys}
           pc == IF req[r].at = "lid_grip_close" THEN "gate" ELSE IF req[r].at = Connect THEN "launch" ELSE "open"
<1>2. /\ win' = Closed(PatternWindows(req[r].at)) /\ proc' = Ended(P)
      /\ table' = [k \in Tracked |-> IF k \in keys THEN 0 ELSE table[k]]
      /\ UNCHANGED <<lock, last, stop, stops, lost>>
    BY DEF Clean
<1>3. Thread(r, pc)
    BY DEF Clean, Connect
<1> HIDE DEF keys, P
<1>4. Moved(r, pc, req[r].at, req[r].p)
    BY <1>1, <1>3, ThreadFact
<1>5. Calmed /\ Live' = Live \ P
    BY <1>1, <1>2, EndedFact
<1>6. win' \in [Windows -> {"none", "waiting", "starting", "moving", "ready", "over"}]
    BY <1>1, <1>2 DEF Closed
<1>7. table' \in [Tracked -> 0 .. MaxProcs] /\ \A k \in Tracked : table'[k] <= last
  <2>0. last \in 0 .. MaxProcs
      BY <1>1, Zenon DEF TypeOK
  <2>1. 0 <= last /\ 0 \in 0 .. MaxProcs
      BY <2>0, LastFact, BoundsFact
  <2> QED
      BY <1>1, <1>2, <2>1
<1>8. \A q \in Live' : (q \in lost' \/ table'[proc'[q].key] = q) /\ proc'[q].key \notin Foreground
  <2> SUFFICES ASSUME NEW q \in Live' PROVE (q \in lost' \/ table'[proc'[q].key] = q) /\ proc'[q].key \notin Foreground
      OBVIOUS
  <2>1. q \in Live /\ q \notin P /\ proc'[q].key = proc[q].key /\ proc[q].key \in Tracked
      BY <1>1, <1>5, NumbersFact DEF Calmed
  <2>2. proc[q].key \notin keys
      BY <2>1 DEF P
  <2>3. table'[proc[q].key] = table[proc[q].key]
      BY <1>2, <2>1, <2>2
  <2> QED
      BY <1>1, <1>2, <2>1, <2>3
<1>9. /\ pc \in Places /\ pc \in {"gate", "launch", "open"}
      /\ pc = "launch" => req[r].at \in Foreground \cup {Connect}
    BY DEF Places
<1> HIDE DEF pc
<1>10. ThreadOK(r)'
    BY <1>1, <1>2, <1>4, <1>9, ThreadIsOK
<1> QED
    BY <1>1, <1>2, <1>4, <1>5, <1>6, <1>7, <1>8, <1>9, <1>10, ThreadStep

\* A process is started.
LEMMA StartKeeps ==
    ASSUME PanelInv, NEW r \in Requests, SpawnHelper(r) \/ Launch(r)
    PROVE  PanelInv'
<1>0. req[r].pc \in {"gate", "prepare", "launch"}
    BY DEF SpawnHelper, Launch
<1>1. /\ TypeOK /\ lock = r
      /\ req[r].pc = "launch" => req[r].at \in Foreground \cup {Connect}
    BY <1>0, ActiveFact, KeysFact DEF PanelInv, ThreadOK
<1>2. CASE SpawnHelper(r)
  <2>1. /\ req' = [req EXCEPT ![r].pc = "helper", ![r].p = last + 1]
        /\ proc' = [proc EXCEPT ![last + 1] = [key |-> HelperOf(req[r].at), st |-> "up"]]
        /\ last < MaxProcs /\ last' = last + 1 /\ table[HelperOf(req[r].at)] \notin Live
        /\ UNCHANGED <<lock, table, win, stop, stops, lost>>
      BY <1>2 DEF SpawnHelper
  <2>2. Moved(r, "helper", req[r].at, last + 1)
      BY <1>1, <2>1 DEF TypeOK, Moved
  <2>3. HelperOf(req[r].at) \in Tracked /\ req[r].pc \in {"gate", "prepare"}
      BY <1>2, KeysFact DEF SpawnHelper
  <2> QED
      BY <1>1, <2>1, <2>2, <2>3, StartStep
<1>3. CASE Launch(r)
  <2>1. /\ req' = [req EXCEPT ![r].pc = "register", ![r].p = last + 1]
        /\ proc' = [proc EXCEPT ![last + 1] = [key |-> req[r].at, st |-> "up"]]
        /\ last < MaxProcs /\ last' = last + 1
        /\ UNCHANGED <<lock, table, win, stop, stops, lost>>
      BY <1>3 DEF Launch
  <2>2. Moved(r, "register", req[r].at, last + 1)
      BY <1>1, <2>1 DEF TypeOK, Moved
  <2>3. req[r].at \in Tracked /\ req[r].at \in Foreground \cup {Connect}
      BY <1>1, <1>3, KeysFact DEF Launch
  <2> QED
      BY <1>0, <1>1, <2>1, <2>2, <2>3, StartStep
<1> QED
    BY <1>2, <1>3

\* A process that was started goes into the table, and what it replaces there is lost.
LEMMA RegisterKeeps ==
    ASSUME PanelInv, NEW r \in Requests, Register(r) \/ RegisterHelper(r)
    PROVE  PanelInv'
<1>0. req[r].pc \in {"register", "helper"}
    BY DEF Register, RegisterHelper
<1>1. /\ TypeOK /\ lock = r /\ req[r].p \in 0 .. MaxProcs /\ ~ req[r].killed /\ lost \subseteq Procs
      /\ win \in [Windows -> {"none", "waiting", "starting", "moving", "ready", "over"}]
      /\ table \in [Tracked -> 0 .. MaxProcs] /\ \A k \in Tracked : table[k] <= last
      /\ \A q \in Live : proc[q].key \in Tracked
    BY <1>0, ActiveFact
<1>2. UNCHANGED <<lock, proc, last, win, stop, stops>>
    BY DEF Register, RegisterHelper
<1>3. Calmed /\ Live' = Live /\ \A q \in Live : q \in Procs
    BY <1>1, <1>2, SameFact, NumbersFact
<1>4. last \in 0 .. MaxProcs /\ 0 \in 0 .. MaxProcs
  <2>1. last \in 0 .. MaxProcs
      BY <1>1, Zenon DEF TypeOK
  <2> QED
      BY <2>1, BoundsFact
<1>5. \A q \in Live : q \in lost \/ table[proc[q].key] = q \/ req[r].p = q
  <2>1. \A i \in Requests : i # r => req[i].pc \in {"new", "done"}
      BY <1>1, OthersRest
  <2> QED
      BY <2>1 DEF PanelInv, Traced
<1>6. CASE Register(r)
  <2>1. /\ table' = [table EXCEPT ![req[r].at] = req[r].p] /\ Thread(r, "watch")
        /\ lost' = lost \cup ({table[req[r].at]} \cap Live) /\ req[r].pc = "register"
      BY <1>6 DEF Register
  <2>2. /\ req[r].at \in Foreground \cup {Connect} /\ req[r].p \in 1 .. last /\ proc[req[r].p].key = req[r].at
      BY <2>1 DEF PanelInv, ThreadOK
  <2>3. Moved(r, "watch", req[r].at, req[r].p) /\ "watch" \in Places
      BY <1>1, <2>1, ThreadFact DEF Places
  <2>4. table' \in [Tracked -> 0 .. MaxProcs] /\ \A k \in Tracked : table'[k] <= last
    <3>1. req[r].p <= last
        BY <1>4, <2>2
    <3> QED
        BY <1>1, <2>1, <3>1
  <2>5. \A q \in Live' : q \in lost' \/ table'[proc'[q].key] = q
    <3> SUFFICES ASSUME NEW q \in Live' PROVE q \in lost' \/ table'[proc'[q].key] = q
        OBVIOUS
    <3>1. q \in Live /\ proc'[q].key = proc[q].key /\ proc[q].key \in Tracked
        BY <1>1, <1>2, <1>3
    <3>2. CASE q = req[r].p
      <4>1. table'[req[r].at] = req[r].p
          BY <1>1, <2>1, <2>2, <3>1, <3>2
      <4> QED
          BY <2>2, <3>1, <3>2, <4>1
    <3>3. CASE q # req[r].p /\ proc[q].key # req[r].at
      <4>1. table'[proc[q].key] = table[proc[q].key]
          BY <1>1, <2>1, <3>1, <3>3
      <4> QED
          BY <1>5, <2>1, <3>1, <3>3, <4>1
    <3>4. CASE q # req[r].p /\ proc[q].key = req[r].at
        BY <1>5, <2>1, <3>1, <3>4
    <3> QED
        BY <3>2, <3>3, <3>4
  <2>6. \A q \in Live' : proc'[q].key \in Foreground => req[r].p = q
      BY <1>1, <1>2, <1>3, NumbersFact DEF PanelInv, ForegroundIsWatched
  <2>7. ThreadOK(r)'
      BY <1>1, <1>2, <2>2, <2>3, ThreadIsOK
  <2>8. lost \subseteq lost' /\ lost' \subseteq Procs
      BY <1>1, <1>3, <2>1
  <2> QED
      BY <1>1, <1>2, <1>3, <2>3, <2>4, <2>5, <2>6, <2>7, <2>8, ThreadStep
<1>7. CASE RegisterHelper(r)
  <2> DEFINE key == HelperOf(req[r].at)
  <2>1. /\ table' = [table EXCEPT ![key] = req[r].p] /\ req[r].pc = "helper" /\ lost' = lost
        /\ req' = [req EXCEPT ![r].pc = "standby", ![r].p = 0]
      BY <1>7 DEF RegisterHelper
  <2>2. /\ req[r].p \in 1 .. last /\ proc[req[r].p].key = key /\ table[key] \notin Live /\ key \in Tracked
      BY <2>1, KeysFact DEF PanelInv, ThreadOK
  <2> HIDE DEF key
  <2>3. Moved(r, "standby", req[r].at, 0) /\ "standby" \in Places
      BY <1>1, <2>1 DEF TypeOK, Moved, Places
  <2>4. table' \in [Tracked -> 0 .. MaxProcs] /\ \A k \in Tracked : table'[k] <= last
    <3>1. req[r].p <= last
        BY <1>4, <2>2
    <3> QED
        BY <1>1, <2>1, <3>1
  <2>5. \A q \in Live' : q \in lost' \/ table'[proc'[q].key] = q
    <3> SUFFICES ASSUME NEW q \in Live' PROVE q \in lost' \/ table'[proc'[q].key] = q
        OBVIOUS
    <3>1. q \in Live /\ proc'[q].key = proc[q].key /\ proc[q].key \in Tracked
        BY <1>1, <1>2, <1>3
    <3>2. CASE q = req[r].p
        BY <1>1, <2>1, <2>2, <3>1, <3>2
    <3>3. CASE q # req[r].p
      <4>1. q \in lost \/ table[proc[q].key] = q
          BY <1>5, <3>1, <3>3
      <4>2. table[proc[q].key] = q => proc[q].key # key
          BY <2>2, <3>1
      <4> QED
          BY <1>1, <2>1, <3>1, <4>1, <4>2
    <3> QED
        BY <3>2, <3>3
  <2>6. \A q \in Live' : proc'[q].key \notin Foreground
    <3>1. req[r].pc \notin {"register", "watch"}
        BY <2>1
    <3> QED
        BY <1>1, <1>2, <1>3, <3>1, NoneRuns
  <2>7. ThreadOK(r)'
      BY <1>1, <1>2, <2>3, ThreadIsOK
  <2> QED
      BY <1>1, <1>2, <1>3, <1>4, <2>1, <2>3, <2>4, <2>5, <2>6, <2>7, ThreadStep
<1> QED
    BY <1>6, <1>7

\* The end of what the thread waits for: a result that is collected, or a deadline.  A foreground
\* command is not left running, and one that a stop has ended can only have failed.
LEMMA WatchKeeps ==
    ASSUME PanelInv, NEW r \in Requests, Collect(r) \/ Timeout(r)
    PROVE  PanelInv'
<1>0. req[r].pc = "watch"
    BY DEF Collect, Timeout
<1>1. /\ TypeOK /\ lock = r /\ req[r].p \in 0 .. MaxProcs /\ lost \subseteq Procs
      /\ win \in [Windows -> {"none", "waiting", "starting", "moving", "ready", "over"}]
      /\ table \in [Tracked -> 0 .. MaxProcs] /\ \A k \in Tracked : table[k] <= last
      /\ \A q \in Live : (q \in lost \/ table[proc[q].key] = q)
    BY <1>0, ActiveFact
<1>2. UNCHANGED <<table, last, win, stop, stops, lost>>
    BY DEF Collect, Timeout
<1>3. /\ proc[req[r].p].key = req[r].at
      /\ req[r].killed => proc[req[r].p].st = "nonzero"
      /\ \A q \in Live : proc[q].key \in Foreground => req[r].p = q
    BY <1>0, <1>1, NumbersFact DEF PanelInv, ThreadOK, ForegroundIsWatched
<1>4. PICK status \in Ends \cup {"passed"} :
          /\ Answer(r, status)
          /\ status = "passed" => proc[req[r].p].st = "zero"
          /\ \/ UNCHANGED proc /\ (req[r].p \notin Live \/ req[r].at = Connect)
             \/ proc' = Ended({req[r].p})
    BY Zenon DEF Collect, Timeout, Ends
<1> DEFINE pc == IF status \in Ends THEN "done" ELSE "next"
<1>5. Moved(r, pc, req[r].at, 0) /\ (lock' = IF status \in Ends THEN 0 ELSE r)
    BY <1>1, <1>4, AnswerFact
<1>6. Calmed /\ Live' \subseteq Live /\ (req[r].p \in Live' => req[r].at = Connect)
    BY <1>1, <1>4, SameFact, EndedFact
<1>7. \A q \in Live' : (q \in lost' \/ table'[proc'[q].key] = q) /\ proc'[q].key \notin Foreground
  <2> SUFFICES ASSUME NEW q \in Live' PROVE (q \in lost' \/ table'[proc'[q].key] = q) /\ proc'[q].key \notin Foreground
      OBVIOUS
  <2>1. q \in Live /\ proc'[q].key = proc[q].key
      BY <1>6, NumbersFact DEF Calmed
  <2>2. proc[q].key \notin Foreground
      BY <1>3, <1>6, <2>1, KeysFact
  <2> QED
      BY <1>1, <1>2, <2>1, <2>2
<1>8. req[r].killed => pc = "done"
    BY <1>3, <1>4
<1>9. pc \in {"done", "next"} /\ pc \in Places /\ (lock' = IF pc = "done" THEN 0 ELSE r) /\ 0 \in 0 .. MaxProcs
    BY <1>5, BoundsFact DEF Places
<1> HIDE DEF pc
<1>10. ThreadOK(r)'
    BY <1>1, <1>5, <1>8, <1>9, ThreadIsOK
<1> QED
    BY <1>1, <1>2, <1>5, <1>6, <1>7, <1>9, <1>10, ThreadStep

\* All that a request's thread does keeps the invariant.
LEMMA RequestKeeps ==
    ASSUME PanelInv, NEW r \in Requests, PostRun(r) \/ RunStep(r)
    PROVE  PanelInv'
BY PostRunKeeps, PlainKeeps, CleanKeeps, StartKeeps, RegisterKeeps, WatchKeeps DEF RunStep

-----------------------------------------------------------------------------
(* Stops, processes and windows.                                           *)

\* The note that a stop leaves for the threads.
LEMMA KilledFact ==
    ASSUME TypeOK, NEW P, req' = Killed(P)
    PROVE  /\ DOMAIN req' = Requests
           /\ \A r \in Requests :
                  /\ DOMAIN req'[r] = {"pc", "todo", "at", "p", "killed"} /\ req'[r].killed \in BOOLEAN
                  /\ req'[r].pc = req[r].pc /\ req'[r].at = req[r].at /\ req'[r].p = req[r].p
                  /\ req'[r].killed => req[r].killed \/ (req[r].p \in P /\ req[r].p \in Live /\ req[r].pc = "watch")
<1>1. DOMAIN req = Requests /\ \A r \in Requests : DOMAIN req[r] = {"pc", "todo", "at", "p", "killed"} /\ req[r].killed \in BOOLEAN
    BY DEF TypeOK
<1>2. req' = [r \in Requests |-> [req[r] EXCEPT !.killed = @ \/ (req[r].p \in P \cap Live /\ req[r].pc = "watch")]]
    BY DEF Killed
<1>3. ASSUME NEW r \in Requests
      PROVE  /\ DOMAIN req'[r] = {"pc", "todo", "at", "p", "killed"}
             /\ req'[r].pc = req[r].pc /\ req'[r].at = req[r].at /\ req'[r].p = req[r].p
             /\ req'[r].killed = (req[r].killed \/ (req[r].p \in P \cap Live /\ req[r].pc = "watch"))
    BY <1>1, <1>2
<1> QED
    BY <1>1, <1>2, <1>3

\* Threads that are left alone.
LEMMA RestFact ==
    ASSUME TypeOK, req' = req
    PROVE  /\ DOMAIN req' = Requests
           /\ \A r \in Requests :
                  /\ DOMAIN req'[r] = {"pc", "todo", "at", "p", "killed"} /\ req'[r].killed \in BOOLEAN
                  /\ req'[r].pc = req[r].pc /\ req'[r].at = req[r].at /\ req'[r].p = req[r].p
                  /\ req'[r].killed => req[r].killed
BY DEF TypeOK

\* The record of a stop.
StopRecords == [pc : {"idle", "sweep", "pop", "done"}, all : BOOLEAN, todo : SUBSET (Tracked \X Procs),
                key : Tracked \cup {""}, p : 0 .. MaxProcs, quiet : BOOLEAN]

\* A stop's thread, process by process.
LEMMA StopKeeps ==
    ASSUME PanelInv, StopBegins \/ Sweep
    PROVE  PanelInv'
<1>1. /\ TypeOK /\ StartedOnly /\ Traced /\ QuietSweep /\ stop \in StopRecords /\ lost \subseteq Procs
      /\ win \in [Windows -> {"none", "waiting", "starting", "moving", "ready", "over"}]
      /\ table \in [Tracked -> 0 .. MaxProcs] /\ \A k \in Tracked : table[k] <= last
      /\ \A q \in Live : q \in Procs /\ proc[q].key \in Tracked
      /\ stop.p <= last /\ \A e \in stop.todo : e[2] <= last
    BY NumbersFact DEF PanelInv, TypeOK, StartedOnly, StopRecords
<1>2. last \in 0 .. MaxProcs /\ stops \in 0 .. MaxStops
    BY <1>1, Zenon DEF TypeOK
<1>3. 0 <= last /\ 0 \in 0 .. MaxProcs
    BY <1>2, LastFact, BoundsFact
<1>4. CASE StopBegins
  <2> DEFINE todo == {<<k, table[k]>> : k \in {k \in Tracked : table[k] # 0}}
  <2>0. stops < MaxStops /\ stops' = stops + 1
      BY <1>4, Zenon DEF StopBegins
  <2>1. UNCHANGED <<lock, req, table, proc, last, win, lost>>
      BY <1>4, Zenon DEF StopBegins
  <2>10. PICK all \in BOOLEAN :
            stop' = [pc |-> "sweep", all |-> all, key |-> "", p |-> 0, quiet |-> lock = 0, todo |-> todo]
      BY <1>4, Zenon DEF StopBegins
  <2>2. todo \subseteq Tracked \X Procs /\ \A e \in todo : e[2] <= last
    <3>1. \A k \in Tracked : table[k] # 0 => table[k] \in Procs
        BY <1>1, BoundsFact DEF Procs
    <3> QED
        BY <1>1, <3>1
  <2>3. \A q \in Live : table[proc[q].key] = q => <<proc[q].key, q>> \in todo
      BY <1>1, NumbersFact
  <2> HIDE DEF todo
  <2>4. stop' \in StopRecords /\ stop'.pc = "sweep" /\ stop'.p = 0 /\ stop'.todo = todo /\ (stop'.quiet => lock = 0)
      BY <1>3, <2>2, <2>10 DEF StopRecords
  <2>5. Calmed /\ Live' = Live
      BY <1>1, <2>1, SameFact
  <2>6. QuietSweep' /\ QuietStopEndsAll'
    <3>1. lock = 0 => \A q \in Live : q \in lost \/ table[proc[q].key] = q
      <4>1. lock = 0 => \A r \in Requests : req[r].pc \in {"new", "done"}
          BY NumbersFact DEF PanelInv, ThreadOK
      <4> QED
          BY <1>1, <4>1 DEF Traced
    <3>2. lock = 0 => \A q \in Live' : q \in lost' \/ <<proc'[q].key, q>> \in stop'.todo
        BY <2>1, <2>3, <2>4, <2>5, <3>1
    <3> QED
        BY <2>1, <2>4, <3>2 DEF QuietSweep, QuietStopEndsAll
  <2>7. stops' \in 0 .. MaxStops
      BY <1>2, <2>0, BoundsFact
  <2>8. /\ stop'.p <= last /\ (\A e \in stop'.todo : e[2] <= last) /\ (stop'.pc = "pop" => stop'.p \notin Live')
        /\ \A k \in Tracked : table'[k] \in {table[k], 0}
      BY <1>3, <2>1, <2>2, <2>4
  <2> QED
      BY <1>1, <2>1, <2>4, <2>5, <2>6, <2>7, <2>8, RestFact, WorldStep, Zenon DEF StopRecords
<1>5. CASE StopTerminates
  <2>1. PICK e \in stop.todo :
           /\ stop' = [stop EXCEPT !.pc = "pop", !.key = e[1], !.p = e[2], !.todo = @ \ {e}]
           /\ proc' = Ended({e[2]}) /\ req' = Killed({e[2]})
      BY <1>5, Zenon DEF StopTerminates
  <2>2. UNCHANGED <<lock, table, last, win, stops, lost>>
      BY <1>5, Zenon DEF StopTerminates
  <2>3. e \in Tracked \X Procs /\ e[1] \in Tracked /\ e[2] \in 0 .. MaxProcs /\ e = <<e[1], e[2]>>
    <3>1. e \in Tracked \X Procs
        BY <1>1, <2>1 DEF StopRecords
    <3> QED
        BY <3>1, NumbersFact
  <2>4. /\ stop' \in StopRecords /\ stop'.pc = "pop" /\ stop'.p = e[2] /\ stop'.todo = stop.todo \ {e}
        /\ stop'.quiet = stop.quiet
      BY <1>1, <2>1, <2>3 DEF StopRecords
  <2>5. Calmed /\ Live' = Live \ {e[2]} /\ (e[2] \in Live => proc'[e[2]].st = "nonzero")
      BY <1>1, <2>1, EndedFact
  <2>6. QuietSweep' /\ QuietStopEndsAll'
    <3>1. \A q \in Live' : q \in Live /\ q # e[2] /\ proc'[q].key = proc[q].key
        BY <1>1, <2>5 DEF Calmed
    <3>2. \A q \in Live' : <<proc'[q].key, q>> # e
        BY <2>3, <3>1
    <3>3. stop.pc = "sweep"
        BY <1>5 DEF StopTerminates
    <3> QED
        BY <1>1, <2>2, <2>4, <3>1, <3>2, <3>3 DEF QuietSweep, QuietStopEndsAll
  <2>7. /\ stop'.p <= last /\ (\A d \in stop'.todo : d[2] <= last) /\ stop'.p \notin Live'
        /\ \A k \in Tracked : table'[k] \in {table[k], 0}
      BY <1>1, <2>1, <2>2, <2>4, <2>5
  <2>8. /\ DOMAIN req' = Requests
        /\ \A r \in Requests :
               /\ DOMAIN req'[r] = {"pc", "todo", "at", "p", "killed"} /\ req'[r].killed \in BOOLEAN
               /\ req'[r].pc = req[r].pc /\ req'[r].at = req[r].at /\ req'[r].p = req[r].p
               /\ req'[r].killed => req[r].killed \/ (req[r].pc = "watch" /\ proc'[req[r].p].st = "nonzero")
    <3>1. /\ DOMAIN req' = Requests
          /\ \A r \in Requests :
                 /\ DOMAIN req'[r] = {"pc", "todo", "at", "p", "killed"} /\ req'[r].killed \in BOOLEAN
                 /\ req'[r].pc = req[r].pc /\ req'[r].at = req[r].at /\ req'[r].p = req[r].p
                 /\ req'[r].killed => req[r].killed \/ (req[r].p \in {e[2]} /\ req[r].p \in Live /\ req[r].pc = "watch")
        BY <1>1, <2>1, KilledFact, Zenon
    <3>2. \A r \in Requests : req[r].p \in {e[2]} /\ req[r].p \in Live => proc'[req[r].p].st = "nonzero"
        BY <2>5
    <3> QED
        BY <3>1, <3>2, Zenon
  <2> QED
      BY <1>1, <1>2, <2>2, <2>4, <2>5, <2>6, <2>7, <2>8, WorldStep, Zenon DEF StopRecords
<1>6. CASE StopPops
  <2>1. /\ table' = [table EXCEPT ![stop.key] = 0] /\ stop.pc = "pop"
        /\ lost' = lost \cup (({table[stop.key]} \cap Live) \ {stop.p})
        /\ stop' = [stop EXCEPT !.pc = "sweep", !.key = "", !.p = 0]
        /\ UNCHANGED <<lock, req, proc, last, win, stops>>
      BY <1>6, Zenon DEF StopPops
  <2>2. stop.p \notin Live
      BY <1>1, <2>1 DEF StartedOnly
  <2>3. Calmed /\ Live' = Live
      BY <1>1, <2>1, SameFact
  <2>4. /\ stop' \in StopRecords /\ stop'.pc = "sweep" /\ stop'.p = 0 /\ stop'.todo = stop.todo
        /\ stop'.quiet = stop.quiet
      BY <1>1, <1>3, <2>1 DEF StopRecords
  <2>5. lost \subseteq lost' /\ lost' \subseteq Procs
      BY <1>1, <2>1
  <2>6. table' \in [Tracked -> 0 .. MaxProcs] /\ \A k \in Tracked : table'[k] \in {table[k], 0}
      BY <1>1, <1>3, <2>1
  <2>7. \A q \in Live' : table[proc[q].key] = q => q \in lost' \/ table'[proc[q].key] = q
    <3> SUFFICES ASSUME NEW q \in Live, table[proc[q].key] = q PROVE q \in lost' \/ table'[proc[q].key] = q
        BY <2>3
    <3>1. CASE proc[q].key = stop.key
        BY <2>1, <2>2, <3>1
    <3>2. CASE proc[q].key # stop.key
        BY <1>1, <2>1, <3>2
    <3> QED
        BY <3>1, <3>2
  <2>8. QuietSweep' /\ QuietStopEndsAll'
      BY <1>1, <2>1, <2>3, <2>4, <2>5 DEF QuietSweep, QuietStopEndsAll
  <2>9. stop'.p <= last /\ (\A e \in stop'.todo : e[2] <= last) /\ (stop'.pc = "pop" => stop'.p \notin Live')
      BY <1>1, <1>3, <2>4
  <2> QED
      BY <1>1, <1>2, <2>1, <2>3, <2>4, <2>5, <2>6, <2>7, <2>8, <2>9, RestFact, WorldStep, Zenon DEF StopRecords
<1>7. CASE StopEnds
  <2>1. /\ stop.pc = "sweep" /\ stop.todo = {} /\ stop' = [stop EXCEPT !.pc = "done"]
        /\ UNCHANGED <<lock, table, last, stops, lost>>
      BY <1>7, Zenon DEF StopEnds
  <2>2. /\ stop' \in StopRecords /\ stop'.pc = "done" /\ stop'.p = stop.p /\ stop'.todo = {}
        /\ stop'.quiet = stop.quiet
      BY <1>1, <2>1 DEF StopRecords
  <2>3. /\ Calmed /\ win' \in [Windows -> {"none", "waiting", "starting", "moving", "ready", "over"}]
        /\ DOMAIN req' = Requests
        /\ \A r \in Requests :
               /\ DOMAIN req'[r] = {"pc", "todo", "at", "p", "killed"} /\ req'[r].killed \in BOOLEAN
               /\ req'[r].pc = req[r].pc /\ req'[r].at = req[r].at /\ req'[r].p = req[r].p
               /\ req'[r].killed => req[r].killed \/ (req[r].pc = "watch" /\ proc'[req[r].p].st = "nonzero")
    <3>1. CASE win' = Closed(Windows) /\ proc' = Ended(Procs) /\ req' = Killed(Procs)
      <4>1. win' \in [Windows -> {"none", "waiting", "starting", "moving", "ready", "over"}]
          BY <1>1, <3>1 DEF Closed
      <4>2. Calmed /\ \A q \in Procs : q \in Live => proc'[q].st = "nonzero"
          BY <1>1, <3>1, EndedFact
      <4> QED
          BY <1>1, <3>1, <4>1, <4>2, KilledFact
    <3>2. CASE UNCHANGED <<win, proc, req>>
        BY <1>1, <3>2, SameFact, RestFact
    <3> QED
        BY <1>7, <3>1, <3>2, Zenon DEF StopEnds
  <2>4. QuietSweep' /\ QuietStopEndsAll'
    <3>1. stop.quiet => \A q \in Live' : q \in lost
        BY <1>1, <2>1, <2>3 DEF QuietSweep, Calmed
    <3> QED
        BY <1>1, <2>1, <2>2, <3>1 DEF QuietSweep, QuietStopEndsAll
  <2>5. /\ stop'.p <= last /\ (\A e \in stop'.todo : e[2] <= last) /\ (stop'.pc = "pop" => stop'.p \notin Live')
        /\ \A k \in Tracked : table'[k] \in {table[k], 0}
      BY <1>1, <2>1, <2>2
  <2> QED
      BY <1>1, <1>2, <2>1, <2>2, <2>3, <2>4, <2>5, WorldStep, Zenon DEF StopRecords
<1> QED
    BY <1>4, <1>5, <1>6, <1>7 DEF Sweep

\* Commands, the reconnect, windows and the operator.
LEMMA WorldKeeps ==
    ASSUME PanelInv, NEW p, NEW w,
           (p \in Procs /\ (ProcWorks(p) \/ ProcExits(p))) \/ (w \in Windows /\ WindowWorks(w))
    PROVE  PanelInv'
<1>1. /\ TypeOK /\ proc \in [Procs -> ProcRecords]
      /\ win \in [Windows -> {"none", "waiting", "starting", "moving", "ready", "over"}]
    BY DEF PanelInv, TypeOK
<1>2. UNCHANGED <<lock, req, table, last, stop, stops, lost>>
    BY DEF ProcWorks, ProcExits, WindowWorks
<1>3. ASSUME p \in Procs, p \in Live, NEW st \in {"zero", "nonzero", "moving"}, proc' = [proc EXCEPT ![p].st = st]
      PROVE  Calmed
  <2>1. /\ proc' \in [Procs -> ProcRecords]
        /\ \A q \in Procs : proc'[q].key = proc[q].key /\ (q # p => proc'[q] = proc[q])
      BY <1>1, <1>3 DEF ProcRecords
  <2>2. proc[p].st # "nonzero"
      BY <1>3 DEF Live, Busy
  <2>3. Live' \subseteq Live
      BY <1>3, <2>1 DEF Live, Busy
  <2> QED
      BY <2>1, <2>2, <2>3 DEF Calmed
<1>4. CASE p \in Procs /\ ProcWorks(p)
  <2>1. p \in Live
      BY <1>4 DEF ProcWorks, Live, Busy
  <2>2. CASE proc' = [proc EXCEPT ![p].st = "moving"] /\ UNCHANGED win
      BY <1>1, <1>2, <1>3, <1>4, <2>1, <2>2, QuietStep
  <2>3. CASE win' = Closed(Windows) /\ proc' = Ended({q \in Procs : proc[q].key \in {Helper, Gripper, Recipe}})
    <3>1. win' \in [Windows -> {"none", "waiting", "starting", "moving", "ready", "over"}]
        BY <1>1, <2>3 DEF Closed
    <3>2. Calmed
        BY <1>1, <2>3, EndedFact
    <3> QED
        BY <1>2, <3>1, <3>2, QuietStep
  <2> QED
      BY <1>4, <2>2, <2>3, Zenon DEF ProcWorks
<1>5. CASE p \in Procs /\ ProcExits(p)
    BY <1>1, <1>2, <1>3, <1>5, QuietStep DEF ProcExits
<1>6. CASE w \in Windows /\ WindowWorks(w)
  <2>1. /\ proc' = proc
        /\ \E s \in {"waiting", "moving", "ready", "over"} : win' = [win EXCEPT ![w] = s]
      BY <1>6 DEF WindowWorks
  <2>2. win' \in [Windows -> {"none", "waiting", "starting", "moving", "ready", "over"}]
      BY <1>1, <2>1
  <2> QED
      BY <1>1, <1>2, <2>1, <2>2, SameFact, QuietStep
<1> QED
    BY <1>4, <1>5, <1>6

-----------------------------------------------------------------------------
(* The theorems.                                                           *)

\* The initial states satisfy the invariant.
LEMMA InitPanelInv == Init => PanelInv
<1> SUFFICES ASSUME Init PROVE PanelInv
    OBVIOUS
<1>1. 0 \in 0 .. MaxRequests /\ 0 \in 0 .. MaxProcs /\ 0 \in 0 .. MaxStops
    BY BoundsFact
<1>2. /\ DOMAIN req = Requests
      /\ \A r \in Requests :
             /\ DOMAIN req[r] = {"pc", "todo", "at", "p", "killed"}
             /\ req[r].pc = "new" /\ req[r].p = 0 /\ req[r].killed = FALSE
    BY DEF Init, NewThread
<1>3. TypeOK
  <2>1. stop \in [pc : {"idle", "sweep", "pop", "done"}, all : BOOLEAN, todo : SUBSET (Tracked \X Procs),
                  key : Tracked \cup {""}, p : 0 .. MaxProcs, quiet : BOOLEAN]
      BY <1>1 DEF Init, NoStop
  <2>2. proc \in [Procs -> ProcRecords] /\ table \in [Tracked -> 0 .. MaxProcs]
        /\ win \in [Windows -> {"none", "waiting", "starting", "moving", "ready", "over"}]
      BY <1>1 DEF Init, ProcRecords
  <2>3. lock \in 0 .. MaxRequests /\ last \in 0 .. MaxProcs /\ stops \in 0 .. MaxStops /\ lost \subseteq Procs
      BY <1>1 DEF Init
  <2>4. \A r \in Requests : req[r].pc \in Places /\ req[r].p \in 0 .. MaxProcs /\ req[r].killed \in BOOLEAN
      BY <1>1, <1>2 DEF Places
  <2> QED
      BY <1>2, <2>1, <2>2, <2>3, <2>4, Zenon DEF TypeOK
<1>4. Live = {}
    BY DEF Init, Live, Busy
<1>5. (\A r \in Requests : ThreadOK(r)) /\ StopEndsQueue
    BY <1>2 DEF ThreadOK, StopEndsQueue
<1>6. StartedOnly
  <2>1. last = 0 /\ (\A k \in Tracked : table[k] = 0) /\ stop.p = 0 /\ stop.todo = {} /\ stop.pc = "idle"
      BY DEF Init, NoStop
  <2> QED
      BY <1>4, <2>1, LastFact, <1>1 DEF StartedOnly
<1> QED
    BY <1>3, <1>4, <1>5, <1>6 DEF Init, NoStop, PanelInv, Traced, QuietSweep, ForegroundIsWatched, QuietStopEndsAll

\* The invariant is kept by every step.
LEMMA NextPanelInv == PanelInv /\ [Next]_vars => PanelInv'
<1> SUFFICES ASSUME PanelInv, [Next]_vars PROVE PanelInv'
    OBVIOUS
<1>1. CASE \E r \in Requests : PostRun(r) \/ RunStep(r)
    BY <1>1, RequestKeeps, Zenon
<1>2. CASE StopBegins \/ Sweep
    BY <1>2, StopKeeps, Zenon
<1>3. CASE \/ \E p \in Procs : ProcWorks(p) \/ ProcExits(p)
           \/ \E w \in Windows : WindowWorks(w)
    BY <1>3, WorldKeeps, Zenon
<1>4. CASE UNCHANGED vars
  <2>1. UNCHANGED <<lock, req, table, proc, last, win, stop, stops, lost>>
      BY <1>4 DEF vars
  <2>2. TypeOK /\ win' \in [Windows -> {"none", "waiting", "starting", "moving", "ready", "over"}]
      BY <2>1 DEF PanelInv, TypeOK
  <2> QED
      BY <2>1, <2>2, SameFact, QuietStep
<1> QED
    BY <1>1, <1>2, <1>3, <1>4, Zenon DEF Next

\* The invariant of the panel holds in every reachable state.
THEOREM PanelInvariance == Spec => []PanelInv
BY InitPanelInv, NextPanelInv, PTL DEF Spec

\* The types of the panel's variables.
THEOREM PanelTypeCorrect == Spec => []TypeOK
BY PanelInvariance, PTL DEF PanelInv

\* A foreground command never outlives the request that started it, nor RUN_LOCK.
THEOREM ForegroundWatched == Spec => []ForegroundIsWatched
BY PanelInvariance, PTL DEF PanelInv

\* A stop that no accepted request overlaps ends every process the panel has started, but for those
\* that were dropped from the table before.
THEOREM QuietStopEnds == Spec => []QuietStopEndsAll
BY PanelInvariance, PTL DEF PanelInv

\* A request whose command a stop has ended starts no further step of its list.
THEOREM StopEndsTheQueue == Spec => []StopEndsQueue
BY PanelInvariance, PTL DEF PanelInv
=============================================================================
