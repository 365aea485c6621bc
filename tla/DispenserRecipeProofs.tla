------------------------ MODULE DispenserRecipeProofs ------------------------
(***************************************************************************)
(* Proofs about DispenserRecipe: the journal tells where the cup is and    *)
(* what has been poured, for every set of recipes and however often the    *)
(* process is stopped and resumed.                                         *)
(***************************************************************************)
EXTENDS DispenserRecipe, SequenceTheorems, TLAPS

-----------------------------------------------------------------------------
(***************************************************************************)
(* Recipes and stages.                                                     *)
(***************************************************************************)
LEMMA RecipeFacts ==
    ASSUME NEW r \in Recipes
    PROVE  /\ Len(r) \in Nat /\ Len(r) >= 1
           /\ \A g \in 1 .. Len(r) : /\ r[g].id \in Dispensers
                                     /\ r[g].count \in Nat /\ r[g].count > 0
<1>1. r \in Seq(Group) /\ Len(r) > 0
  BY RecipeAssumption
<1>2. Len(r) \in Nat /\ \A g \in 1 .. Len(r) : r[g] \in Group
  BY <1>1
<1> QED
  BY <1>1, <1>2 DEF Group

LEMMA StageFacts ==
    /\ Rank["move_release"] = 1 /\ Rank["press"] = 2 /\ Rank["regrasp"] = 3
    /\ Follower["move_release"] = "press" /\ Follower["press"] = "regrasp"
BY DEF Rank, Follower

\* A journal that is being written or read is neither missing nor torn.
LEMMA JournalFacts ==
    /\ None # Torn
    /\ \A f \in Journals : f # None /\ f # Torn
    /\ \A f \in Journals \cup {None, Torn} : IsJournal(f) <=> f \in Journals
BY RecipeAssumption DEF IsJournal

\* No dispenser is named like a place the cup can be otherwise.
LEMMA PlaceFacts ==
    \A d \in Dispensers : d # "gripper" /\ d # "holder" /\ d # "lost"
BY RecipeAssumption

\* What the tracker puts on record is a journal of the order.
LEMMA EntryFacts ==
    ASSUME recipe \in Recipes, NEW t \in Positions, NEW c \in BOOLEAN
    PROVE  [recipe |-> recipe, group |-> t.group, stage |-> t.stage, done |-> c]
              \in Journals
BY DEF Positions, Journals
-----------------------------------------------------------------------------
LEMMA InitRInv == Init => RInv
<1> SUFFICES ASSUME Init PROVE RInv
  OBVIOUS
<1> USE DEF Init
<1>1. PICK r \in Recipes, k \in BOOLEAN :
        /\ recipe = r /\ skip = k /\ cup = Home(r, k)
        /\ poured = [g \in 1 .. Len(r) |-> 0]
  OBVIOUS
<1>2. /\ n \in Nat /\ n >= 1
      /\ \A g \in 1 .. n : recipe[g].id \in Dispensers
  BY <1>1, RecipeFacts DEF n
<1>3. TypeOK
  <2>1. cup \in Dispensers \cup {"gripper", "holder", "lost"}
    BY <1>1, <1>2 DEF n, Home
  <2>2. tr \in Positions /\ at \in Stages \cup {"cup_holder"} /\ idx \in 1 .. n + 1
    BY <1>2 DEF Beginning, Positions, Stages
  <2>3. skip \in BOOLEAN /\ own \in BOOLEAN /\ astray \in BOOLEAN
    BY <1>1
  <2>4. poured \in [1 .. n -> Nat]
    BY <1>1 DEF n
  <2> QED
    BY <1>1, <2>1, <2>2, <2>3, <2>4 DEF TypeOK
<1>4. JournalsValid
  BY JournalFacts DEF JournalsValid, IsJournal
<1>5. OnRecord
  BY DEF OnRecord
<1>6. WorldKnown
  BY <1>1 DEF WorldKnown, n
<1> QED
  BY <1>3, <1>4, <1>5, <1>6 DEF RInv
-----------------------------------------------------------------------------
(***************************************************************************)
(* What the invariant says of the current order and position.              *)
(***************************************************************************)
LEMMA Context ==
    ASSUME RInv
    PROVE  /\ n \in Nat /\ n >= 1 /\ idx \in 1 .. n + 1
           /\ \A g \in 1 .. n : /\ recipe[g].id \in Dispensers
                                /\ recipe[g].count \in Nat /\ recipe[g].count > 0
           /\ tr.group \in Nat /\ tr.stage \in Stages \cup {"cup_holder"}
           /\ tr = [group |-> tr.group, stage |-> tr.stage]
           /\ Entry(TRUE) \in Journals /\ Entry(FALSE) \in Journals
           /\ pc = "act" /\ at \in Stages => idx \in 1 .. n
           /\ pc = "act" /\ at = "cup_holder" => idx = n + 1 /\ tr.group = n + 1
<1> USE DEF RInv, TypeOK
<1>1. /\ n \in Nat /\ n >= 1
      /\ \A g \in 1 .. n : /\ recipe[g].id \in Dispensers
                           /\ recipe[g].count \in Nat /\ recipe[g].count > 0
  BY RecipeFacts DEF n
<1>2. /\ tr.group \in Nat /\ tr.stage \in Stages \cup {"cup_holder"}
      /\ tr = [group |-> tr.group, stage |-> tr.stage]
  BY DEF Positions
<1>3. Entry(TRUE) \in Journals /\ Entry(FALSE) \in Journals
  BY <1>2 DEF Entry, Journals
<1>4. pc = "act" /\ at \in Stages => idx \in 1 .. n
  BY <1>1 DEF OnRecord
<1>5. pc = "act" /\ at = "cup_holder" => idx = n + 1 /\ tr.group = n + 1
  BY <1>1 DEF OnRecord, InRecipe, Stages, n
<1> QED
  BY <1>1, <1>2, <1>3, <1>4, <1>5

LEMMA NewOrderStep ==
    ASSUME RInv, NEW r \in Recipes, NEW k \in BOOLEAN, NewOrder(r, k)
    PROVE  RInv'
<1> USE DEF NewOrder
<1>1. /\ n' = Len(r) /\ n' \in Nat /\ n' >= 1
      /\ \A g \in 1 .. n' : r[g].id \in Dispensers
  BY RecipeFacts DEF n
<1>2. TypeOK'
  <2>1. cup' \in Dispensers \cup {"gripper", "holder", "lost"}
    BY <1>1 DEF Home
  <2>2. poured' \in [1 .. n' -> Nat]
    BY <1>1
  <2>3. idx' \in 1 .. n' + 1
    BY <1>1 DEF RInv, TypeOK, OnRecord, process
  <2> QED
    BY <2>1, <2>2, <2>3 DEF RInv, TypeOK, process
<1>3. JournalsValid'
  BY DEF RInv, JournalsValid, process, IsJournal, InRecipe
<1>4. OnRecord'
  BY DEF RInv, OnRecord, process
<1>5. WorldKnown'
  BY <1>1 DEF WorldKnown, process
<1> QED
  BY <1>2, <1>3, <1>4, <1>5 DEF RInv

LEMMA LaunchStep ==
    ASSUME RInv, Launch
    PROVE  RInv'
<1> USE DEF Begin
<1>0. InRecipe(Beginning, recipe) /\ Beginning \in Positions
  BY Context DEF InRecipe, Beginning, Stages, Positions, n
<1>1. CASE LaunchFresh
  <2> USE <1>1 DEF LaunchFresh
  <2>1. TypeOK'
    BY <1>0 DEF RInv, TypeOK, world, n
  <2>2. JournalsValid'
    BY DEF RInv, JournalsValid, IsJournal
  <2>3. OnRecord'
    BY <1>0 DEF OnRecord, InRecipe
  <2>4. WorldKnown'
    BY DEF RInv, WorldKnown, world, n, Home
  <2> QED
    BY <2>1, <2>2, <2>3, <2>4 DEF RInv
<1>2. CASE LaunchResume
  <2> USE <1>2 DEF LaunchResume
  <2>0. IsJournal(file) <=> file \in Journals
    BY JournalFacts DEF RInv, TypeOK
  <2>1. Unfinished(file) => /\ file \in Journals /\ ~file.done
                            /\ file.recipe = recipe /\ InRecipe(file, recipe)
    BY <2>0 DEF Unfinished, RInv, JournalsValid
  <2>2. /\ tr' \in Positions /\ InRecipe(tr', recipe)
        /\ Unfinished(file) => file = Entry(FALSE)'
    <3>1. CASE Unfinished(file)
      <4>1. tr' = [group |-> file.group, stage |-> file.stage]
        BY <3>1
      <4>2. tr' \in Positions /\ InRecipe(tr', recipe)
        BY <3>1, <2>1, <4>1 DEF Journals, Positions, InRecipe
      <4>3. Entry(FALSE)' = [recipe |-> recipe, group |-> file.group,
                             stage |-> file.stage, done |-> FALSE]
        BY <4>1 DEF Entry
      <4> QED
        BY <3>1, <2>1, <4>2, <4>3 DEF Journals
    <3>2. CASE ~Unfinished(file)
      BY <3>2, <1>0
    <3> QED
      BY <3>1, <3>2
  <2>3. TypeOK'
    BY <2>2 DEF RInv, TypeOK, world, n
  <2>4. JournalsValid'
    BY DEF RInv, JournalsValid, IsJournal, InRecipe
  <2>5. OnRecord'
    BY <2>1, <2>2 DEF RInv, JournalsValid, OnRecord, InRecipe, IsJournal, Unfinished
  <2>6. WorldKnown'
    <3>1. CASE astray'
      BY <3>1 DEF WorldKnown
    <3>2. CASE ~astray' /\ own
      BY <3>2, <2>1, <2>2 DEF RInv, JournalsValid, WorldKnown, world, n, IsJournal,
         Unfinished, Describes, CupFor, Accounted, Home
    <3>3. CASE ~astray' /\ ~own
      BY <3>3, <2>1 DEF RInv, WorldKnown, world, n, IsJournal, Unfinished, Home
    <3> QED
      BY <3>1, <3>2, <3>3
  <2> QED
    BY <2>3, <2>4, <2>5, <2>6 DEF RInv
<1> QED
  BY <1>1, <1>2 DEF Launch

LEMMA OpenJournalStep ==
    ASSUME RInv, OpenJournal
    PROVE  RInv'
<1> USE DEF OpenJournal, Save
<1>0. file' = Torn /\ buf' = Entry(FALSE) /\ Entry(FALSE)' = Entry(FALSE)
  BY DEF Entry
<1>1. TypeOK'
  <2>1. n' = n
    BY DEF n
  <2>2. idx' \in 1 .. n' + 1
    BY <2>1, Context
  <2>3. buf' \in Journals /\ own' \in BOOLEAN
    BY <1>0, Context
  <2> QED
    BY <1>0, <2>1, <2>2, <2>3 DEF RInv, TypeOK, world
<1>2. JournalsValid'
  BY JournalFacts, <1>0 DEF RInv, JournalsValid, IsJournal
<1>3. OnRecord'
  <2>1. InRecipe(tr, recipe)
    BY DEF RInv, OnRecord
  <2>2. Committed' = Entry(FALSE)'
    BY <1>0, JournalFacts, Context DEF Committed
  <2>3. idx' <= tr'.group
    <3>1. Len(recipe) >= 1 /\ Len(recipe) \in Nat
      BY Context DEF n
    <3> QED
      BY <2>1, <3>1 DEF InRecipe
  <2> QED
    BY <2>1, <2>2, <2>3 DEF OnRecord, InRecipe
<1>4. WorldKnown'
  <2>1. ~own /\ ~astray /\ (skip => n = 1) => Describes(Entry(FALSE))
    BY Context DEF RInv, WorldKnown, Entry, Describes, CupFor, Accounted, Beginning, Home, n
  <2>2. own /\ ~astray /\ (skip => n = 1) => Describes(Entry(FALSE))
    BY DEF RInv, WorldKnown
  <2>3. Describes(Entry(FALSE)) => Describes(Entry(FALSE))'
    BY DEF Describes, world, n, CupFor, Accounted, Home, Entry
  <2> QED
    BY <2>1, <2>2, <2>3 DEF WorldKnown, n
<1> QED
  BY <1>1, <1>2, <1>3, <1>4 DEF RInv

LEMMA EndWriteStep ==
    ASSUME RInv, EndWrite
    PROVE  RInv'
<1> USE DEF EndWrite
<1>0. /\ buf = Entry(pc = "end") /\ buf \in Journals /\ pc \notin {"off", "init"}
      /\ InRecipe(tr, recipe) /\ (pc = "end" => tr.group = n + 1)
      /\ Entry(pc = "end")' = Entry(pc = "end")
  <2>1. pc \notin {"off", "init"}
    BY DEF RInv, JournalsValid
  <2>2. buf = Entry(pc = "end") /\ InRecipe(tr, recipe) /\ (pc = "end" => tr.group = n + 1)
    BY <2>1 DEF RInv, OnRecord, Committed
  <2>3. buf \in Journals
    BY DEF RInv, TypeOK
  <2>4. Entry(pc = "end")' = Entry(pc = "end")
    BY DEF Entry, order
  <2> QED
    BY <2>1, <2>2, <2>3, <2>4
<1>1. TypeOK'
  BY <1>0 DEF RInv, TypeOK, world, order, n
<1>2. JournalsValid'
  <2>1. /\ buf.recipe = recipe /\ buf.group = tr.group /\ buf.stage = tr.stage
        /\ buf.done = (pc = "end")
    BY <1>0 DEF Entry
  <2>2. InRecipe(buf, buf.recipe)
    BY <1>0, <2>1 DEF InRecipe
  <2>3. IsJournal(buf)
    BY <1>0, JournalFacts
  <2> QED
    BY <1>0, <2>1, <2>2, <2>3 DEF RInv, JournalsValid, IsJournal, order, n
<1>3. OnRecord'
  <2>1. Committed' = Committed
    BY DEF Committed
  <2> QED
    BY <1>0, <2>1 DEF RInv, OnRecord, InRecipe, order, n, Effects
<1>4. WorldKnown'
  BY <1>0 DEF RInv, WorldKnown, world, order, n, Describes, CupFor, Accounted, Home,
     CupMidStage, Entry, Here
<1> QED
  BY <1>1, <1>2, <1>3, <1>4 DEF RInv

\* The steps of the loop that neither write nor move.
LEMMA LoopStep ==
    ASSUME RInv, SkipGroup \/ EnterGroup \/ PassStage
    PROVE  RInv'
<1> USE DEF SkipGroup, EnterGroup, PassStage
<1>0. /\ UNCHANGED <<file, buf, tr, did, world, order>> /\ n' = n
      /\ pc \in {"group", "stage"} /\ pc' \in {"group", "stage"}
      /\ InRecipe(tr, recipe) /\ Committed = Entry(FALSE)
  BY DEF RInv, OnRecord, n, order
<1>a. /\ n \in Nat /\ n >= 1 /\ idx \in 1 .. n + 1
      /\ tr.group \in Nat /\ tr.stage \in Stages \cup {"cup_holder"}
  BY Context
<1>1. JournalsValid'
  BY <1>0 DEF RInv, JournalsValid, IsJournal, InRecipe, order
<1>2. WorldKnown'
  BY <1>0 DEF RInv, WorldKnown, world, order, n, Describes, CupFor, Accounted, Home, Entry
<1>3. Committed' = Entry(FALSE)'
  BY <1>0 DEF Committed, Entry, order
<1>4. CASE SkipGroup
  <2>1. idx + 1 <= tr.group
    <3>1. tr.group # idx
      <4>1. SUFFICES ASSUME tr.group = idx  PROVE FALSE
        OBVIOUS
      <4>2. tr.stage \in Stages
        BY <1>4, <1>0, <1>a, <4>1 DEF InRecipe, n
      <4>3. Rank[tr.stage] >= Rank[tr.stage] /\ tr.stage # "cup_holder"
        BY <4>2, StageFacts DEF Stages
      <4> QED
        BY <1>4, <4>1, <4>2, <4>3 DEF Needed, ShouldRun
    <3> QED
      BY <1>4, <1>a, <3>1 DEF RInv, OnRecord
  <2>2. TypeOK'
    BY <1>4, <1>0, <1>a DEF RInv, TypeOK, world, order
  <2>3. OnRecord'
    BY <1>4, <1>0, <1>3, <2>1 DEF OnRecord, InRecipe, order
  <2> QED
    BY <1>1, <1>2, <2>2, <2>3 DEF RInv
<1>5. CASE EnterGroup
  <2>1. idx = tr.group /\ tr.stage \in Stages
    <3>1. PICK s \in Stages : ShouldRun(idx, s)
      BY <1>5 DEF Needed
    <3> QED
      BY <1>5, <1>a, <3>1 DEF ShouldRun, RInv, OnRecord
  <2>2. Needed = {s \in Stages : Rank[s] >= Rank[tr.stage]}
    BY <2>1 DEF Needed, ShouldRun, Stages
  <2>3. /\ Rank["move_release"] <= Rank[tr.stage]
        /\ {s \in Needed : Rank[s] >= Rank["move_release"]} = Needed
    BY <2>1, StageFacts DEF Stages, Needed
  <2>4. TypeOK'
    BY <1>5, <1>0, <1>a DEF RInv, TypeOK, world, order, Stages, Needed
  <2>5. OnRecord'
    BY <1>5, <1>0, <1>3, <2>1, <2>2, <2>3 DEF OnRecord, InRecipe, order, Stages
  <2> QED
    BY <1>1, <1>2, <2>4, <2>5 DEF RInv
<1>6. CASE PassStage
  <2>0. /\ idx = tr.group /\ idx <= n /\ at \in Stages /\ at # "regrasp"
        /\ Rank[at] <= Rank[tr.stage] /\ at \notin need
        /\ {s \in need : Rank[s] >= Rank[at]} = {s \in Stages : Rank[s] >= Rank[tr.stage]}
    BY <1>6 DEF RInv, OnRecord
  <2>1. tr.stage \in Stages
    BY <1>0, <1>a, <2>0 DEF InRecipe, n
  <2>2. /\ Follower[at] \in Stages /\ Rank[Follower[at]] = Rank[at] + 1
        /\ \A s \in Stages : Rank[s] \in Nat /\ (Rank[s] = Rank[at] => s = at)
    BY <2>0, StageFacts DEF Stages
  <2>3. Rank[Follower[at]] <= Rank[tr.stage]
    <3>1. Rank[at] # Rank[tr.stage]
      BY <2>0, <2>1, <2>2
    <3> QED
      BY <2>0, <2>1, <2>2, <3>1
  <2>4. {s \in need : Rank[s] >= Rank[Follower[at]]} = {s \in Stages : Rank[s] >= Rank[tr.stage]}
    <3>1. need \in SUBSET Stages
      BY DEF RInv, TypeOK
    <3> QED
      BY <2>0, <2>1, <2>2, <2>3, <3>1
  <2>5. TypeOK'
    BY <1>6, <1>0, <1>a, <2>2 DEF RInv, TypeOK, world, order
  <2>6. OnRecord'
    BY <1>6, <1>0, <1>3, <2>0, <2>1, <2>2, <2>3, <2>4 DEF OnRecord, InRecipe, order
  <2> QED
    BY <1>1, <1>2, <2>5, <2>6 DEF RInv
<1> QED
  BY <1>4, <1>5, <1>6

\* start_stage() and start_cup_holder() put on record where the process is: the
\* position the tracker has already, or the cup holder after the last group.
LEMMA StartPosition ==
    ASSUME RInv, StartStage \/ StartCupHolder
    PROVE  /\ tr' \in Positions /\ InRecipe(tr', recipe) /\ tr'.group = tr.group
           /\ idx = tr'.group /\ at' = tr'.stage /\ (at' \in Stages => idx <= n)
           /\ at' \in Stages => /\ tr' = tr
                                /\ {s \in need : Rank[s] >= Rank[at']}
                                     = {s \in Stages : Rank[s] >= Rank[tr'.stage]}
           /\ at' = "cup_holder" \/ at' \in Stages
<1> USE DEF StartStage, StartCupHolder, Save
<1>a. /\ n \in Nat /\ n >= 1 /\ idx \in 1 .. n + 1 /\ n' = n
      /\ tr.group \in Nat /\ tr.stage \in Stages \cup {"cup_holder"}
      /\ tr = [group |-> tr.group, stage |-> tr.stage]
  BY Context DEF n, order
<1>b. InRecipe(tr, recipe)
  BY DEF RInv, OnRecord
<1>1. CASE StartStage
  <2>1. /\ idx = tr.group /\ idx <= n /\ at \in Stages /\ Rank[at] <= Rank[tr.stage]
        /\ {s \in need : Rank[s] >= Rank[at]} = {s \in Stages : Rank[s] >= Rank[tr.stage]}
    BY <1>1 DEF RInv, OnRecord
  <2>2. tr.stage \in Stages
    BY <1>a, <1>b, <2>1 DEF InRecipe, n
  <2>3. at = tr.stage
    <3>1. Rank[at] >= Rank[at]
      BY <2>1, StageFacts DEF Stages
    <3>2. Rank[at] >= Rank[tr.stage]
      BY <1>1, <2>1, <3>1
    <3> QED
      BY <2>1, <2>2, <3>2, StageFacts DEF Stages
  <2>4. tr' = tr /\ at' = at
    BY <1>1, <1>a, <2>1, <2>3
  <2> QED
    BY <1>a, <1>b, <2>1, <2>2, <2>3, <2>4 DEF RInv, TypeOK
<1>2. CASE StartCupHolder
  <2>1. tr.group = n + 1 /\ idx = n + 1
    BY <1>2, <1>a, <1>b DEF RInv, OnRecord, InRecipe, n
  <2> QED
    BY <1>2, <1>a, <2>1 DEF Positions, InRecipe, n, Stages
<1> QED
  BY <1>1, <1>2

\* The tracker puts the position it is at on record, and the motions begin.
LEMMA StartStep ==
    ASSUME RInv, StartStage \/ StartCupHolder
    PROVE  RInv'
<1> USE DEF StartStage, StartCupHolder, Save
<1>a. /\ n \in Nat /\ n >= 1 /\ idx \in 1 .. n + 1 /\ n' = n
      /\ tr.group \in Nat /\ tr.stage \in Stages \cup {"cup_holder"}
      /\ tr = [group |-> tr.group, stage |-> tr.stage]
  BY Context DEF n, order
<1>b. InRecipe(tr, recipe) /\ pc' = "act" /\ did' = 0 /\ file' = Torn
  BY DEF RInv, OnRecord
<1>0. /\ tr' \in Positions /\ InRecipe(tr', recipe) /\ tr'.group = tr.group
      /\ idx = tr'.group /\ at' = tr'.stage /\ (at' \in Stages => idx <= n)
      /\ at' \in Stages => /\ tr' = tr
                           /\ {s \in need : Rank[s] >= Rank[at']}
                                = {s \in Stages : Rank[s] >= Rank[tr'.stage]}
      /\ at' = "cup_holder" \/ at' \in Stages
  BY StartPosition
<1>1. /\ buf' = Entry(FALSE)' /\ buf' \in Journals
      /\ Committed' = Entry(FALSE)'
  <2>1. buf' = Entry(FALSE)'
    BY DEF Entry, order
  <2>2. buf' \in Journals
    BY <1>0, EntryFacts DEF RInv, TypeOK
  <2> QED
    BY <2>1, <2>2, JournalFacts DEF Committed
<1>2. TypeOK'
  BY <1>a, <1>b, <1>0, <1>1 DEF RInv, TypeOK, world, order
<1>3. JournalsValid'
  BY <1>b, <1>1, JournalFacts DEF RInv, JournalsValid, IsJournal, order
<1>4. OnRecord'
  <2>1. (did <= Effects)'
    <3>1. recipe' = recipe /\ skip' = skip /\ idx' = idx
      BY DEF order
    <3>2. at' = "press" => recipe[idx].count \in Nat
      BY <1>a, <1>0, Context DEF Stages
    <3> QED
      BY <1>b, <1>0, <3>1, <3>2 DEF Effects, Stages
  <2>2. idx' = idx /\ recipe' = recipe /\ need' = need
    BY DEF order
  <2> QED
    <3>1. Committed' = Entry(pc = "end")'
      BY <1>b, <1>1 DEF Entry
    <3>2. InRecipe(tr, recipe)' /\ (at \in Stages => idx <= n)'
      BY <1>a, <1>0, <2>2
    <3> QED
      BY <1>b, <1>0, <2>1, <2>2, <3>1, <3>2 DEF OnRecord
<1>5. WorldKnown'
  <2>1. SUFFICES ASSUME ~astray, skip => n = 1
                 PROVE  /\ cup = CupFor(Entry(FALSE))' /\ spilled = 0
                        /\ \A g \in 1 .. n : poured[g] = Accounted(Entry(FALSE), g)'
    <3>1. own /\ own' = own /\ pc \in {"group", "stage"}
      BY DEF RInv, JournalsValid, order
    <3>2. UNCHANGED <<recipe, skip, astray, cup, poured, spilled>>
      BY DEF order, world
    <3>3. \A g \in 1 .. n : poured[g] + 0 = poured[g]
      BY DEF RInv, TypeOK
    <3>4. cup' = CupFor(Entry(FALSE))' => CupMidStage'
      BY <1>b DEF CupMidStage
    <3> QED
      BY <1>a, <1>b, <2>1, <3>1, <3>2, <3>3, <3>4 DEF WorldKnown
  <2>2. Describes(Entry(FALSE))
    BY <2>1 DEF RInv, JournalsValid, WorldKnown
  <2>3. CASE at' \in Stages
    BY <2>2, <2>3, <1>0 DEF Describes, CupFor, Accounted, Entry, Home, order, n
  <2>4. CASE at' = "cup_holder"
    <3>1. tr'.stage = "cup_holder" /\ tr.group = n + 1 /\ tr'.group = n + 1
          /\ recipe' = recipe
      BY <2>4, <1>a, <1>0 DEF InRecipe, n, Stages, order
    <3>2. CupFor(Entry(FALSE)) = "gripper" /\ CupFor(Entry(FALSE))' = "gripper"
      BY <1>a, <3>1 DEF CupFor, Entry
    <3>3. \A g \in 1 .. n : Accounted(Entry(FALSE), g) = Accounted(Entry(FALSE), g)'
      BY <1>a, <3>1 DEF Accounted, Entry
    <3> QED
      BY <2>2, <3>2, <3>3 DEF Describes
  <2> QED
    BY <1>0, <2>3, <2>4
<1> QED
  BY <1>2, <1>3, <1>4, <1>5 DEF RInv

\* A motion leaves the journal and the position alone.
LEMMA MotionFrame ==
    ASSUME RInv, Motion
    PROVE  /\ pc = "act" /\ buf = None /\ did' = did + 1 /\ n' = n
           /\ UNCHANGED <<file, buf, tr, pc, idx, at, need, recipe, skip, launches, own, astray>>
           /\ idx = tr.group /\ at = tr.stage /\ own /\ InRecipe(tr, recipe)
           /\ at \in Stages \cup {"cup_holder"} /\ did \in Nat /\ did + 1 <= Effects
<1> USE DEF Motion, MoveAndRelease, PressOnce, OpenForRegrasp, Grasp, PlaceCupInHolder,
            Acting, Effect
<1>1. pc = "act" /\ buf = None /\ did' = did + 1
      /\ UNCHANGED <<file, buf, tr, pc, idx, at, need, recipe, skip, launches, own, astray>>
  BY DEF order
<1>2. /\ idx = tr.group /\ at = tr.stage /\ own /\ InRecipe(tr, recipe)
      /\ at \in Stages \cup {"cup_holder"} /\ did \in Nat
  BY <1>1 DEF RInv, TypeOK, OnRecord, JournalsValid
<1>3. at = "press" => recipe[idx].count \in Nat
  BY <1>1, Context DEF Stages
<1>4. did + 1 <= Effects
  BY <1>2, <1>3 DEF Effects
<1> QED
  BY <1>1, <1>2, <1>4 DEF n

LEMMA MotionStep ==
    ASSUME RInv, Motion
    PROVE  RInv'
<1> USE DEF Acting
<1>0. /\ pc = "act" /\ buf = None /\ did' = did + 1 /\ n' = n
      /\ UNCHANGED <<file, buf, tr, pc, idx, at, need, recipe, skip, launches, own, astray>>
      /\ idx = tr.group /\ at = tr.stage /\ own /\ InRecipe(tr, recipe)
      /\ at \in Stages \cup {"cup_holder"} /\ did \in Nat /\ did + 1 <= Effects
  BY MotionFrame
<1>a. /\ n \in Nat /\ n >= 1
      /\ \A g \in 1 .. n : /\ recipe[g].id \in Dispensers /\ recipe[g].count \in Nat
      /\ at \in Stages => idx \in 1 .. n
      /\ at = "cup_holder" => tr.group = n + 1
  BY <1>0, Context
<1>b. at \in Stages => Here \in Dispensers
  BY <1>a DEF Here
<1>1. JournalsValid'
  BY <1>0 DEF RInv, JournalsValid, IsJournal, InRecipe
<1>2. OnRecord'
  <2>1. Effects' = Effects /\ Committed' = Committed /\ Entry(pc = "end")' = Entry(pc = "end")
    BY <1>0 DEF Effects, Committed, Entry
  <2>2. InRecipe(tr, recipe)'
    BY <1>0
  <2> QED
    BY <1>0, <2>1, <2>2 DEF RInv, OnRecord
<1>3. TypeOK'
  <2>1. cup' \in Dispensers \cup {"gripper", "holder", "lost"}
    BY <1>0, <1>b DEF RInv, TypeOK, Motion, MoveAndRelease, PressOnce, OpenForRegrasp,
                      Grasp, PlaceCupInHolder, Stages
  <2>2. poured' \in [1 .. n -> Nat] /\ spilled' \in Nat
    <3>1. poured \in [1 .. n -> Nat] /\ spilled \in Nat
      BY DEF RInv, TypeOK
    <3>2. CASE PressOnce
      <4>1. idx \in 1 .. n
        BY <3>2, <1>a DEF PressOnce, Stages
      <4> QED
        BY <3>1, <3>2, <4>1 DEF PressOnce
    <3>3. CASE ~PressOnce
      BY <3>1, <3>3 DEF Motion, MoveAndRelease, OpenForRegrasp, Grasp, PlaceCupInHolder
    <3> QED
      BY <3>2, <3>3
  <2> QED
    BY <1>0, <2>1, <2>2 DEF RInv, TypeOK
<1>4. WorldKnown'
  <2>1. SUFFICES ASSUME ~astray, skip => n = 1
                 PROVE  /\ CupMidStage' /\ spilled' = 0
                        /\ \A g \in 1 .. n : poured'[g] = Accounted(Entry(FALSE), g)
                             + (IF at = "press" /\ g = idx THEN did + 1 ELSE 0)
    <3>1. \A g \in 1 .. n : Accounted(Entry(FALSE), g)' = Accounted(Entry(FALSE), g)
      BY <1>0 DEF Accounted, Entry
    <3> QED
      BY <1>0, <2>1, <3>1 DEF WorldKnown
  <2>2. /\ CupMidStage /\ spilled = 0
        /\ \A g \in 1 .. n : poured[g] = Accounted(Entry(FALSE), g)
             + (IF at = "press" /\ g = idx THEN did ELSE 0)
    BY <1>0, <2>1 DEF RInv, WorldKnown
  <2>3. CupFor(Entry(FALSE)) = IF tr.group > n THEN "gripper"
                               ELSE IF tr.stage = "move_release" THEN Home(recipe, skip)
                               ELSE recipe[tr.group].id
    BY <1>0, <1>a DEF CupFor, Entry
  <2>4. CupFor(Entry(FALSE))' = CupFor(Entry(FALSE)) /\ Here' = Here
    BY <1>0 DEF CupFor, Entry, Home, Here, n
  <2>5. at \in Stages => /\ ~ (tr.group > n)
                         /\ recipe[tr.group].id = Here /\ Here # "gripper"
    BY <1>0, <1>a, <1>b, PlaceFacts DEF Here
  <2>c. /\ at \in {"press", "regrasp"} => CupFor(Entry(FALSE)) = Here
        /\ at = "cup_holder" => CupFor(Entry(FALSE)) = "gripper"
    <3>1. at \in {"press", "regrasp"} => at \in Stages /\ at # "move_release"
      BY DEF Stages
    <3>2. at = "cup_holder" => tr.group > n
      BY <1>a
    <3> QED
      BY <1>0, <2>3, <2>5, <3>1, <3>2
  <2>6. CASE MoveAndRelease
    <3>1. cup = "gripper" /\ at = "move_release" /\ did = 0
      BY <2>6, <1>0, <2>2, <2>3, <2>5 DEF MoveAndRelease, CupMidStage, Stages, Home
    <3>2. cup' = Here /\ UNCHANGED <<poured, spilled>>
      BY <2>6, <2>5, <3>1 DEF MoveAndRelease, Stages
    <3>3. CupMidStage'
      BY <1>0, <2>4, <3>1, <3>2 DEF CupMidStage
    <3> QED
      BY <2>2, <3>1, <3>2, <3>3
  <2>7. CASE PressOnce
    <3>1. cup = Here /\ at = "press" /\ idx \in 1 .. n
      BY <2>7, <1>0, <1>a, <2>2, <2>3, <2>5 DEF PressOnce, CupMidStage, Stages
    <3>2. cup' = cup /\ spilled' = spilled /\ poured' = [poured EXCEPT ![idx] = @ + 1]
      BY <2>7, <3>1 DEF PressOnce
    <3>3. CupMidStage'
      BY <1>0, <2>2, <2>4, <3>1, <3>2 DEF CupMidStage
    <3>4. ASSUME NEW g \in 1 .. n
          PROVE  poured'[g] = Accounted(Entry(FALSE), g)
                                + (IF at = "press" /\ g = idx THEN did + 1 ELSE 0)
      <4>1. poured \in [1 .. n -> Nat]
        BY DEF RInv, TypeOK
      <4>2. PICK a \in Nat : a = Accounted(Entry(FALSE), g)
        BY <1>a DEF Accounted
      <4>3. poured[g] = a + (IF g = idx THEN did ELSE 0)
        BY <2>2, <3>1, <4>2
      <4>4. poured'[g] = a + (IF g = idx THEN did + 1 ELSE 0)
        <5>1. did \in Nat
          BY <1>0
        <5>2. poured'[g] = IF g = idx THEN poured[g] + 1 ELSE poured[g]
          BY <3>1, <3>2, <4>1
        <5>3. CASE g = idx
          BY <4>3, <5>1, <5>2, <5>3
        <5>4. CASE g # idx
          BY <4>3, <5>2, <5>4
        <5> QED
          BY <5>3, <5>4
      <4> QED
        BY <3>1, <4>2, <4>4
    <3> QED
      BY <2>2, <3>2, <3>3, <3>4
  <2>8. CASE OpenForRegrasp
    <3>1. cup = Here /\ at = "regrasp" /\ did = 0
      BY <2>8, <1>0, <2>2, <2>3, <2>5 DEF OpenForRegrasp, CupMidStage, Stages
    <3>2. cup' = cup /\ UNCHANGED <<poured, spilled>>
      BY <2>8, <3>1, <2>5 DEF OpenForRegrasp, Stages
    <3>3. CupMidStage'
      <4>1. cup' = CupFor(Entry(FALSE))'
        BY <2>4, <2>c, <3>1, <3>2
      <4> QED
        BY <1>0, <3>1, <4>1 DEF CupMidStage
    <3> QED
      BY <2>2, <3>1, <3>2, <3>3
  <2>9. CASE Grasp
    <3>1. cup = Here /\ at = "regrasp" /\ did = 1
      BY <2>9, <1>0, <2>2, <2>3, <2>5 DEF Grasp, CupMidStage, Stages
    <3>2. cup' = "gripper" /\ UNCHANGED <<poured, spilled>>
      BY <2>9, <3>1 DEF Grasp
    <3>3. CupMidStage'
      BY <1>0, <3>1, <3>2 DEF CupMidStage
    <3> QED
      BY <2>2, <3>1, <3>2, <3>3
  <2>10. CASE PlaceCupInHolder
    <3>1. cup = "gripper" /\ at = "cup_holder" /\ did = 0
      BY <2>10, <2>2, <2>c DEF PlaceCupInHolder, CupMidStage
    <3>2. cup' = "holder" /\ UNCHANGED <<poured, spilled>>
      BY <2>10, <3>1 DEF PlaceCupInHolder
    <3>3. CupMidStage'
      BY <1>0, <3>1, <3>2 DEF CupMidStage
    <3> QED
      BY <2>2, <3>1, <3>2, <3>3
  <2> QED
    BY <2>6, <2>7, <2>8, <2>9, <2>10 DEF Motion
<1> QED
  BY <1>1, <1>2, <1>3, <1>4 DEF RInv

\* At the end of a stage the cup has been moved and filled as the stage says.
LEMMA StageDone ==
    ASSUME RInv, pc = "act", buf = None, did = Effects, ~astray, skip => n = 1
    PROVE  /\ spilled = 0
           /\ at = "move_release" => cup = Here
           /\ at = "press"        => cup = Here
           /\ at = "regrasp"      => cup = "gripper"
           /\ at = "cup_holder"   => cup = "holder"
           /\ \A g \in 1 .. n : poured[g] =
                IF g < idx \/ (g = idx /\ at \in {"press", "regrasp"})
                THEN recipe[g].count ELSE 0
<1>a. /\ n \in Nat /\ n >= 1 /\ idx \in 1 .. n + 1 /\ did \in Nat
      /\ \A g \in 1 .. n : recipe[g].id \in Dispensers /\ recipe[g].count \in Nat
      /\ at \in Stages => idx \in 1 .. n
      /\ idx = tr.group /\ at = tr.stage /\ at \in Stages \cup {"cup_holder"}
  BY Context DEF RInv, TypeOK, OnRecord
<1>1. /\ CupMidStage /\ spilled = 0
      /\ \A g \in 1 .. n : poured[g] = Accounted(Entry(FALSE), g)
           + (IF at = "press" /\ g = idx THEN did ELSE 0)
  BY DEF RInv, WorldKnown
<1>2. CupFor(Entry(FALSE)) = IF idx > n THEN "gripper"
                             ELSE IF at = "move_release" THEN Home(recipe, skip)
                             ELSE recipe[idx].id
  BY <1>a DEF CupFor, Entry
<1>3. at = "move_release" => cup = Here
  <2>1. SUFFICES ASSUME at = "move_release"  PROVE cup = Here
    OBVIOUS
  <2>2. CASE skip
    <3>1. did = 0 /\ idx = 1 /\ n = 1
      BY <1>a, <2>1, <2>2 DEF Effects, Stages
    <3>2. cup = CupFor(Entry(FALSE))
      BY <1>1, <3>1 DEF CupMidStage
    <3> QED
      <4>1. ~(idx > n)
        BY <3>1
      <4>2. CupFor(Entry(FALSE)) = recipe[1].id
        BY <1>2, <2>1, <2>2, <4>1 DEF Home
      <4> QED
        BY <3>1, <3>2, <4>2 DEF Here
  <2>3. CASE ~skip
    BY <1>1, <2>1, <2>3 DEF Effects, CupMidStage
  <2> QED
    BY <2>2, <2>3
<1>4. at = "press" => cup = Here
  <2>1. SUFFICES ASSUME at = "press"  PROVE cup = Here
    OBVIOUS
  <2>2. idx \in 1 .. n
    BY <1>a, <2>1 DEF Stages
  <2>3. cup = CupFor(Entry(FALSE))
    BY <1>1, <2>1 DEF CupMidStage
  <2> QED
    <3>1. ~(idx > n)
      BY <1>a, <2>2
    <3> QED
      BY <1>2, <2>1, <2>3, <3>1 DEF Here
<1>5. /\ at = "regrasp"    => did = 2 /\ cup = "gripper"
      /\ at = "cup_holder" => did = 1 /\ cup = "holder"
  BY <1>1 DEF Effects, CupMidStage
<1>6. ASSUME NEW g \in 1 .. n
      PROVE  poured[g] = IF g < idx \/ (g = idx /\ at \in {"press", "regrasp"})
                         THEN recipe[g].count ELSE 0
  <2> DEFINE acc == Accounted(Entry(FALSE), g)
  <2>1. acc = IF g < idx \/ (g = idx /\ at = "regrasp") THEN recipe[g].count ELSE 0
    BY <1>a DEF Accounted, Entry
  <2>2. poured[g] = acc + (IF at = "press" /\ g = idx THEN did ELSE 0)
    BY <1>1
  <2> HIDE DEF acc
  <2>3. recipe[g].count \in Nat /\ acc \in Nat
    BY <1>a, <2>1
  <2>4. CASE at = "press" /\ g = idx
    <3>1. did = recipe[g].count /\ acc = 0
      BY <1>a, <2>1, <2>4 DEF Effects
    <3> QED
      BY <2>2, <2>3, <2>4, <3>1
  <2>5. CASE ~(at = "press" /\ g = idx)
    <3>1. poured[g] = acc
      BY <2>2, <2>3, <2>5
    <3> QED
      BY <2>1, <2>5, <3>1
  <2> QED
    BY <2>4, <2>5
<1> QED
  BY <1>1, <1>3, <1>4, <1>5, <1>6

LEMMA CompleteStep ==
    ASSUME RInv, CompleteStage
    PROVE  RInv'
<1> USE DEF CompleteStage, Save
<1>a. /\ n \in Nat /\ n >= 1 /\ idx \in 1 .. n /\ n' = n
      /\ at \in Stages /\ pc = "act" /\ buf = None /\ did = Effects
      /\ idx = tr.group /\ at = tr.stage /\ own
      /\ UNCHANGED <<recipe, skip, launches, own, astray, cup, poured, spilled, need>>
  BY Context DEF n, order, world, RInv, OnRecord, JournalsValid
<1>0. /\ tr' = AfterStage(idx, at) /\ did' = 0 /\ file' = Torn
      /\ tr' \in Positions /\ InRecipe(tr', recipe)
  BY <1>a, StageFacts DEF AfterStage, Positions, InRecipe, Stages, n
<1>1. /\ buf' = Entry(FALSE)' /\ buf' \in Journals
      /\ Committed' = Entry(FALSE)'
  <2>1. buf' = Entry(FALSE)'
    BY DEF Entry, order
  <2>2. buf' \in Journals
    BY <1>0, EntryFacts DEF RInv, TypeOK
  <2> QED
    BY <2>1, <2>2, JournalFacts DEF Committed
<1>2. CASE at = "regrasp"
  <2>0. /\ pc' = "group" /\ idx' = idx + 1 /\ at' = at
        /\ tr' = [group |-> idx + 1, stage |-> "move_release"]
    BY <1>2, <1>0 DEF AfterStage
  <2>1. TypeOK'
    <3>1. idx' \in 1 .. n' + 1
      BY <1>a, <2>0
    <3> QED
      BY <1>a, <1>0, <1>1, <2>0, <3>1 DEF RInv, TypeOK
  <2>2. JournalsValid'
    BY <1>a, <1>0, <1>1, <2>0, JournalFacts DEF RInv, JournalsValid, IsJournal
  <2>3. OnRecord'
    <3>1. InRecipe(tr, recipe)' /\ idx' <= tr'.group
      BY <1>a, <1>0, <2>0
    <3>2. Committed' = Entry(pc = "end")'
      BY <1>1, <2>0 DEF Entry
    <3> QED
      BY <2>0, <3>1, <3>2 DEF OnRecord
  <2>4. WorldKnown'
    <3>1. SUFFICES ASSUME ~astray, skip => n = 1
                   PROVE  Describes(Entry(FALSE))'
      BY <1>a, <2>0, <3>1 DEF WorldKnown
    <3>2. /\ cup = "gripper" /\ spilled = 0
          /\ \A g \in 1 .. n : poured[g] = IF g <= idx THEN recipe[g].count ELSE 0
      BY <1>2, <1>a, <3>1, StageDone
    <3>3. CupFor(Entry(FALSE))' = "gripper"
      <4>1. /\ tr'.group = idx + 1 /\ tr'.stage = "move_release"
            /\ idx \in Nat /\ n' \in Nat
        BY <1>a, <2>0
      <4>2. idx + 1 > n' \/ ~skip'
        BY <1>a, <3>1
      <4> HIDE DEF CompleteStage, Save
      <4> QED
        BY <4>1, <4>2 DEF CupFor, Entry, Home
    <3>4. ASSUME NEW g \in 1 .. n
          PROVE  Accounted(Entry(FALSE), g)' = IF g <= idx THEN recipe[g].count ELSE 0
      BY <1>a, <2>0 DEF Accounted, Entry
    <3> QED
      BY <1>a, <3>2, <3>3, <3>4 DEF Describes
  <2> QED
    BY <2>1, <2>2, <2>3, <2>4 DEF RInv
<1>3. CASE at # "regrasp"
  <2>0. /\ pc' = "stage" /\ idx' = idx /\ at' = Follower[at]
        /\ tr' = [group |-> idx, stage |-> Follower[at]]
        /\ Follower[at] \in {"press", "regrasp"}
        /\ Rank[Follower[at]] = Rank[at] + 1 /\ Rank[at] \in Nat
        /\ \A s \in Stages : Rank[s] \in Nat
    BY <1>3, <1>a, <1>0, StageFacts DEF AfterStage, Stages
  <2>1. TypeOK'
    BY <1>a, <1>0, <1>1, <2>0 DEF RInv, TypeOK, Stages
  <2>2. JournalsValid'
    BY <1>a, <1>0, <1>1, <2>0, JournalFacts DEF RInv, JournalsValid, IsJournal
  <2>3. OnRecord'
    <3>1. {s \in need : Rank[s] >= Rank[at]} = {s \in Stages : Rank[s] >= Rank[at]}
      BY <1>a DEF RInv, OnRecord
    <3>2. {s \in need : Rank[s] >= Rank[at']} = {s \in Stages : Rank[s] >= Rank[tr'.stage]}
      BY <2>0, <3>1 DEF RInv, TypeOK
    <3>3. InRecipe(tr, recipe)' /\ Rank[at'] <= Rank[tr'.stage]
      BY <1>a, <1>0, <2>0
    <3>4. Committed' = Entry(pc = "end")'
      BY <1>1, <2>0 DEF Entry
    <3> QED
      BY <1>a, <2>0, <3>2, <3>3, <3>4 DEF OnRecord, Stages
  <2>4. WorldKnown'
    <3>1. SUFFICES ASSUME ~astray, skip => n = 1
                   PROVE  Describes(Entry(FALSE))'
      BY <1>a, <2>0, <3>1 DEF WorldKnown
    <3>2. /\ cup = recipe[idx].id /\ spilled = 0
          /\ \A g \in 1 .. n : poured[g] = IF g < idx \/ (g = idx /\ at = "press")
                                           THEN recipe[g].count ELSE 0
      BY <1>3, <1>a, <3>1, StageDone DEF Here, Stages
    <3>e. tr'.group = idx /\ tr'.stage = Follower[at]
      BY <2>0
    <3>3. CupFor(Entry(FALSE))' = recipe[idx].id
      <4>1. /\ idx \in Nat /\ n' \in Nat /\ idx <= n'
            /\ Follower[at] # "move_release" /\ recipe' = recipe
        BY <1>a, <2>0
      <4> HIDE DEF CompleteStage, Save
      <4> QED
        BY <3>e, <4>1 DEF CupFor, Entry
    <3>4. ASSUME NEW g \in 1 .. n
          PROVE  Accounted(Entry(FALSE), g)' =
                   IF g < idx \/ (g = idx /\ at = "press") THEN recipe[g].count ELSE 0
      <4>1. Follower[at] = "regrasp" <=> at = "press"
        BY <1>3, <1>a, StageFacts DEF Stages
      <4>2. recipe' = recipe
        BY <1>a
      <4> HIDE DEF CompleteStage, Save
      <4> QED
        BY <3>e, <4>1, <4>2 DEF Accounted, Entry
    <3> QED
      BY <1>a, <3>2, <3>3, <3>4 DEF Describes
  <2> QED
    BY <2>1, <2>2, <2>3, <2>4 DEF RInv
<1> QED
  BY <1>2, <1>3

LEMMA CompleteAllStep ==
    ASSUME RInv, CompleteAll
    PROVE  RInv'
<1> USE DEF CompleteAll, Save
<1>a. /\ n \in Nat /\ n >= 1 /\ idx = n + 1 /\ tr.group = n + 1 /\ n' = n
      /\ pc = "act" /\ buf = None /\ did = Effects /\ own /\ at = "cup_holder"
      /\ InRecipe(tr, recipe) /\ pc' = "end" /\ did' = 0 /\ file' = Torn
      /\ UNCHANGED <<tr, idx, at, recipe, skip, launches, own, astray, cup, poured,
                     spilled, need>>
  BY Context DEF n, order, world, RInv, OnRecord, JournalsValid
<1>1. /\ buf' = Entry(TRUE)' /\ buf' \in Journals /\ Committed' = Entry(TRUE)'
  <2>1. buf' = Entry(TRUE)'
    BY DEF Entry, order
  <2>2. buf' \in Journals
    BY EntryFacts DEF RInv, TypeOK
  <2> QED
    BY <2>1, <2>2, JournalFacts DEF Committed
<1>2. TypeOK'
  BY <1>a, <1>1 DEF RInv, TypeOK
<1>3. JournalsValid'
  BY <1>a, <1>1, JournalFacts DEF RInv, JournalsValid, IsJournal
<1>4. OnRecord'
  <2>1. InRecipe(tr, recipe)' /\ tr'.group = n' + 1
    BY <1>a
  <2>2. Committed' = Entry(pc = "end")'
    BY <1>a, <1>1 DEF Entry
  <2> QED
    BY <1>a, <2>1, <2>2 DEF OnRecord
<1>5. WorldKnown'
  <2>1. SUFFICES ASSUME ~astray, skip => n = 1
                 PROVE  Describes(Entry(TRUE))'
    BY <1>a, <2>1 DEF WorldKnown
  <2>2. /\ cup = "holder" /\ spilled = 0
        /\ \A g \in 1 .. n : poured[g] = recipe[g].count
    BY <1>a, <2>1, StageDone
  <2>3. CupFor(Entry(TRUE))' = "holder"
    BY DEF CupFor, Entry
  <2>4. ASSUME NEW g \in 1 .. n  PROVE Accounted(Entry(TRUE), g)' = recipe[g].count
    BY <1>a DEF Accounted, Entry
  <2> QED
    BY <1>a, <2>2, <2>3, <2>4 DEF Describes
<1> QED
  BY <1>2, <1>3, <1>4, <1>5 DEF RInv

\* Outside the ways to go astray the journal describes the world, unless a
\* motion has had an effect since it was written.
LEMMA Described ==
    ASSUME RInv, Sound, IsJournal(file), ~Unjournaled
    PROVE  Describes(file)
<1>1. ~astray /\ (skip => n = 1) /\ own
  BY DEF Sound
<1>2. CASE pc = "off"
  BY <1>1, <1>2 DEF RInv, WorldKnown
<1>3. CASE pc = "init"
  <2>1. file = Entry(FALSE)
    BY <1>1, <1>3 DEF RInv, OnRecord, WorldKnown
  <2>2. Describes(Entry(FALSE))
    BY <1>1, <1>3 DEF RInv, WorldKnown
  <2> QED
    BY <2>1, <2>2
<1>4. CASE pc \notin {"off", "init"}
  <2>1. file = Entry(pc = "end")
    <3>1. buf = None
      BY JournalFacts DEF RInv, JournalsValid, IsJournal
    <3> QED
      BY <1>4, <3>1 DEF RInv, OnRecord, Committed
  <2>2. CASE pc = "end"
    <3>1. file = Entry(TRUE)
      BY <2>1, <2>2 DEF Entry
    <3>2. Describes(Entry(TRUE))
      BY <1>1, <2>2 DEF RInv, WorldKnown
    <3> QED
      BY <3>1, <3>2
  <2>3. CASE pc # "end"
    <3>1. file = Entry(FALSE)
      BY <2>1, <2>3 DEF Entry
    <3>2. CASE pc \in {"group", "stage"}
      <4>1. Describes(Entry(FALSE))
        BY <1>1, <3>2 DEF RInv, WorldKnown
      <4> QED
        BY <3>1, <4>1
    <3>3. CASE pc = "act"
      <4>1. did = 0 \/ (at = "regrasp" /\ did = 1)
        BY <3>3 DEF Unjournaled, RInv, TypeOK
      <4>2. /\ CupMidStage /\ spilled = 0
            /\ \A g \in 1 .. n : poured[g] = Accounted(Entry(FALSE), g)
                 + (IF at = "press" /\ g = idx THEN did ELSE 0)
        BY <1>1, <3>3 DEF RInv, WorldKnown
      <4>3. cup = CupFor(Entry(FALSE))
        BY <4>1, <4>2 DEF CupMidStage
      <4>4. ASSUME NEW g \in 1 .. n  PROVE poured[g] = Accounted(Entry(FALSE), g)
        <5> DEFINE acc == Accounted(Entry(FALSE), g)
        <5>1. acc \in Nat
          BY Context DEF Accounted
        <5>2. poured[g] = acc + (IF at = "press" /\ g = idx THEN did ELSE 0)
          BY <4>2
        <5> HIDE DEF acc
        <5>3. poured[g] = acc
          BY <4>1, <5>1, <5>2
        <5> QED
          BY <5>3 DEF acc
      <4>5. Describes(Entry(FALSE))
        BY <4>2, <4>3, <4>4 DEF Describes
      <4> QED
        BY <3>1, <4>5
    <3> QED
      BY <1>4, <2>3, <3>2, <3>3 DEF RInv, TypeOK
  <2> QED
    BY <2>2, <2>3
<1> QED
  BY <1>2, <1>3, <1>4

\* The process is gone, at its end or before: what the journal says, if it says
\* anything, was what the tracker said.
LEMMA GoneStep ==
    ASSUME RInv, End \/ Stop
    PROVE  RInv'
<1> USE DEF End, Stop
<1>0. ~astray' => ~astray /\ ~Unjournaled
  BY DEF Unjournaled
<1>1. /\ Gone /\ pc # "off" /\ n' = n
      /\ buf' = None /\ pc' = "off" /\ idx' = 1 /\ tr' = Beginning
      /\ UNCHANGED <<file, cup, poured, spilled, recipe, skip, own>>
  BY DEF Gone, world, n
<1>2. TypeOK'
  <2>1. tr' \in Positions /\ at' \in Stages \cup {"cup_holder"} /\ idx' \in 1 .. n' + 1
    BY <1>1, Context DEF Gone, Beginning, Positions, Stages
  <2>2. astray' \in BOOLEAN
    BY DEF RInv, TypeOK
  <2> QED
    BY <1>1, <2>1, <2>2 DEF Gone, RInv, TypeOK
<1>3. JournalsValid'
  BY <1>1 DEF RInv, JournalsValid, IsJournal, InRecipe
<1>4. OnRecord'
  BY <1>1 DEF OnRecord
<1>5. WorldKnown'
  <2>1. SUFFICES ASSUME ~astray', (skip => n = 1)'
                 PROVE  /\ ~own' => /\ cup' = Home(recipe, skip)' /\ spilled' = 0
                                    /\ \A g \in 1 .. n' : poured'[g] = 0
                        /\ own' /\ IsJournal(file)' => Describes(file)'
    BY <1>1 DEF WorldKnown
  <2>2. ~astray /\ ~Unjournaled /\ (skip => n = 1)
    BY <1>0, <1>1, <2>1
  <2>3. CASE own
    <3>1. IsJournal(file) => Describes(file)
      BY <2>2, <2>3, Described DEF Sound
    <3>2. IsJournal(file)' = IsJournal(file)
      BY <1>1 DEF IsJournal
    <3>3. Describes(file)' = Describes(file)
      BY <1>1 DEF Describes, CupFor, Accounted, Home, n
    <3> QED
      BY <1>1, <2>3, <3>1, <3>2, <3>3
  <2>4. CASE ~own
    BY <1>1, <2>2, <2>4 DEF RInv, WorldKnown, Home
  <2> QED
    BY <2>3, <2>4
<1> QED
  BY <1>2, <1>3, <1>4, <1>5 DEF RInv
-----------------------------------------------------------------------------
(***************************************************************************)
(* The theorems.                                                           *)
(***************************************************************************)
LEMMA RInvStep == RInv /\ [Next]_vars => RInv'
<1> SUFFICES ASSUME RInv, [Next]_vars PROVE RInv'
  OBVIOUS
<1>1. CASE UNCHANGED vars
  <2>1. /\ UNCHANGED <<file, buf, tr, pc, idx, at, need, did, cup, poured, spilled,
                       recipe, skip, launches, own, astray>>
        /\ n' = n
    BY <1>1 DEF vars, process, world, order, n
  <2>2. TypeOK'
    BY <2>1 DEF RInv, TypeOK
  <2>3. JournalsValid'
    BY <2>1 DEF RInv, JournalsValid, InRecipe, IsJournal
  <2>4. OnRecord'
    BY <2>1 DEF RInv, OnRecord, InRecipe, IsJournal, Committed, Entry, Effects
  <2>5. WorldKnown'
    BY <2>1 DEF RInv, WorldKnown, Home, IsJournal, Describes, Entry, CupFor, Accounted,
                CupMidStage, Here
  <2> QED
    BY <2>2, <2>3, <2>4, <2>5 DEF RInv
<1>2. CASE \E r \in Recipes, k \in BOOLEAN : NewOrder(r, k)
  BY <1>2, NewOrderStep
<1>3. CASE Launch
  BY <1>3, LaunchStep
<1>4. CASE Step
  <2>1. CASE OpenJournal \/ EndWrite
    BY <2>1, OpenJournalStep, EndWriteStep
  <2>2. CASE SkipGroup \/ EnterGroup \/ PassStage
    BY <2>2, LoopStep
  <2>3. CASE StartStage \/ StartCupHolder
    BY <2>3, StartStep
  <2>4. CASE Motion
    BY <2>4, MotionStep
  <2>5. CASE CompleteStage \/ CompleteAll
    BY <2>5, CompleteStep, CompleteAllStep
  <2>6. CASE End
    BY <2>6, GoneStep
  <2> QED
    BY <1>4, <2>1, <2>2, <2>3, <2>4, <2>5, <2>6 DEF Step
<1>5. CASE Stop
  BY <1>5, GoneStep
<1> QED
  BY <1>1, <1>2, <1>3, <1>4, <1>5 DEF Next

\* The inductive invariant holds for every set of recipes, any number of
\* launches, and however the process is stopped.
THEOREM RecipeInvariance == Spec => []RInv
BY InitRInv, RInvStep, PTL DEF Spec

\* Type correctness of the recipe runner, its journal and the cup.
THEOREM RecipeTypeCorrect == Spec => []TypeOK
<1>1. RInv => TypeOK
  BY DEF RInv
<1> QED
  BY RecipeInvariance, <1>1, PTL

\* The journal tells the next process where the cup is.
THEOREM CupIsWhereJournaled == Spec => []JournalTellsCup
<1>1. RInv => JournalTellsCup
  BY Described DEF JournalTellsCup, Describes
<1> QED
  BY RecipeInvariance, <1>1, PTL

\* The journal tells the next process what has been poured.
THEOREM PouredIsJournaled == Spec => []PouredAsJournaled
<1>1. ASSUME RInv  PROVE PouredAsJournaled
  <2>1. SUFFICES ASSUME Sound, IsJournal(file)
        PROVE /\ spilled = 0
              /\ \A g \in 1 .. n : poured[g] = Accounted(file, g)
                   + (IF pc = "act" /\ at = "press" /\ g = idx THEN did ELSE 0)
    BY DEF PouredAsJournaled
  <2>2. CASE pc = "act"
    <3>1. buf = None
      BY <1>1, <2>1, JournalFacts DEF RInv, JournalsValid, IsJournal
    <3>2. file = Entry(pc = "end")
      BY <1>1, <2>2, <3>1 DEF RInv, OnRecord, Committed
    <3>3. file = Entry(FALSE)
      BY <2>2, <3>2 DEF Entry
    <3> QED
      BY <1>1, <2>1, <2>2, <3>3 DEF RInv, WorldKnown, Sound
  <2>3. CASE pc # "act"
    <3>1. Describes(file)
      BY <1>1, <2>1, <2>3, Described DEF Unjournaled
    <3>2. \A g \in 1 .. n : poured[g] \in Nat
      BY <1>1 DEF RInv, TypeOK
    <3> QED
      BY <2>3, <3>1, <3>2 DEF Describes
  <2> QED
    BY <2>2, <2>3
<1>2. RInv => PouredAsJournaled
  BY <1>1
<1> QED
  BY RecipeInvariance, <1>2, PTL

\* A position is not before itself.
LEMMA NotBeforeSelf ==
    ASSUME NEW f, f.group \in Nat
    PROVE  ~Before(f, f)
BY StageFacts DEF Before, Stages

\* The position on record moves on with every step.
LEMMA NeverBackStep ==
    ASSUME RInv, [Next]_vars, own, own', Unfinished(Committed), IsJournal(Committed')
    PROVE  ~Before(Committed', Committed)
<1>1. CASE Committed' = Committed
  <2>1. Committed \in Journals \cup {None, Torn}
    BY DEF RInv, TypeOK, Committed
  <2>2. Committed.group \in Nat
    BY <2>1, JournalFacts DEF Unfinished, Journals
  <2> QED
    BY <1>1, <2>2, NotBeforeSelf
<1>2. Committed' # Committed => OpenJournal \/ StartStage \/ StartCupHolder
                                \/ CompleteStage \/ CompleteAll
  <2>1. CASE UNCHANGED vars
    BY <2>1 DEF vars, process, Committed
  <2>2. CASE \E r \in Recipes, k \in BOOLEAN : NewOrder(r, k)
    BY <2>2 DEF NewOrder
  <2>3. CASE Launch
    BY <2>3 DEF Launch, LaunchFresh, LaunchResume, Committed
  <2>4. CASE EndWrite \/ SkipGroup \/ EnterGroup \/ PassStage
    BY <2>4 DEF EndWrite, SkipGroup, EnterGroup, PassStage, Committed
  <2>5. CASE Motion
    BY <2>5, MotionFrame DEF Committed
  <2>6. CASE End \/ Stop
    <3>1. Committed' = file
      BY <2>6 DEF End, Stop, Gone, Committed
    <3>2. buf = None
      BY <3>1, JournalFacts DEF RInv, JournalsValid, IsJournal
    <3> QED
      BY <3>1, <3>2 DEF Committed
  <2> QED
    BY <2>1, <2>2, <2>3, <2>4, <2>5, <2>6 DEF Next, Step
<1>3. CASE OpenJournal
  <2>1. Committed = file /\ file = Entry(FALSE)
    BY <1>3 DEF OpenJournal, RInv, JournalsValid, OnRecord, Committed, Unfinished
  <2>2. buf' = Entry(FALSE)
    BY <1>3 DEF OpenJournal, Save, Entry
  <2>3. Committed' = Committed
    BY <2>1, <2>2, Context, JournalFacts DEF Committed
  <2> QED
    BY <1>1, <2>3
<1>a. CASE StartStage \/ StartCupHolder \/ CompleteStage \/ CompleteAll
  <2>1. Committed = Entry(FALSE)
    <3>1. pc \in {"stage", "group", "act"}
      BY <1>a DEF StartStage, StartCupHolder, CompleteStage, CompleteAll
    <3>2. Committed = Entry(pc = "end")
      BY <3>1 DEF RInv, OnRecord
    <3> QED
      BY <3>1, <3>2 DEF Entry
  <2>2. Committed.group = tr.group /\ Committed.stage = tr.stage /\ tr.group \in Nat
    BY <2>1, Context DEF Entry
  <2>3. Committed'.group = tr'.group /\ Committed'.stage = tr'.stage
    <3>1. \E c \in BOOLEAN : buf' = [recipe |-> recipe, group |-> tr'.group,
                                     stage |-> tr'.stage, done |-> c]
      BY <1>a DEF StartStage, StartCupHolder, CompleteStage, CompleteAll, Save
    <3>2. buf' # None
      <4>1. TypeOK'
        BY RInvStep DEF RInv
      <4>2. tr' \in Positions /\ recipe \in Recipes
        BY <4>1 DEF RInv, TypeOK
      <4> QED
        BY <3>1, <4>2, EntryFacts, JournalFacts
    <3> QED
      BY <3>1, <3>2 DEF Committed
  <2>4. CASE StartStage \/ StartCupHolder
    <3>1. tr'.group = tr.group /\ (tr'.stage = tr.stage \/ tr'.stage \notin Stages)
      BY <2>4, StartPosition DEF Stages
    <3> QED
      BY <2>2, <2>3, <3>1, StageFacts DEF Before, Stages
  <2>5. CASE CompleteStage
    <3>1. /\ idx = tr.group /\ at = tr.stage /\ at \in Stages
          /\ tr' = AfterStage(idx, at)
      BY <2>5 DEF CompleteStage, RInv, OnRecord
    <3>2. \/ tr'.group = tr.group + 1
          \/ tr'.group = tr.group /\ at # "regrasp" /\ tr'.stage = Follower[at]
      BY <3>1 DEF AfterStage
    <3>3. at # "regrasp" => Rank[Follower[at]] > Rank[at] /\ Rank[at] \in Nat
                            /\ Rank[Follower[at]] \in Nat
      BY <3>1, StageFacts DEF Stages
    <3>4. CASE tr'.group = tr.group + 1
      BY <2>2, <2>3, <3>4 DEF Before
    <3>5. CASE tr'.group = tr.group /\ at # "regrasp" /\ tr'.stage = Follower[at]
      BY <2>2, <2>3, <3>1, <3>3, <3>5 DEF Before
    <3> QED
      BY <3>2, <3>4, <3>5
  <2>6. CASE CompleteAll
    <3>1. tr' = tr
      BY <2>6 DEF CompleteAll
    <3> QED
      BY <2>2, <2>3, <3>1, StageFacts DEF Before, Stages
  <2> QED
    BY <1>a, <2>4, <2>5, <2>6
<1> QED
  BY <1>1, <1>2, <1>3, <1>a

\* No process of an order does again what the journal has on record.
THEOREM RecipeNeverGoesBack == Spec => JournalNeverGoesBack
<1>1. RInv /\ [Next]_vars =>
        [own /\ own' /\ Unfinished(Committed) /\ IsJournal(Committed')
           => ~Before(Committed', Committed)]_vars
  BY NeverBackStep
<1> QED
  BY RecipeInvariance, <1>1, PTL DEF Spec, JournalNeverGoesBack
=============================================================================
