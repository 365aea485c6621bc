---------------------------- MODULE StageJournal ----------------------------
(***************************************************************************)
(* What the file of the flow promises to whoever reads it after a crash:   *)
(* a journal of one run, which opens empty, grows by one stage at a time   *)
(* in the order of the flow, and may be lost, but only as a whole.  It is  *)
(* never rolled back and never skips a stage.                              *)
(***************************************************************************)
EXTENDS Integers

CONSTANTS NumStages, RunIds, None

VARIABLES run,   \* the run the journal is about; None if there is no journal
          done   \* the stages it lists as completed

Init == run = None /\ done = {}

Open(r) == r # run /\ run' = r /\ done' = {}

Advance(s) ==
    /\ run # None
    /\ s \notin done
    /\ 1 .. (s - 1) \subseteq done
    /\ done' = done \cup {s}
    /\ run' = run

Lose == run # None /\ run' = None /\ done' = {}

Next == Lose \/ (\E r \in RunIds : Open(r)) \/ (\E s \in 1 .. NumStages : Advance(s))

Spec == Init /\ [][Next]_<<run, done>>
=============================================================================
