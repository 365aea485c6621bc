-------------------------- MODULE MCDispenserRecipe --------------------------
(* Small instances of DispenserRecipe: one group, two groups one of which  *)
(* is pressed twice, and a recipe that returns to its first dispenser.     *)
EXTENDS DispenserRecipe

Shot(d, c) == [id |-> d, count |-> c]

MCRecipes == {<<Shot("d1", 1)>>,
              <<Shot("d1", 2), Shot("d2", 1)>>,
              <<Shot("d2", 1), Shot("d1", 1), Shot("d2", 2)>>}
=============================================================================
