--------------------------- MODULE MCCupPickStage ---------------------------
(* A small instance of CupPickStage.                                       *)
EXTENDS CupPickStage
=============================================================================
