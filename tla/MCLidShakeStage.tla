--------------------------- MODULE MCLidShakeStage ---------------------------
EXTENDS LidShakeStage

\* The parameters of run_kang_lid_grip_close_direct.sh; others of the node.
Direct == [j6 |-> TRUE, refine |-> TRUE, goOn |-> TRUE, twist |-> "force"]
Plain == [j6 |-> FALSE, refine |-> TRUE, goOn |-> FALSE, twist |-> "steps"]
Bare == [j6 |-> FALSE, refine |-> FALSE, goOn |-> FALSE, twist |-> "none"]

MCConfigs == {Direct, Plain, Bare}
=============================================================================
