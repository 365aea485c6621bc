------------------------ MODULE MCVoicePipelineExecutor ------------------------
(* Instances of VoicePipelineExecutor for TLC.                             *)
EXTENDS VoicePipelineExecutor
=============================================================================
