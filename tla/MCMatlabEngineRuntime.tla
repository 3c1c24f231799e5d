----------------------- MODULE MCMatlabEngineRuntime -----------------------
(* The model-checked instance of MatlabEngineRuntime.                      *)
EXTENDS MatlabEngineRuntime
=============================================================================
