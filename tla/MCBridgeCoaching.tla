-------------------------- MODULE MCBridgeCoaching --------------------------
(* The model-checked instance of BridgeCoaching.                           *)
EXTENDS BridgeCoaching
==============================================================================
