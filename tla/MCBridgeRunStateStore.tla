------------------------ MODULE MCBridgeRunStateStore ------------------------
(* The model-checked instances of BridgeRunStateStore.                     *)
EXTENDS BridgeRunStateStore, TLC

(* Identifiers and contents are compared for equality only.                *)
Symmetry ==
  UNION {Permutations(S) : S \in {Users, Sessions, RunIds, RequestIds, Bodies}}
==============================================================================
