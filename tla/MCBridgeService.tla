--------------------------- MODULE MCBridgeService ---------------------------
(* The model-checked instance of BridgeService.                            *)
EXTENDS BridgeService, TLC

CONSTANTS o1, o2, s1, s2, r1, r2

Here  == [owner |-> o1, session |-> s1]
There == [owner |-> o1, session |-> s2]
Other == [owner |-> o2, session |-> s1]

(* The second submission competes with the first, goes to another session, *)
(* wants the same session for another owner, or asks about the first.      *)
MCClicks ==
  {[run |-> r1, kind |-> Write, scope |-> Here, about |-> 1],
   [run |-> r2, kind |-> Write, scope |-> Here, about |-> 1],
   [run |-> r2, kind |-> Write, scope |-> There, about |-> 1],
   [run |-> r2, kind |-> Write, scope |-> Other, about |-> 1],
   [run |-> r2, kind |-> Explain, scope |-> Here, about |-> r1]}

MCGrants == {{Write}, {Explain}}

Symmetry == Permutations(TokenIds)
==============================================================================
