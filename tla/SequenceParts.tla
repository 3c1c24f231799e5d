---------------------------- MODULE SequenceParts ----------------------------
(***************************************************************************)
(* What is left of a sequence when some of its places are dropped.         *)
(***************************************************************************)
EXTENDS Naturals, Sequences, SequencesExt

IsSequence(s) == s \in Seq(ToSet(s))

Picked(s, places) ==
  FlattenSeq([i \in DOMAIN s |-> IF i \in places THEN <<s[i]>> ELSE <<>>])
==============================================================================
