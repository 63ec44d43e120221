---------------------------- MODULE MCReconfig ----------------------------
(***************************************************************************)
(* A small instance of Reconfig for TLC.                                   *)
(***************************************************************************)
EXTENDS Reconfig, TLC

CONSTANTS a1, a2, a3, p1, p2, r1, nobody

ThreeAcceptors == {a1, a2, a3}
TwoProposers == {p1, p2}

Symmetry == Permutations(Proposers) \cup Permutations(Acceptors)
=============================================================================
