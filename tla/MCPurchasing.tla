---------------------------- MODULE MCPurchasing ----------------------------
(***************************************************************************)
(* Instances of Purchasing for TLC.                                        *)
(***************************************************************************)
EXTENDS Purchasing, TLC

CONSTANTS k1, k2, a1, a2, c1

OneKey == {k1}
TwoKeys == {k1, k2}
OneRun == {a1}
TwoRuns == {a1, a2}
OneClient == {c1}
NoClients == {}

\* The two runs are interchangeable.
RunSymmetry == Permutations(TwoRuns)
=============================================================================
