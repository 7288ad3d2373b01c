---------------------------- MODULE MCSessionCache ----------------------------
(* Values for checking SessionCache with TLC. *)
EXTENDS SessionCache, TLC

CONSTANTS r1, r2

TwoRequests == {r1, r2}
OneEndpoint == {"marketMap"}
MixedEndpoints == {"upDownTicker", "topHotIndustry"}

Symmetry == Permutations(Requests)
=============================================================================
