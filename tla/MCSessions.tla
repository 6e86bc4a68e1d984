----------------------------- MODULE MCSessions -----------------------------
(* Instances of module Sessions for TLC. *)
EXTENDS Sessions, TLC

CONSTANTS r1, r2, r3, k1, k2, u1

MCRequest == {r1, r2, r3}
MCFewRequests == {r1, r2}
MCToken == {k1, k2}
MCOneToken == {k1}
MCUser == {u1}

MCSymmetry == Permutations(MCRequest) \cup Permutations(MCToken)
=============================================================================
