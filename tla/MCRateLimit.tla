---------------------------- MODULE MCRateLimit ----------------------------
(* Instances of module RateLimit for TLC. *)
EXTENDS RateLimit, TLC

CONSTANTS r1, r2, r3, c1, c2, t1

MCRequest == {r1, r2, r3}
MCClient == {c1, c2}
MCTenant == {t1}

Ask(c, token, via) == [client |-> c, token |-> token, tenant |-> t1, via |-> via]

(* Two users of one tenant, and one of them also without tenant and before *)
(* the login.                                                              *)
MCCalls ==
  {Ask(c, "tenant", "gateway") : c \in MCClient}
  \cup {Ask(c1, token, "gateway") : token \in {"user", "anonymous"}}

MCSymmetry == Permutations(MCRequest)
=============================================================================
