----------------------------- MODULE MCTenancy -----------------------------
(* Instances of module Tenancy for TLC. *)
EXTENDS Tenancy

CONSTANTS r1, r2, r3, t1, t2, u1, u2, u3

MCRequest == {r1, r2, r3}
MCTenantId == {t1, t2}
MCUser == {u1, u2, u3}
MCSlug == {"acme", "ACME"}
MCLower == [s \in MCSlug |-> "acme"]

Ask(op, u) ==
  [op |-> op, user |-> u, tenant |-> None, slug |-> None, member |-> None, role |-> None]

(* u1 and u2 want one slug; u1 adds u2 in two roles, and u2 adds u3. *)
MCCalls ==
  {[Ask("create", u1) EXCEPT !.slug = "ACME"], [Ask("create", u2) EXCEPT !.slug = "acme"],
   [Ask("lookup", u1) EXCEPT !.slug = "acme"], Ask("list", u1),
   [Ask("read", u2) EXCEPT !.tenant = t1],
   [Ask("add", u2) EXCEPT !.tenant = t1, !.member = u3, !.role = "owner"]}
  \cup {[Ask("add", u1) EXCEPT !.tenant = t1, !.member = u2, !.role = p] : p \in {"admin", "member"}}
=============================================================================
