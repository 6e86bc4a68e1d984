------------------------------ MODULE MCSystem ------------------------------
(* Instances of module System for TLC. *)
EXTENDS System, TLC

CONSTANTS r1, r2, i1, i2, t1, t2, v0, v1, c1

MCRequest == {r1, r2}
MCIssueId == {i1, i2}
MCTenant == {t1, t2}
MCField == {"title"}
MCValue == {v0, v1}
MCReplica == {c1}

MCData == "title" :> v0

MCTables == {i1 :> [id |-> i1, tenant |-> t1, data |-> MCData]}

Ask(op, t, i, body) == [op |-> op, tenant |-> t, id |-> i, body |-> body]

(* The writing calls, of both tenants: on the issue there is, and on one   *)
(* that the other request creates.                                         *)
MCCalls ==
  {Ask("create", t2, None, MCData),
   Ask("update", t2, i2, "title" :> v1),
   Ask("update", t1, i1, "title" :> v1)}
  \cup {Ask("delete", t, i1, <<>>) : t \in MCTenant}
=============================================================================
