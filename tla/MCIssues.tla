------------------------------ MODULE MCIssues ------------------------------
(* Instances of module Issues for TLC. *)
EXTENDS Issues, TLC

CONSTANTS r1, r2, r3, i1, i2, t1, t2, v0, v1, v2

MCRequest == {r1, r2, r3}
MCIssueId == {i1, i2}
MCTenant == {t1, t2}
MCField == {"title", "assignee"}
MCRequired == {"title"}
MCTold == {"title"}
MCValue == {v0, v1, v2}

MCData == ("title" :> v0) @@ ("assignee" :> v0)

MCTables == {i1 :> [id |-> i1, tenant |-> t1, data |-> MCData]}

Ask(op, t, i, body) == [op |-> op, tenant |-> t, id |-> i, body |-> body]

(* One tenant's clients working on the one issue there is. *)
MCRaceCalls ==
  {Ask("get", t1, i1, <<>>),
   Ask("delete", t1, i1, <<>>),
   Ask("update", t1, i1, "title" :> v1),
   Ask("update", t1, i1, "assignee" :> None),
   Ask("update", t1, i1, ("title" :> v0) @@ ("assignee" :> v1))}

(* Two tenants, a token without tenant, and every kind of call. *)
MCTenantCalls ==
  {Ask("list", t, None, <<>>) : t \in MCTenant}
  \cup {Ask("list", t1, None, "title" :> v1)}
  \cup {Ask("create", t, None, MCData) : t \in MCTenant}
  \cup {Ask("get", t, i1, <<>>) : t \in MCTenant \cup {None}}
  \cup {Ask("delete", t, i, <<>>) : t \in MCTenant, i \in MCIssueId}
  \cup {Ask("update", t2, i, "title" :> v1) : i \in MCIssueId}
  \cup {Ask("update", t1, i, "title" :> None) : i \in MCIssueId}

MCCalls == MCRaceCalls \cup MCTenantCalls

MCSymmetry == Permutations(MCRequest)
=============================================================================
