---------------------------- MODULE MCWorkspace ----------------------------
(* Instances of module Workspace for TLC. *)
EXTENDS Workspace, TLC

CONSTANTS a1, a2, r1, p1, p2, p3, t1, i1, i2, u1, u2, pw, pv

MCAuthRequest == {a1, a2}
MCRequest == {r1}
MCProjectRequest == {p1, p2, p3}
MCTenantId == {t1}
MCProjectId == {i1, i2}
MCUser == {u1, u2}
MCSlug == {"acme", "ACME"}
MCLower == [s \in MCSlug |-> "acme"]
MCAddress == {"ann", "Ann", "bob"}
MCLowerAddress == [e \in MCAddress |-> IF e = "Ann" THEN "ann" ELSE e]
MCPassword == {pw, pv}
MCKey == {"core", "CORE"}
MCUpper == [k \in MCKey |-> "CORE"]

(* Nobody yet, or two users, who have signed up. *)
MCFirstUsers ==
  {{}, {[id |-> u1, email |-> "ann", password |-> pw],
        [id |-> u2, email |-> "bob", password |-> pw]}}

MCForms ==
  {[op |-> "signup", email |-> "Ann", password |-> pw, slug |-> None],
   [op |-> "login", email |-> "Ann", password |-> pw, slug |-> None],
   [op |-> "login", email |-> "ann", password |-> pw, slug |-> "acme"],
   [op |-> "login", email |-> "bob", password |-> pw, slug |-> "acme"]}
  \cup {[op |-> "login", email |-> "ann", password |-> pv, slug |-> None]}

MCCalls ==
  {[op |-> "create", user |-> u, tenant |-> None, slug |-> "ACME", member |-> None,
    role |-> None] : u \in MCUser}

MCWants ==
  {[op |-> "create", key |-> k, id |-> None] : k \in MCKey}
  \cup {[op |-> o, key |-> None, id |-> i1] : o \in {"get", "delete"}}
  \cup {[op |-> "list", key |-> None, id |-> None]}

(* Bound: once something was asked of projects-service, only it goes on.   *)
(* It shares nothing with the others but tokens, which do not change.      *)
MCProjectsLast ==
  (\E p \in ProjectRequest : progress[p] # "new") =>
    /\ \A a \in AuthRequest : stage[a] \notin AuthInFlight
    /\ \A r \in Request : pc[r] \notin InFlight

MCSymmetry == Permutations(MCAuthRequest) \cup Permutations(MCProjectRequest)
=============================================================================
