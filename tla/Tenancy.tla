------------------------------ MODULE Tenancy ------------------------------
(***************************************************************************)
(* tenant-service: the handlers of services/tenant/app/routes.py on the    *)
(* tables tenants and memberships, run concurrently, one transaction each. *)
(*                                                                         *)
(* create_tenant flushes its tenant, which the unique index on slug makes  *)
(* every other INSERT of that slug wait for, and commits it together with  *)
(* the owner's membership.  No handler changes or deletes a row.  The      *)
(* slug of a new tenant is lower-cased (schemas.py); the slug in a lookup, *)
(* which auth-service makes during login, is compared as it was typed.     *)
(***************************************************************************)
EXTENDS Naturals, FiniteSets

CONSTANTS
  Request,    \* HTTP requests, each handled once
  TenantId,   \* the UUIDs that may be drawn
  User,
  Slug,       \* slugs as they are typed
  Lower,      \* Lower[s] is s in lower case
  None,
  Calls,      \* the calls clients and auth-service make
  MaxFaults   \* bound: database failures and crashes

Role == {"owner", "admin", "member"}

Op == {"create", "list", "read", "add", "lookup"}

Call == [op : Op, user : User, tenant : TenantId \cup {None}, slug : Slug \cup {None},
         member : User \cup {None}, role : Role \cup {None}]

(* The rows of the tables, each with the request that inserted it, which   *)
(* is history: no handler can read it.                                     *)
Membership == [tenant : TenantId, user : User, role : Role, by : Request]

Tenant == [id : TenantId, slug : Slug, by : Request]

ASSUME TenancyAssumption ==
  /\ None \notin TenantId \cup User \cup Slug \cup Role \cup Tenant
  /\ Lower \in [Slug -> Slug]
  /\ \A s \in Slug : Lower[Lower[s]] = Lower[s]
  /\ Calls \subseteq Call
  /\ \A q \in Calls :
       /\ q.op \in {"create", "lookup"} => q.slug \in Slug
       /\ q.op \in {"read", "add"} => q.tenant \in TenantId
       /\ q.op = "add" => q.member \in User /\ q.role \in Role
  /\ MaxFaults \in Nat

VARIABLES
  tenants,   \* the table
  members,   \* the table memberships
  flushed,   \* the tenant each request has inserted and not committed
  pc,        \* progress of each request
  call,      \* what it asks
  answer,    \* the status code and the memberships it lets the caller see
  faults,
  before     \* (history) the requests answered before this one was sent

tenancyVars == <<tenants, members, flushed, pc, call, answer, faults, before>>

InFlight == {"sent", "flushed", "allowed", "committed"}

TenancyTypeOK ==
  /\ tenants \subseteq Tenant
  /\ members \subseteq Membership
  /\ flushed \in [Request -> Tenant \cup {None}]
  /\ pc \in [Request -> {"new", "answered", "lost"} \cup InFlight]
  /\ call \in [Request -> Calls \cup {None}]
  /\ answer \in [Request -> [code : {0, 200, 201, 403, 404, 409, 500}, shown : SUBSET Membership]]
  /\ faults \in 0 .. MaxFaults
  /\ before \in [Request -> SUBSET Request]
  /\ \A r \in Request : flushed[r] # None <=> pc[r] = "flushed"

TenancyInit ==
  /\ tenants = {}
  /\ members = {}
  /\ flushed = [r \in Request |-> None]
  /\ pc = [r \in Request |-> "new"]
  /\ call = [r \in Request |-> None]
  /\ answer = [r \in Request |-> [code |-> 0, shown |-> {}]]
  /\ faults = 0
  /\ before = [r \in Request |-> {}]

-----------------------------------------------------------------------------
(* Helpers. *)

Step(r, from, to) == pc[r] = from /\ pc' = [pc EXCEPT ![r] = to]

Respond(r, from, code, shown) ==
  /\ Step(r, from, "answered")
  /\ answer' = [answer EXCEPT ![r] = [code |-> code, shown |-> shown]]

OfAnyone(r) == members   \* mutant: the filter on the user is forgotten

Mine(r) == {m \in members : m.user = call[r].user}

OfTenant(r) == {m \in members : m.tenant = call[r].tenant}

(* The ids drawn so far. *)
Drawn == {t.id : t \in tenants \cup ({flushed[r] : r \in Request} \ {None})}

-----------------------------------------------------------------------------
SendCall(r, q) ==
  /\ Step(r, "new", "sent")
  /\ call' = [call EXCEPT ![r] = q]
  /\ before' = [before EXCEPT ![r] = {p \in Request : pc[p] = "answered"}]
  /\ UNCHANGED <<tenants, members, flushed, answer, faults>>

Send(r) == \E q \in Calls : SendCall(r, q)

(* create_tenant: the flush waits while another transaction has inserted   *)
(* the slug, and raises IntegrityError if the slug is taken.               *)
SlugAsTyped(r) == call[r].slug   \* mutant: no lower-casing

SlugOf(r) == Lower[call[r].slug]

FlushTenant(r) ==
  /\ pc[r] = "sent"
  /\ call[r].op = "create"
  /\ \A q \in Request : flushed[q] # None => flushed[q].slug # SlugOf(r)
  /\ IF \E t \in tenants : t.slug = SlugOf(r)
       THEN /\ Respond(r, "sent", 409, {})
            /\ UNCHANGED flushed
       ELSE /\ Step(r, "sent", "flushed")
            /\ \E i \in TenantId \ Drawn :
                 flushed' = [flushed EXCEPT ![r] = [id |-> i, slug |-> SlugOf(r), by |-> r]]
            /\ UNCHANGED answer
  /\ UNCHANGED <<tenants, members, call, faults, before>>

(* The commit makes the tenant and its owner visible at once. *)
OwnerLater(r) ==   \* mutant: the owner is added in a transaction of its own
  \/ /\ pc[r] = "flushed"
     /\ tenants' = tenants \cup {flushed[r]}
     /\ flushed' = [flushed EXCEPT ![r] = None]
     /\ Step(r, "flushed", "allowed")
     /\ UNCHANGED <<members, call, answer, faults, before>>
  \/ /\ pc[r] = "allowed" /\ call[r].op = "create"
     /\ members' = members \cup
          {[tenant |-> t.id, user |-> call[r].user, role |-> "owner", by |-> r] :
             t \in {u \in tenants : u.by = r}}
     /\ Step(r, "allowed", "committed")
     /\ UNCHANGED <<tenants, flushed, call, answer, faults, before>>

CommitBoth(r) ==
  /\ tenants' = tenants \cup {flushed[r]}
  /\ members' = members \cup
       {[tenant |-> flushed[r].id, user |-> call[r].user, role |-> "owner", by |-> r]}

CommitTenant(r) ==
  /\ Step(r, "flushed", "committed")
  /\ CommitBoth(r)
  /\ flushed' = [flushed EXCEPT ![r] = None]
  /\ UNCHANGED <<call, answer, faults, before>>

(* _require_tenant_role, with the roles add_member and the readers allow. *)
AnyRole(r) == Role   \* mutant: a member may do what an admin may

Allowed(r) == IF call[r].op = "add" THEN {"owner", "admin"} ELSE Role

RequireTenantRole(r) ==
  LET own == Mine(r) \cap OfTenant(r)
  IN  /\ pc[r] = "sent"
      /\ call[r].op \in {"read", "add"}
      /\ \/ own = {} /\ Respond(r, "sent", 404, {})
         \/ /\ own # {}
            /\ \A m \in own : m.role \notin Allowed(r)
            /\ Respond(r, "sent", 403, {})
         \/ /\ \E m \in own : m.role \in Allowed(r)
            /\ Step(r, "sent", "allowed")
            /\ UNCHANGED answer
      /\ UNCHANGED <<tenants, members, flushed, call, faults, before>>

(* get_tenant and list_members. *)
ReadTenant(r) ==
  /\ pc[r] = "allowed"
  /\ call[r].op = "read"
  /\ Respond(r, "allowed", 200, OfTenant(r))
  /\ UNCHANGED <<tenants, members, flushed, call, faults, before>>

AlreadyMember(r) == \E m \in OfTenant(r) : m.user = call[r].member

InsertMember(r) ==
  members' = members \cup
    {[tenant |-> call[r].tenant, user |-> call[r].member, role |-> call[r].role, by |-> r]}

(* add_member: the commit, or IntegrityError on (tenant_id, user_id). *)
Upsert(r) ==   \* mutant: ON CONFLICT DO UPDATE SET role
  /\ pc[r] = "allowed"
  /\ call[r].op = "add"
  /\ Step(r, "allowed", "committed")
  /\ members' =
       {m \in members : m.tenant # call[r].tenant \/ m.user # call[r].member}
       \cup {[tenant |-> call[r].tenant, user |-> call[r].member, role |-> call[r].role,
              by |-> r]}
  /\ UNCHANGED <<tenants, flushed, call, answer, faults, before>>

AddMember(r) ==
  /\ pc[r] = "allowed"
  /\ call[r].op = "add"
  /\ IF AlreadyMember(r)
       THEN Respond(r, "allowed", 409, {}) /\ UNCHANGED members
       ELSE Step(r, "allowed", "committed") /\ InsertMember(r) /\ UNCHANGED answer
  /\ UNCHANGED <<tenants, flushed, call, faults, before>>

(* The refresh of what was committed, and the answer 201. *)
Finish(r) ==
  /\ Respond(r, "committed", 201, {})
  /\ UNCHANGED <<tenants, members, flushed, call, faults, before>>

ListMyTenants(r) ==
  /\ pc[r] = "sent"
  /\ call[r].op = "list"
  /\ Respond(r, "sent", 200, Mine(r))
  /\ UNCHANGED <<tenants, members, flushed, call, faults, before>>

(* The join of lookup_membership. *)
MembershipsOfAnyone(u, s) ==   \* mutant: the filter on the user is forgotten
  {m \in members : \E t \in tenants : t.id = m.tenant /\ t.slug = s}

MembershipsOf(u, s) ==
  {m \in members : m.user = u /\ \E t \in tenants : t.id = m.tenant /\ t.slug = s}

LookupMembership(r) ==
  LET found == MembershipsOf(call[r].user, call[r].slug)
  IN  /\ pc[r] = "sent"
      /\ call[r].op = "lookup"
      /\ Respond(r, "sent", IF found = {} THEN 404 ELSE 200, found)
      /\ UNCHANGED <<tenants, members, flushed, call, faults, before>>

-----------------------------------------------------------------------------
(* Failures. *)

(* get_db closes the session, which rolls the transaction back. *)
KeepOpen(r) == flushed' = flushed   \* mutant: the session is never closed

RollBack(r) == flushed' = [flushed EXCEPT ![r] = None]

AnyErrorIsConflict(r) ==   \* mutant: the lost reply to a COMMIT is answered 409
  /\ faults < MaxFaults
  /\ \E from \in {"flushed", "allowed"} : Respond(r, from, 409, {})
  /\ faults' = faults + 1
  /\ RollBack(r)
  /\ \/ pc[r] = "flushed" /\ CommitBoth(r)
     \/ /\ pc[r] = "allowed" /\ call[r].op = "add" /\ ~ AlreadyMember(r)
        /\ InsertMember(r) /\ UNCHANGED tenants
  /\ UNCHANGED <<call, before>>

(* A statement or the commit raises an OperationalError; when the reply to *)
(* the COMMIT is what was lost, the database has committed all the same.   *)
DatabaseFails(r) ==
  /\ faults < MaxFaults
  /\ \E from \in InFlight : Respond(r, from, 500, {})
  /\ faults' = faults + 1
  /\ RollBack(r)
  /\ \/ UNCHANGED <<tenants, members>>
     \/ pc[r] = "flushed" /\ CommitBoth(r)
     \/ /\ pc[r] = "allowed" /\ call[r].op = "add" /\ ~ AlreadyMember(r)
        /\ InsertMember(r) /\ UNCHANGED tenants
  /\ UNCHANGED <<call, before>>

(* The process dies with every request it was handling; PostgreSQL rolls   *)
(* their transactions back.                                                *)
Crash ==
  /\ faults < MaxFaults
  /\ \E r \in Request : pc[r] \in InFlight
  /\ pc' = [r \in Request |-> IF pc[r] \in InFlight THEN "lost" ELSE pc[r]]
  /\ flushed' = [r \in Request |-> None]
  /\ faults' = faults + 1
  /\ UNCHANGED <<tenants, members, call, answer, before>>

HandlerStep(r) ==
  \/ FlushTenant(r) \/ CommitTenant(r) \/ RequireTenantRole(r) \/ ReadTenant(r)
  \/ AddMember(r) \/ Finish(r) \/ ListMyTenants(r) \/ LookupMembership(r)

TenancyNext ==
  \/ \E r \in Request : Send(r) \/ HandlerStep(r) \/ DatabaseFails(r)
  \/ Crash

TenancySpec == TenancyInit /\ [][TenancyNext]_tenancyVars

(* Each request has a thread of its own, and its statements return. *)
FairTenancySpec == TenancySpec /\ \A r \in Request : WF_tenancyVars(HandlerStep(r))

-----------------------------------------------------------------------------
(* A tenant nobody owns could never be entered by anyone: even after a     *)
(* crash between the flush and the commit, every tenant there is has its   *)
(* creator as owner, and no slug has two tenants.                          *)
EveryTenantIsOwned ==
  \A t \in tenants :
    /\ [tenant |-> t.id, user |-> call[t.by].user, role |-> "owner", by |-> t.by] \in members
    /\ \A u \in tenants : u.slug = t.slug => u = t

(* Membership is granted by an owner or admin of that tenant, or by        *)
(* creating it, and neither withdrawn nor changed: a second addition of a  *)
(* user, however it races the first, does not overwrite the role.          *)
MembershipIsGranted ==
  [][ /\ members \subseteq members'
      /\ \A m \in members' \ members :
           /\ \A n \in members : n.tenant = m.tenant => n.user # m.user
           /\ LET r == m.by
              IN  /\ pc[r] \in {"flushed", "allowed"} /\ pc'[r] # pc[r]
                  /\ \/ m.role = "owner" /\ m.user = call[r].user /\ flushed[r].id = m.tenant
                     \/ /\ call[r].op = "add" /\ call[r].tenant = m.tenant
                        /\ call[r].member = m.user /\ call[r].role = m.role
                        /\ \E n \in Mine(r) : n.tenant = m.tenant /\ n.role # "member"
    ]_tenancyVars

(* Whose answer is 409 lost to another request: the slug or the membership *)
(* exists, and was not put there by the refused request itself.            *)
ConflictIsReal ==
  \A r \in Request : answer[r].code = 409 =>
    \/ call[r].op = "create" /\ \E t \in tenants : t.slug = SlugOf(r) /\ t.by # r
    \/ call[r].op = "add" /\ \E m \in OfTenant(r) : m.user = call[r].member /\ m.by # r

(* Whoever has been told 201 for a tenant can log in to it: every later    *)
(* lookup by the slug the answer showed (the lower-cased one) finds the    *)
(* creator's membership, as owner, whoever else tried to take the slug.    *)
CreatorFindsTenant ==
  \A c, l \in Request :
    /\ c \in before[l]
    /\ call[c].op = "create" /\ answer[c].code = 201
    /\ call[l].op = "lookup" /\ call[l].user = call[c].user
    /\ call[l].slug = Lower[call[c].slug]
    /\ answer[l].code \notin {0, 500}
    => \E m \in answer[l].shown :
         m.role = "owner" /\ \E t \in tenants : t.id = m.tenant /\ t.by = c

(* An answer names only tenants the caller is a member of, whatever was    *)
(* added between the role check and the query.                             *)
OutsidersSeeNothing ==
  \A r \in Request : \A m \in answer[r].shown :
    \E n \in members : n.tenant = m.tenant /\ n.user = call[r].user

(* No request waits forever, not even for a slug another transaction has   *)
(* inserted: transactions end, or are rolled back with their request.      *)
EveryRequestEnds == \A r \in Request : pc[r] = "sent" ~> pc[r] \in {"answered", "lost"}
=============================================================================
