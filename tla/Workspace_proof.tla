--------------------------- MODULE Workspace_proof ---------------------------
(***************************************************************************)
(* auth-, tenant- and projects-service, for any number of requests, users, *)
(* tenants, projects and faults: what each says is true, and nobody acts   *)
(* in a tenant whose member he is not. The first part is about tenant-     *)
(* service alone.                                                          *)
(***************************************************************************)
EXTENDS Workspace, TLAPS

-----------------------------------------------------------------------------
(***************************************************************************)
(* Every tenant has its owner and a slug of its own, a membership is       *)
(* granted only by those who may, and never changed, and conflicts are     *)
(* real.                                                                   *)
(***************************************************************************)

(* A request that has been sent carries one of the calls. *)
SentHasCall == \A r \in Request : pc[r] # "new" => call[r] \in Calls

(* What an open transaction has inserted: a tenant of its own request,     *)
(* with an id and a slug no other transaction and no tenant has.           *)
FlushedIsFresh ==
  \A r \in Request : pc[r] = "flushed" =>
    /\ flushed[r].by = r
    /\ \A q \in Request : pc[q] = "flushed" /\ q # r =>
         flushed[q].id # flushed[r].id /\ flushed[q].slug # flushed[r].slug
    /\ \A t \in tenants : t.id # flushed[r].id /\ t.slug # flushed[r].slug

CreatorWasSent == \A t \in tenants : pc[t.by] # "new"

MembersHaveTenants == \A m \in members : \E t \in tenants : t.id = m.tenant

(* The role check still holds when its request comes to act on it. *)
CheckStillHolds ==
  \A r \in Request : pc[r] = "allowed" =>
    /\ call[r].op \in {"read", "add"}
    /\ \E m \in Mine(r) \cap OfTenant(r) : m.role \in Allowed(r)

TenancyInv ==
  /\ TenancyTypeOK
  /\ SentHasCall
  /\ FlushedIsFresh
  /\ CreatorWasSent
  /\ MembersHaveTenants
  /\ CheckStillHolds
  /\ EveryTenantIsOwned

(* The invariant of tenant-service holds for its empty tables.             *)
THEOREM TenancyInvInit ==
  ASSUME TenancyInit
  PROVE  TenancyInv
<1>. USE DEF TenancyInit
<1>1. TenancyTypeOK
  BY TenancyAssumption DEF TenancyTypeOK
<1>2. SentHasCall /\ FlushedIsFresh /\ CheckStillHolds
  BY DEF SentHasCall, FlushedIsFresh, CheckStillHolds
<1>3. CreatorWasSent /\ MembersHaveTenants /\ EveryTenantIsOwned
  BY DEF CreatorWasSent, MembersHaveTenants, EveryTenantIsOwned
<1>. QED
  BY <1>1, <1>2, <1>3 DEF TenancyInv

-----------------------------------------------------------------------------
(* Types. *)

(* What the calls that change something name. *)
LEMMA CallTypes ==
  ASSUME TenancyInv, NEW r \in Request, pc[r] # "new"
  PROVE  /\ call[r] \in Calls
         /\ call[r].user \in User
         /\ call[r].op = "create" => SlugOf(r) \in Slug
         /\ call[r].op = "add" =>
              call[r].tenant \in TenantId /\ call[r].member \in User /\ call[r].role \in Role
<1>1. call[r] \in Calls /\ call[r] \in Call
  BY TenancyAssumption DEF TenancyInv, SentHasCall
<1>2. call[r].user \in User
  BY <1>1 DEF Call
<1>3. call[r].op = "create" => call[r].slug \in Slug
  BY <1>1, TenancyAssumption
<1>4. call[r].op = "add" =>
        call[r].tenant \in TenantId /\ call[r].member \in User /\ call[r].role \in Role
  BY <1>1, TenancyAssumption
<1>. QED
  BY <1>1, <1>2, <1>3, <1>4, TenancyAssumption DEF SlugOf

(* The rows a handler inserts are rows of the tables. *)
LEMMA InsertTypes ==
  ASSUME TenancyInv, NEW r \in Request
  PROVE  /\ pc[r] = "flushed" /\ CommitBoth(r) =>
              tenants' \subseteq Tenant /\ members' \subseteq Membership
         /\ pc[r] = "allowed" /\ call[r].op = "add" /\ InsertMember(r) =>
              members' \subseteq Membership
<1>1. pc[r] # "new" => call[r].user \in User
  BY CallTypes
<1>2. ASSUME pc[r] = "flushed", CommitBoth(r)
      PROVE  tenants' \subseteq Tenant /\ members' \subseteq Membership
  <2>1. flushed[r] \in Tenant /\ flushed[r].id \in TenantId
    BY <1>2 DEF TenancyInv, TenancyTypeOK, Tenant
  <2>2. [tenant |-> flushed[r].id, user |-> call[r].user, role |-> "owner", by |-> r] \in Membership
    BY <1>1, <1>2, <2>1 DEF Membership, Role
  <2>. QED
    BY <1>2, <2>1, <2>2 DEF CommitBoth, TenancyInv, TenancyTypeOK
<1>3. ASSUME pc[r] = "allowed", call[r].op = "add", InsertMember(r)
      PROVE  members' \subseteq Membership
  <2>1. [tenant |-> call[r].tenant, user |-> call[r].member, role |-> call[r].role,
                      by |-> r] \in Membership
    BY <1>3, CallTypes DEF Membership
  <2>. QED
    BY <1>3, <2>1 DEF InsertMember, TenancyInv, TenancyTypeOK
<1>. QED
  BY <1>2, <1>3

(* An answer of a request without an open transaction, or whose            *)
(* transaction the answer rolls back, keeps the types.                     *)
LEMMA RespondTypes ==
  ASSUME TenancyInv, NEW r \in Request, NEW from \in InFlight,
         NEW code \in {0, 200, 201, 403, 404, 409, 500}, NEW shown \in SUBSET Membership,
         Respond(r, from, code, shown),
         (UNCHANGED flushed /\ from # "flushed") \/ RollBack(r),
         tenants' \subseteq Tenant, members' \subseteq Membership,
         UNCHANGED <<call, before>>, faults' \in 0 .. MaxFaults
  PROVE  TenancyTypeOK'
<1>. USE DEF TenancyInv, TenancyTypeOK
<1>1. pc' = [pc EXCEPT ![r] = "answered"] /\ pc[r] = from
  BY DEF Respond, Step
<1>2. pc' \in [Request -> {"new", "answered", "lost"} \cup InFlight]
  BY <1>1 DEF InFlight
<1>3. answer' \in [Request -> [code : {0, 200, 201, 403, 404, 409, 500}, shown : SUBSET Membership]]
  BY DEF Respond
<1>4. flushed' = [flushed EXCEPT ![r] = None] \/ (UNCHANGED flushed /\ from # "flushed")
  BY DEF RollBack
<1>5. flushed' \in [Request -> Tenant \cup {None}]
  BY <1>4
<1>6. \A q \in Request : flushed'[q] # None <=> pc'[q] = "flushed"
  BY <1>1, <1>4 DEF InFlight
<1>. QED
  BY <1>2, <1>3, <1>5, <1>6

(* What a request may be shown are rows of the table. *)
LEMMA ShownTypes ==
  ASSUME TenancyInv, NEW r \in Request
  PROVE  Mine(r) \in SUBSET Membership /\ OfTenant(r) \in SUBSET Membership
BY DEF TenancyInv, TenancyTypeOK, Mine, OfTenant

(* Every step keeps the types.                                             *)
THEOREM TenancyTypeKept ==
  ASSUME TenancyInv, TenancyNext
  PROVE  TenancyTypeOK'
<1>0. 0 \in 0 .. MaxFaults /\ faults' \in 0 .. MaxFaults /\ {} \in SUBSET Membership
  <2>1. faults' = faults \/ (faults < MaxFaults /\ faults' = faults + 1)
    <3>1. ASSUME NEW r \in Request, HandlerStep(r) PROVE faults' = faults
      BY <3>1 DEF HandlerStep, FlushTenant, CommitTenant, RequireTenantRole, ReadTenant,
         AddMember, Finish, ListMyTenants, LookupMembership
    <3>2. ASSUME NEW r \in Request, Send(r) PROVE faults' = faults
      BY <3>2 DEF Send, SendCall
    <3>3. ASSUME NEW r \in Request, DatabaseFails(r)
          PROVE  faults < MaxFaults /\ faults' = faults + 1
      BY <3>3 DEF DatabaseFails
    <3>4. ASSUME Crash PROVE faults < MaxFaults /\ faults' = faults + 1
      BY <3>4 DEF Crash
    <3>. QED
      BY <3>1, <3>2, <3>3, <3>4 DEF TenancyNext
  <2>. QED
    BY <2>1, TenancyAssumption DEF TenancyInv, TenancyTypeOK
<1>. tenants \subseteq Tenant /\ members \subseteq Membership
  BY DEF TenancyInv, TenancyTypeOK
<1>1. ASSUME NEW r \in Request, Send(r) PROVE TenancyTypeOK'
  <2>. USE DEF TenancyInv, TenancyTypeOK
  <2>1. pc' = [pc EXCEPT ![r] = "sent"] /\ pc[r] = "new"
    BY <1>1 DEF Send, SendCall, Step
  <2>2. call' \in [Request -> Calls \cup {None}] /\ before' \in [Request -> SUBSET Request]
    BY <1>1 DEF Send, SendCall
  <2>. QED
    BY <1>1, <2>1, <2>2 DEF Send, SendCall, InFlight
<1>2. ASSUME NEW r \in Request, FlushTenant(r) PROVE TenancyTypeOK'
  <2>1. CASE \E t \in tenants : t.slug = SlugOf(r)
    <3>1. Respond(r, "sent", 409, {}) /\ UNCHANGED <<tenants, members, flushed, call, before>>
      BY <1>2, <2>1 DEF FlushTenant
    <3>. QED
      BY <1>0, <3>1, RespondTypes DEF InFlight
  <2>2. CASE ~ \E t \in tenants : t.slug = SlugOf(r)
    <3>. USE DEF TenancyInv, TenancyTypeOK
    <3>1. PICK i \in TenantId \ Drawn :
            flushed' = [flushed EXCEPT ![r] = [id |-> i, slug |-> SlugOf(r), by |-> r]]
      BY <1>2, <2>2 DEF FlushTenant
    <3>2. [id |-> i, slug |-> SlugOf(r), by |-> r] \in Tenant
      BY <1>2, CallTypes DEF FlushTenant, Tenant
    <3>3. pc' = [pc EXCEPT ![r] = "flushed"]
      BY <1>2, <2>2 DEF FlushTenant, Step
    <3>4. \A q \in Request : flushed'[q] # None <=> pc'[q] = "flushed"
      BY <3>1, <3>2, <3>3, TenancyAssumption
    <3>. QED
      BY <1>2, <2>2, <3>1, <3>2, <3>3, <3>4 DEF FlushTenant, InFlight
  <2>. QED
    BY <2>1, <2>2
<1>3. ASSUME NEW r \in Request, CommitTenant(r) PROVE TenancyTypeOK'
  <2>. USE DEF TenancyInv, TenancyTypeOK
  <2>1. pc' = [pc EXCEPT ![r] = "committed"] /\ flushed' = [flushed EXCEPT ![r] = None]
        /\ pc[r] = "flushed"
    BY <1>3 DEF CommitTenant, Step
  <2>2. tenants' \subseteq Tenant /\ members' \subseteq Membership
    BY <1>3, <2>1, InsertTypes DEF CommitTenant
  <2>. QED
    BY <1>3, <2>1, <2>2 DEF CommitTenant, InFlight
<1>4. ASSUME NEW r \in Request, RequireTenantRole(r) PROVE TenancyTypeOK'
  <2>1. CASE \E code \in {403, 404} : Respond(r, "sent", code, {})
    <3>1. UNCHANGED <<tenants, members, flushed, call, before>>
      BY <1>4 DEF RequireTenantRole
    <3>2. CASE Respond(r, "sent", 403, {})
      BY <1>0, <3>1, <3>2, RespondTypes DEF InFlight
    <3>3. CASE Respond(r, "sent", 404, {})
      BY <1>0, <3>1, <3>3, RespondTypes DEF InFlight
    <3>. QED
      BY <2>1, <3>2, <3>3
  <2>2. CASE Step(r, "sent", "allowed") /\ UNCHANGED answer
    BY <1>4, <2>2 DEF RequireTenantRole, Step, InFlight, TenancyInv, TenancyTypeOK
  <2>. QED
    BY <1>4, <2>1, <2>2 DEF RequireTenantRole
<1>5. ASSUME NEW r \in Request, ReadTenant(r) PROVE TenancyTypeOK'
  BY <1>0, <1>5, ShownTypes, RespondTypes DEF ReadTenant, InFlight
<1>6. ASSUME NEW r \in Request, AddMember(r) PROVE TenancyTypeOK'
  <2>1. CASE AlreadyMember(r)
    <3>1. Respond(r, "allowed", 409, {}) /\ UNCHANGED <<tenants, members, flushed, call, before>>
      BY <1>6, <2>1 DEF AddMember
    <3>. QED
      BY <1>0, <3>1, RespondTypes DEF InFlight
  <2>2. CASE ~ AlreadyMember(r)
    <3>. USE DEF TenancyInv, TenancyTypeOK
    <3>1. members' \subseteq Membership
      BY <1>6, <2>2, InsertTypes DEF AddMember
    <3>. QED
      BY <1>6, <2>2, <3>1 DEF AddMember, Step, InFlight
  <2>. QED
    BY <2>1, <2>2
<1>7. ASSUME NEW r \in Request, Finish(r) PROVE TenancyTypeOK'
  BY <1>0, <1>7, RespondTypes DEF Finish, InFlight
<1>8. ASSUME NEW r \in Request, ListMyTenants(r) PROVE TenancyTypeOK'
  BY <1>0, <1>8, ShownTypes, RespondTypes DEF ListMyTenants, InFlight
<1>9. ASSUME NEW r \in Request, LookupMembership(r) PROVE TenancyTypeOK'
  <2>1. PICK found \in SUBSET Membership :
          Respond(r, "sent", IF found = {} THEN 404 ELSE 200, found)
    <3>. DEFINE f == MembershipsOf(call[r].user, call[r].slug)
    <3>1. f \in SUBSET Membership
      BY <1>0 DEF MembershipsOf, TenancyInv, TenancyTypeOK
    <3>2. Respond(r, "sent", IF f = {} THEN 404 ELSE 200, f)
      BY <1>9 DEF LookupMembership
    <3>. QED
      BY <3>1, <3>2
  <2>2. \E code \in {200, 404} : Respond(r, "sent", code, found)
    BY <2>1
  <2>. QED
    <3>1. UNCHANGED <<tenants, members, flushed, call, before>>
      BY <1>9 DEF LookupMembership
    <3>2. CASE Respond(r, "sent", 200, found)
      BY <1>0, <3>1, <3>2, RespondTypes DEF InFlight
    <3>3. CASE Respond(r, "sent", 404, found)
      BY <1>0, <3>1, <3>3, RespondTypes DEF InFlight
    <3>. QED
      BY <2>2, <3>2, <3>3
<1>10. ASSUME NEW r \in Request, DatabaseFails(r) PROVE TenancyTypeOK'
  <2>1. PICK from \in InFlight : Respond(r, from, 500, {}) /\ RollBack(r)
    BY <1>10 DEF DatabaseFails
  <2>2. tenants' \subseteq Tenant /\ members' \subseteq Membership
    BY <1>10, InsertTypes DEF DatabaseFails, TenancyInv, TenancyTypeOK
  <2>. QED
    BY <1>0, <1>10, <2>1, <2>2, RespondTypes DEF DatabaseFails
<1>11. ASSUME Crash PROVE TenancyTypeOK'
  <2>. USE DEF TenancyInv, TenancyTypeOK
  <2>1. pc' \in [Request -> {"new", "answered", "lost"} \cup InFlight]
    BY <1>11 DEF Crash
  <2>2. \A q \in Request : flushed'[q] # None <=> pc'[q] = "flushed"
    BY <1>11 DEF Crash, InFlight
  <2>. QED
    BY <1>0, <1>11, <2>1, <2>2 DEF Crash
<1>. QED
  BY <1>1, <1>2, <1>3, <1>4, <1>5, <1>6, <1>7, <1>8, <1>9, <1>10, <1>11
  DEF TenancyNext, HandlerStep

-----------------------------------------------------------------------------
(* The rest of the invariant, by what a step does to the tables. *)

(* The requests in S leave: they were being handled and have committed, been *)
(* answered or been lost; no other request moves.                          *)
Leave(S) ==
  /\ call' = call
  /\ \A q \in Request :
       IF q \in S THEN pc[q] \in InFlight /\ pc'[q] \in {"committed", "answered", "lost"}
                  ELSE pc'[q] = pc[q] /\ flushed'[q] = flushed[q]

LEMMA LeaveQuietly ==
  ASSUME TenancyInv, TenancyTypeOK', NEW S, Leave(S), UNCHANGED <<tenants, members>>
  PROVE  TenancyInv'
<1>. USE DEF Leave, TenancyInv, InFlight
<1>1. SentHasCall' /\ CreatorWasSent' /\ MembersHaveTenants' /\ CheckStillHolds'
  <2>1. SentHasCall'
    BY DEF SentHasCall
  <2>2. CreatorWasSent'
    <3>1. \A t \in tenants : t.by \in Request /\ pc[t.by] # "new"
      BY DEF CreatorWasSent, TenancyTypeOK, Tenant
    <3>2. \A q \in Request : pc[q] # "new" => pc'[q] # "new"
      OBVIOUS
    <3>. QED
      BY <3>1, <3>2 DEF CreatorWasSent
  <2>3. MembersHaveTenants'
    BY DEF MembersHaveTenants
  <2>4. CheckStillHolds'
    BY DEF CheckStillHolds, Mine, OfTenant, Allowed
  <2>. QED
    BY <2>1, <2>2, <2>3, <2>4
<1>2. FlushedIsFresh'
  BY DEF FlushedIsFresh
<1>3. EveryTenantIsOwned'
  BY DEF EveryTenantIsOwned
<1>. QED
  BY <1>1, <1>2, <1>3

(* The commit of a new tenant and its owner. *)
LEMMA LeaveCommitting ==
  ASSUME TenancyInv, TenancyTypeOK', NEW r \in Request, Leave({r}),
         pc[r] = "flushed", CommitBoth(r)
  PROVE  TenancyInv'
<1>. USE DEF Leave, TenancyInv, InFlight
<1>. DEFINE own == [tenant |-> flushed[r].id, user |-> call[r].user, role |-> "owner", by |-> r]
<1>1. tenants' = tenants \cup {flushed[r]} /\ members' = members \cup {own}
  BY DEF CommitBoth
<1>2. /\ flushed[r].by = r
      /\ \A t \in tenants : t.id # flushed[r].id /\ t.slug # flushed[r].slug
  BY DEF FlushedIsFresh
<1>3. SentHasCall'
  BY DEF SentHasCall
<1>4. CreatorWasSent'
  <2>1. \A t \in tenants : t.by \in Request /\ pc[t.by] # "new"
    BY DEF CreatorWasSent, TenancyTypeOK, Tenant
  <2>2. \A q \in Request : pc[q] # "new" => pc'[q] # "new"
    OBVIOUS
  <2>. QED
    BY <1>1, <1>2, <2>1, <2>2 DEF CreatorWasSent
<1>5. MembersHaveTenants'
  BY <1>1 DEF MembersHaveTenants
<1>6. CheckStillHolds'
  BY <1>1 DEF CheckStillHolds, Mine, OfTenant, Allowed
<1>7. FlushedIsFresh'
  BY <1>1 DEF FlushedIsFresh
<1>8. EveryTenantIsOwned'
  BY <1>1, <1>2 DEF EveryTenantIsOwned
<1>. QED
  BY <1>3, <1>4, <1>5, <1>6, <1>7, <1>8

(* The commit of a membership by a request that was allowed to add it.     *)
LEMMA LeaveInserting ==
  ASSUME TenancyInv, TenancyTypeOK', NEW r \in Request, Leave({r}),
         pc[r] = "allowed", InsertMember(r), UNCHANGED tenants
  PROVE  TenancyInv'
<1>. USE DEF Leave, TenancyInv, InFlight
<1>. DEFINE new == [tenant |-> call[r].tenant, user |-> call[r].member, role |-> call[r].role,
                      by |-> r]
<1>1. members' = members \cup {new}
  BY DEF InsertMember
<1>2. \E t \in tenants : t.id = new.tenant
  <2>1. PICK m \in Mine(r) \cap OfTenant(r) : m.role \in Allowed(r)
    BY DEF CheckStillHolds
  <2>. QED
    BY <2>1 DEF OfTenant, MembersHaveTenants
<1>3. SentHasCall'
  BY DEF SentHasCall
<1>4. CreatorWasSent'
  <2>1. \A t \in tenants : t.by \in Request /\ pc[t.by] # "new"
    BY DEF CreatorWasSent, TenancyTypeOK, Tenant
  <2>2. \A q \in Request : pc[q] # "new" => pc'[q] # "new"
    OBVIOUS
  <2>. QED
    BY <2>1, <2>2 DEF CreatorWasSent
<1>5. MembersHaveTenants'
  BY <1>1, <1>2 DEF MembersHaveTenants
<1>6. CheckStillHolds'
  BY <1>1 DEF CheckStillHolds, Mine, OfTenant, Allowed
<1>7. FlushedIsFresh'
  BY DEF FlushedIsFresh
<1>8. EveryTenantIsOwned'
  BY <1>1 DEF EveryTenantIsOwned
<1>. QED
  BY <1>3, <1>4, <1>5, <1>6, <1>7, <1>8

-----------------------------------------------------------------------------
(* A handler's answer without an insert is a quiet leave. *)
LEMMA AnswerKeepsInv ==
  ASSUME TenancyInv, TenancyTypeOK', NEW r \in Request, NEW from \in InFlight,
         NEW code, NEW shown, Respond(r, from, code, shown),
         UNCHANGED flushed \/ RollBack(r), UNCHANGED <<tenants, members, call>>
  PROVE  TenancyInv'
<1>1. Leave({r})
  BY DEF Respond, Step, RollBack, Leave, TenancyInv, TenancyTypeOK
<1>. QED
  BY <1>1, LeaveQuietly

(* Every step of a handler, every failure and every crash of tenant-       *)
(* service keeps the invariant.                                            *)
THEOREM TenancyInvKept ==
  ASSUME TenancyInv, TenancyNext
  PROVE  TenancyInv'
<1>0. TenancyTypeOK'
  BY TenancyTypeKept
<1>1. ASSUME NEW r \in Request, Send(r) PROVE TenancyInv'
  <2>. USE <1>0, <1>1 DEF TenancyInv
  <2>1. pc[r] = "new" /\ pc' = [pc EXCEPT ![r] = "sent"]
        /\ \A q \in Request : q # r => call'[q] = call[q]
    BY DEF Send, SendCall, Step, TenancyTypeOK
  <2>2. SentHasCall'
    <3>1. call'[r] \in Calls
      BY DEF Send, SendCall, TenancyTypeOK
    <3>. QED
      BY <2>1, <3>1 DEF SentHasCall, TenancyTypeOK
  <2>3. FlushedIsFresh' /\ MembersHaveTenants'
    BY <2>1 DEF Send, SendCall, FlushedIsFresh, MembersHaveTenants, TenancyTypeOK
  <2>4. CreatorWasSent' /\ EveryTenantIsOwned'
    <3>1. \A t \in tenants : t.by \in Request /\ t.by # r
      BY <2>1 DEF CreatorWasSent, TenancyTypeOK, Tenant
    <3>2. CreatorWasSent'
      BY <2>1, <3>1 DEF Send, SendCall, CreatorWasSent, TenancyTypeOK
    <3>3. EveryTenantIsOwned'
      BY <2>1, <3>1 DEF Send, SendCall, EveryTenantIsOwned
    <3>. QED
      BY <3>2, <3>3
  <2>5. CheckStillHolds'
    BY <2>1 DEF Send, SendCall, CheckStillHolds, Mine, OfTenant, Allowed, TenancyTypeOK
  <2>. QED
    BY <2>2, <2>3, <2>4, <2>5
<1>2. ASSUME NEW r \in Request, FlushTenant(r) PROVE TenancyInv'
  <2>1. CASE \E t \in tenants : t.slug = SlugOf(r)
    <3>1. Respond(r, "sent", 409, {}) /\ UNCHANGED <<tenants, members, flushed, call>>
      BY <1>2, <2>1 DEF FlushTenant
    <3>. QED
      BY <1>0, <3>1, AnswerKeepsInv DEF InFlight
  <2>2. CASE ~ \E t \in tenants : t.slug = SlugOf(r)
    <3>. USE DEF TenancyInv
    <3>1. PICK i \in TenantId \ Drawn :
            flushed' = [flushed EXCEPT ![r] = [id |-> i, slug |-> SlugOf(r), by |-> r]]
      BY <1>2, <2>2 DEF FlushTenant
    <3>2. /\ pc[r] = "sent" /\ pc' = [pc EXCEPT ![r] = "flushed"]
          /\ UNCHANGED <<tenants, members, call>>
          /\ \A q \in Request : flushed[q] # None => flushed[q].slug # SlugOf(r)
      BY <1>2, <2>2 DEF FlushTenant, Step
    <3>3. /\ \A t \in tenants : t.id # i
          /\ \A q \in Request : flushed[q] # None => flushed[q].id # i
      BY <3>1 DEF Drawn
    <3>4. FlushedIsFresh'
      <4>1. flushed'[r] = [id |-> i, slug |-> SlugOf(r), by |-> r] /\ pc'[r] = "flushed"
        BY <3>1, <3>2 DEF TenancyTypeOK
      <4>2. \A q \in Request : q # r => flushed'[q] = flushed[q] /\ pc'[q] = pc[q]
        BY <3>1, <3>2 DEF TenancyTypeOK
      <4>3. \A q \in Request : pc[q] = "flushed" =>
              flushed[q].slug # SlugOf(r) /\ flushed[q].id # i
        BY <3>2, <3>3 DEF TenancyTypeOK
      <4>. QED
        BY <2>2, <3>2, <3>3, <4>1, <4>2, <4>3 DEF FlushedIsFresh
    <3>5. SentHasCall' /\ MembersHaveTenants'
      BY <3>2 DEF SentHasCall, MembersHaveTenants, TenancyTypeOK
    <3>7. CreatorWasSent'
      <4>1. \A t \in tenants : t.by \in Request /\ pc[t.by] # "new"
        BY DEF CreatorWasSent, TenancyTypeOK, Tenant
      <4>. QED
        BY <3>2, <4>1 DEF CreatorWasSent, TenancyTypeOK
    <3>6. CheckStillHolds' /\ EveryTenantIsOwned'
      BY <3>2 DEF CheckStillHolds, EveryTenantIsOwned, Mine, OfTenant, Allowed, TenancyTypeOK
    <3>. QED
      BY <1>0, <3>4, <3>5, <3>6, <3>7
  <2>. QED
    BY <2>1, <2>2
<1>3. ASSUME NEW r \in Request, CommitTenant(r) PROVE TenancyInv'
  <2>1. Leave({r}) /\ pc[r] = "flushed" /\ CommitBoth(r)
    BY <1>3 DEF CommitTenant, Step, Leave, TenancyInv, TenancyTypeOK, InFlight
  <2>. QED
    BY <1>0, <2>1, LeaveCommitting
<1>4. ASSUME NEW r \in Request, RequireTenantRole(r) PROVE TenancyInv'
  <2>1. UNCHANGED <<tenants, members, flushed, call>>
    BY <1>4 DEF RequireTenantRole
  <2>2. CASE Respond(r, "sent", 403, {})
    BY <1>0, <2>1, <2>2, AnswerKeepsInv DEF InFlight
  <2>3. CASE Respond(r, "sent", 404, {})
    BY <1>0, <2>1, <2>3, AnswerKeepsInv DEF InFlight
  <2>4. CASE /\ Step(r, "sent", "allowed")
             /\ call[r].op \in {"read", "add"}
             /\ \E m \in Mine(r) \cap OfTenant(r) : m.role \in Allowed(r)
    <3>. USE DEF TenancyInv
    <3>1. pc[r] = "sent" /\ pc' = [pc EXCEPT ![r] = "allowed"]
      BY <2>4 DEF Step
    <3>2. SentHasCall' /\ MembersHaveTenants'
      BY <2>1, <3>1 DEF SentHasCall, MembersHaveTenants, TenancyTypeOK
    <3>5. CreatorWasSent'
      <4>1. \A t \in tenants : t.by \in Request /\ pc[t.by] # "new"
        BY DEF CreatorWasSent, TenancyTypeOK, Tenant
      <4>. QED
        BY <2>1, <3>1, <4>1 DEF CreatorWasSent, TenancyTypeOK
    <3>3. FlushedIsFresh' /\ EveryTenantIsOwned'
      BY <2>1, <3>1 DEF FlushedIsFresh, EveryTenantIsOwned, TenancyTypeOK
    <3>4. CheckStillHolds'
      BY <2>1, <2>4, <3>1 DEF CheckStillHolds, Mine, OfTenant, Allowed, TenancyTypeOK
    <3>. QED
      BY <1>0, <3>2, <3>3, <3>4, <3>5
  <2>. QED
    BY <1>4, <2>2, <2>3, <2>4 DEF RequireTenantRole
<1>5. ASSUME NEW r \in Request, ReadTenant(r) PROVE TenancyInv'
  BY <1>0, <1>5, AnswerKeepsInv DEF ReadTenant, InFlight
<1>6. ASSUME NEW r \in Request, AddMember(r) PROVE TenancyInv'
  <2>1. CASE AlreadyMember(r)
    BY <1>0, <1>6, <2>1, AnswerKeepsInv DEF AddMember, InFlight
  <2>2. CASE ~ AlreadyMember(r)
    <3>1. Leave({r})
      BY <1>6, <2>2 DEF AddMember, Step, Leave, TenancyInv, TenancyTypeOK, InFlight
    <3>. QED
      BY <1>0, <1>6, <2>2, <3>1, LeaveInserting DEF AddMember
  <2>. QED
    BY <2>1, <2>2
<1>7. ASSUME NEW r \in Request, Finish(r) PROVE TenancyInv'
  BY <1>0, <1>7, AnswerKeepsInv DEF Finish, InFlight
<1>8. ASSUME NEW r \in Request, ListMyTenants(r) PROVE TenancyInv'
  BY <1>0, <1>8, AnswerKeepsInv DEF ListMyTenants, InFlight
<1>9. ASSUME NEW r \in Request, LookupMembership(r) PROVE TenancyInv'
  BY <1>0, <1>9, AnswerKeepsInv DEF LookupMembership, InFlight
<1>10. ASSUME NEW r \in Request, DatabaseFails(r) PROVE TenancyInv'
  <2>1. Leave({r})
    BY <1>10 DEF DatabaseFails, Respond, Step, RollBack, Leave, TenancyInv, TenancyTypeOK
  <2>. QED
    BY <1>0, <1>10, <2>1, LeaveQuietly, LeaveCommitting, LeaveInserting DEF DatabaseFails
<1>11. ASSUME Crash PROVE TenancyInv'
  <2>1. Leave({q \in Request : pc[q] \in InFlight})
    BY <1>11 DEF Crash, Leave, TenancyInv, TenancyTypeOK, InFlight
  <2>. QED
    BY <1>0, <1>11, <2>1, LeaveQuietly DEF Crash
<1>. QED
  BY <1>1, <1>2, <1>3, <1>4, <1>5, <1>6, <1>7, <1>8, <1>9, <1>10, <1>11
  DEF TenancyNext, HandlerStep

(* Open inserts are fresh, tenants have their owners and role checks still *)
(* hold, at all times.                                                     *)
THEOREM TenancyInvariant == TenancySpec => []TenancyInv
<1>1. TenancyInit => TenancyInv
  BY TenancyInvInit
<1>2. TenancyInv /\ [TenancyNext]_tenancyVars => TenancyInv'
  <2>1. ASSUME TenancyInv, UNCHANGED tenancyVars PROVE TenancyInv'
    BY <2>1 DEF tenancyVars, TenancyInv, TenancyTypeOK, SentHasCall, FlushedIsFresh,
       CreatorWasSent, MembersHaveTenants, CheckStillHolds, EveryTenantIsOwned,
       Mine, OfTenant, Allowed
  <2>. QED
    BY <2>1, TenancyInvKept
<1>. QED
  BY <1>1, <1>2, PTL DEF TenancySpec

(* The tables and the requests keep their types (models.py), and only a    *)
(* request between its flush and its commit has an open insert.            *)
THEOREM TenancyTypeCorrect == TenancySpec => []TenancyTypeOK
<1>1. TenancyInv => TenancyTypeOK
  BY DEF TenancyInv
<1>. QED
  BY <1>1, TenancyInvariant, PTL

(* create_tenant: every tenant there is has its creator as owner, and no   *)
(* slug has two tenants, through crashes, failures and races.              *)
THEOREM TenantsAreOwned == TenancySpec => []EveryTenantIsOwned
<1>1. TenancyInv => EveryTenantIsOwned
  BY DEF TenancyInv
<1>. QED
  BY <1>1, TenancyInvariant, PTL

-----------------------------------------------------------------------------
(* What one step may do to the table memberships. *)
MembersStep ==
  /\ members \subseteq members'
  /\ \A m \in members' \ members :
       /\ \A n \in members : n.tenant = m.tenant => n.user # m.user
       /\ LET r == m.by
          IN  /\ pc[r] \in {"flushed", "allowed"} /\ pc'[r] # pc[r]
              /\ \/ m.role = "owner" /\ m.user = call[r].user /\ flushed[r].id = m.tenant
                 \/ /\ call[r].op = "add" /\ call[r].tenant = m.tenant
                    /\ call[r].member = m.user /\ call[r].role = m.role
                    /\ \E n \in Mine(r) : n.tenant = m.tenant /\ n.role # "member"

(* Whoever inserts a membership has nothing left to insert. *)
InsertersStep ==
  \A m \in members' \ members : m.by \in Request /\ pc'[m.by] \in {"committed", "answered"}

(* The owner that is inserted with a tenant is the first member of it.     *)
LEMMA CommitBothGrants ==
  ASSUME TenancyInv, NEW r \in Request, pc[r] = "flushed", CommitBoth(r),
         pc'[r] \in {"committed", "answered"}
  PROVE  MembersStep /\ InsertersStep
<1>. DEFINE own == [tenant |-> flushed[r].id, user |-> call[r].user, role |-> "owner", by |-> r]
<1>1. members' = members \cup {own}
  BY DEF CommitBoth
<1>2. \A n \in members : n.tenant # own.tenant
  BY DEF TenancyInv, MembersHaveTenants, FlushedIsFresh
<1>. QED
  BY <1>1, <1>2 DEF MembersStep, InsertersStep

(* add_member inserts for a user who had no role, by order of one whose    *)
(* role allowed it when it was checked, and still does.                    *)
LEMMA InsertMemberGrants ==
  ASSUME TenancyInv, NEW r \in Request, pc[r] = "allowed",
         call[r].op = "add", ~ AlreadyMember(r), InsertMember(r),
         pc'[r] \in {"committed", "answered"}
  PROVE  MembersStep /\ InsertersStep
<1>. DEFINE new == [tenant |-> call[r].tenant, user |-> call[r].member, role |-> call[r].role,
                      by |-> r]
<1>1. members' = members \cup {new}
  BY DEF InsertMember
<1>2. \A n \in members : n.tenant = new.tenant => n.user # new.user
  BY DEF AlreadyMember, OfTenant
<1>3. \E n \in Mine(r) : n.tenant = new.tenant /\ n.role # "member"
  BY DEF TenancyInv, CheckStillHolds, OfTenant, Allowed
<1>. QED
  BY <1>1, <1>2, <1>3 DEF MembersStep, InsertersStep

LEMMA EveryStepGrants ==
  ASSUME TenancyInv, TenancyNext
  PROVE  MembersStep /\ InsertersStep
<1>1. CASE UNCHANGED members
  BY <1>1 DEF MembersStep, InsertersStep
<1>2. ASSUME NEW r \in Request, CommitTenant(r) PROVE MembersStep /\ InsertersStep
  <2>1. pc[r] = "flushed" /\ pc'[r] = "committed" /\ CommitBoth(r)
    BY <1>2 DEF CommitTenant, Step, TenancyInv, TenancyTypeOK
  <2>. QED
    BY <2>1, CommitBothGrants
<1>3. ASSUME NEW r \in Request, AddMember(r) PROVE MembersStep /\ InsertersStep
  <2>1. CASE AlreadyMember(r)
    BY <1>1, <1>3, <2>1 DEF AddMember
  <2>2. CASE ~ AlreadyMember(r)
    <3>1. pc[r] = "allowed" /\ pc'[r] = "committed" /\ call[r].op = "add" /\ InsertMember(r)
      BY <1>3, <2>2 DEF AddMember, Step, TenancyInv, TenancyTypeOK
    <3>. QED
      BY <2>2, <3>1, InsertMemberGrants
  <2>. QED
    BY <2>1, <2>2
<1>4. ASSUME NEW r \in Request, DatabaseFails(r) PROVE MembersStep /\ InsertersStep
  <2>1. pc[r] \in InFlight /\ pc'[r] = "answered"
    BY <1>4 DEF DatabaseFails, Respond, Step, TenancyInv, TenancyTypeOK
  <2>. QED
    BY <1>1, <1>4, <2>1, CommitBothGrants, InsertMemberGrants DEF DatabaseFails, InFlight
<1>. QED
  BY <1>1, <1>2, <1>3, <1>4
  DEF TenancyNext, HandlerStep, Send, SendCall, FlushTenant, RequireTenantRole, ReadTenant,
      Finish, ListMyTenants, LookupMembership, Crash

(* add_member and create_tenant: a membership comes from an owner or admin *)
(* of that tenant or with the tenant itself, and is never changed.         *)
THEOREM MembershipsAreGranted == TenancySpec => MembershipIsGranted
<1>1. TenancyInv /\ [TenancyNext]_tenancyVars => [MembersStep]_tenancyVars
  BY EveryStepGrants
<1>. QED
  BY <1>1, TenancyInvariant, PTL DEF TenancySpec, MembershipIsGranted, MembersStep

-----------------------------------------------------------------------------
(* With the empty answers of requests that have not been answered, what    *)
(* OutsidersSeeNothing says is inductive, because memberships stay.        *)
ShownInv ==
  /\ OutsidersSeeNothing
  /\ \A r \in Request : pc[r] # "answered" => answer[r].shown = {}

LEMMA AnswerKeepsShown ==
  ASSUME TenancyInv, ShownInv, members \subseteq members', call' = call,
         NEW r \in Request, NEW from, NEW code, NEW shown, Respond(r, from, code, shown),
         \A m \in shown : \E n \in members : n.tenant = m.tenant /\ n.user = call[r].user
  PROVE  ShownInv'
<1>1. /\ answer'[r].shown = shown /\ pc'[r] = "answered"
      /\ \A q \in Request : q # r => answer'[q] = answer[q] /\ pc'[q] = pc[q]
  BY DEF Respond, Step, TenancyInv, TenancyTypeOK
<1>2. ASSUME NEW q \in Request, NEW m \in answer'[q].shown
      PROVE  \E n \in members' : n.tenant = m.tenant /\ n.user = call'[q].user
  <2>1. CASE q = r
    BY <1>1, <1>2, <2>1
  <2>2. CASE q # r
    BY <1>1, <1>2, <2>2 DEF ShownInv, OutsidersSeeNothing
  <2>. QED
    BY <2>1, <2>2
<1>. QED
  BY <1>1, <1>2 DEF ShownInv, OutsidersSeeNothing

(* A step of which no request is answered. *)
LEMMA SilenceKeepsShown ==
  ASSUME ShownInv, members \subseteq members', UNCHANGED answer,
         \A q \in Request : pc'[q] = "answered" => pc[q] = "answered",
         \A q \in Request : call'[q] = call[q] \/ pc[q] = "new",
         \A q \in Request : pc'[q] # "answered" => pc[q] # "answered"
  PROVE  ShownInv'
<1>1. ASSUME NEW q \in Request, NEW m \in answer[q].shown
      PROVE  \E n \in members' : n.tenant = m.tenant /\ n.user = call'[q].user
  <2>1. call'[q] = call[q]
    BY <1>1 DEF ShownInv
  <2>. QED
    BY <1>1, <2>1 DEF ShownInv, OutsidersSeeNothing
<1>. QED
  BY <1>1 DEF ShownInv, OutsidersSeeNothing

(* No step of tenant-service shows a tenant to somebody outside it.        *)
THEOREM ShownInvKept ==
  ASSUME TenancyInv, ShownInv, TenancyNext
  PROVE  ShownInv'
<1>0. members \subseteq members'
  BY EveryStepGrants DEF MembersStep
<1>. USE <1>0
<1>1. ASSUME NEW r \in Request, Send(r) PROVE ShownInv'
  BY <1>1, SilenceKeepsShown DEF Send, SendCall, Step, TenancyInv, TenancyTypeOK
<1>2. ASSUME NEW r \in Request, FlushTenant(r) PROVE ShownInv'
  <2>1. CASE Respond(r, "sent", 409, {})
    BY <1>2, <2>1, AnswerKeepsShown DEF FlushTenant
  <2>2. CASE Step(r, "sent", "flushed") /\ UNCHANGED answer
    BY <1>2, <2>2, SilenceKeepsShown DEF FlushTenant, Step, TenancyInv, TenancyTypeOK
  <2>. QED
    BY <1>2, <2>1, <2>2 DEF FlushTenant
<1>3. ASSUME NEW r \in Request, CommitTenant(r) PROVE ShownInv'
  BY <1>3, SilenceKeepsShown DEF CommitTenant, Step, TenancyInv, TenancyTypeOK
<1>4. ASSUME NEW r \in Request, RequireTenantRole(r) PROVE ShownInv'
  <2>0. call' = call
    BY <1>4 DEF RequireTenantRole
  <2>1. CASE Respond(r, "sent", 403, {})
    BY <2>0, <2>1, AnswerKeepsShown
  <2>2. CASE Respond(r, "sent", 404, {})
    BY <2>0, <2>2, AnswerKeepsShown
  <2>3. CASE Step(r, "sent", "allowed") /\ UNCHANGED answer
    BY <2>0, <2>3, SilenceKeepsShown DEF Step, TenancyInv, TenancyTypeOK
  <2>. QED
    BY <1>4, <2>1, <2>2, <2>3 DEF RequireTenantRole
<1>5. ASSUME NEW r \in Request, ReadTenant(r) PROVE ShownInv'
  <2>1. pc[r] = "allowed" /\ call' = call /\ Respond(r, "allowed", 200, OfTenant(r))
    BY <1>5 DEF ReadTenant
  <2>2. PICK n \in Mine(r) : n.tenant = call[r].tenant
    BY <2>1 DEF TenancyInv, CheckStillHolds, OfTenant
  <2>3. \A m \in OfTenant(r) : n \in members /\ n.tenant = m.tenant /\ n.user = call[r].user
    BY <2>2 DEF Mine, OfTenant
  <2>. QED
    BY <2>1, <2>3, AnswerKeepsShown
<1>6. ASSUME NEW r \in Request, AddMember(r) PROVE ShownInv'
  <2>1. CASE Respond(r, "allowed", 409, {})
    BY <1>6, <2>1, AnswerKeepsShown DEF AddMember
  <2>2. CASE Step(r, "allowed", "committed") /\ UNCHANGED answer
    BY <1>6, <2>2, SilenceKeepsShown DEF AddMember, Step, TenancyInv, TenancyTypeOK
  <2>. QED
    BY <1>6, <2>1, <2>2 DEF AddMember
<1>7. ASSUME NEW r \in Request, Finish(r) PROVE ShownInv'
  BY <1>7, AnswerKeepsShown DEF Finish
<1>8. ASSUME NEW r \in Request, ListMyTenants(r) PROVE ShownInv'
  BY <1>8, AnswerKeepsShown DEF ListMyTenants, Mine
<1>9. ASSUME NEW r \in Request, LookupMembership(r) PROVE ShownInv'
  <2>1. PICK found \in SUBSET Mine(r), code \in {200, 404} : Respond(r, "sent", code, found)
    <3>1. MembershipsOf(call[r].user, call[r].slug) \in SUBSET Mine(r)
      BY DEF MembershipsOf, Mine
    <3>. QED
      BY <1>9, <3>1 DEF LookupMembership
  <2>2. \A m \in found : m \in members /\ m.user = call[r].user
    BY DEF Mine
  <2>. QED
    BY <1>9, <2>1, <2>2, AnswerKeepsShown DEF LookupMembership
<1>10. ASSUME NEW r \in Request, DatabaseFails(r) PROVE ShownInv'
  BY <1>10, AnswerKeepsShown DEF DatabaseFails
<1>11. ASSUME Crash PROVE ShownInv'
  <2>1. \A q \in Request : (pc'[q] = "answered" <=> pc[q] = "answered")
    BY <1>11 DEF Crash, InFlight, TenancyInv, TenancyTypeOK
  <2>. QED
    BY <1>11, <2>1, SilenceKeepsShown DEF Crash
<1>. QED
  BY <1>1, <1>2, <1>3, <1>4, <1>5, <1>6, <1>7, <1>8, <1>9, <1>10, <1>11
  DEF TenancyNext, HandlerStep

(* list_my_tenants, get_tenant, list_members and lookup_membership: what   *)
(* is shown belongs to tenants the caller was a member of, and still is.   *)
THEOREM OutsidersAreShownNothing == TenancySpec => []OutsidersSeeNothing
<1>1. TenancyInit => ShownInv
  BY DEF TenancyInit, ShownInv, OutsidersSeeNothing
<1>2. TenancyInv /\ ShownInv /\ [TenancyNext]_tenancyVars => ShownInv'
  <2>1. ASSUME ShownInv, UNCHANGED tenancyVars PROVE ShownInv'
    BY <2>1 DEF tenancyVars, ShownInv, OutsidersSeeNothing
  <2>. QED
    BY <2>1, ShownInvKept
<1>3. ShownInv => OutsidersSeeNothing
  BY DEF ShownInv
<1>. QED
  BY <1>1, <1>2, <1>3, TenancyInvariant, PTL DEF TenancySpec
-----------------------------------------------------------------------------
(* What a step may do to the history: rows and what was asked and answered *)
(* stay, and who asks now sees every answer given so far.                  *)
HistoryStep ==
  /\ tenants \subseteq tenants'
  /\ members \subseteq members'
  /\ \A q \in Request :
       /\ pc[q] # "new" => pc'[q] # "new" /\ call'[q] = call[q] /\ before'[q] = before[q]
       /\ pc[q] = "answered" => pc'[q] = "answered"
       /\ pc[q] = "answered" \/ pc'[q] # "answered" => answer'[q] = answer[q]
       /\ pc[q] = "new" => \/ pc'[q] = "new" /\ before'[q] = before[q]
                           \/ /\ pc'[q] = "sent"
                              /\ before'[q] = {p \in Request : pc[p] = "answered"}

(* What stands behind an answer, in the state it is given in. *)
AnswerIsDue(q) ==
  \/ answer'[q].code = 500
  \/ answer'[q].code = 409 /\ pc[q] = "sent" /\ call[q].op = "create"
     /\ \E t \in tenants : t.slug = SlugOf(q)
  \/ answer'[q].code = 409 /\ pc[q] = "allowed" /\ call[q].op = "add" /\ AlreadyMember(q)
  \/ answer'[q].code = 201 /\ pc[q] = "committed"
  \/ answer'[q].code \in {200, 403, 404} /\ call[q].op \in {"list", "read", "add"}
  \/ answer'[q].code \in {200, 404} /\ call[q].op = "lookup"
     /\ answer'[q].shown = MembershipsOf(call[q].user, call[q].slug)

(* What stands behind a commit. *)
CommitIsDue(q) ==
  \/ pc[q] = "flushed" /\ call'[q] = call[q] /\ flushed[q] \in tenants'
  \/ pc[q] = "allowed" /\ call[q].op = "add" /\ call'[q] = call[q]

AnswersAreDue ==
  \A q \in Request :
    /\ pc'[q] = "answered" /\ pc[q] # "answered" => AnswerIsDue(q)
    /\ pc'[q] = "committed" /\ pc[q] # "committed" => CommitIsDue(q)

(* A step of one request, which goes from one place to another.            *)
Alone(r) ==
  /\ call' = call /\ before' = before
  /\ pc[r] # "new" /\ pc'[r] # "new" /\ pc[r] # "answered"
  /\ pc'[r] # "answered" => answer'[r] = answer[r]
  /\ \A q \in Request : q # r => pc'[q] = pc[q] /\ answer'[q] = answer[q]

LEMMA AloneKeepsHistory ==
  ASSUME NEW r \in Request, Alone(r), tenants \subseteq tenants', members \subseteq members'
  PROVE  HistoryStep
BY DEF Alone, HistoryStep

LEMMA RespondsAlone ==
  ASSUME TenancyInv, NEW r \in Request, NEW from \in InFlight, NEW code, NEW shown,
         Respond(r, from, code, shown), UNCHANGED <<call, before>>
  PROVE  /\ Alone(r) /\ pc[r] = from /\ pc'[r] = "answered"
         /\ answer'[r].code = code /\ answer'[r].shown = shown
<1>1. pc[r] = from /\ pc' = [pc EXCEPT ![r] = "answered"]
      /\ answer' = [answer EXCEPT ![r] = [code |-> code, shown |-> shown]]
  BY DEF Respond, Step
<1>. QED
  BY <1>1 DEF Alone, InFlight, TenancyInv, TenancyTypeOK

LEMMA MovesAlone ==
  ASSUME TenancyInv, NEW r \in Request, NEW from \in InFlight, NEW to \in InFlight,
         Step(r, from, to), UNCHANGED <<call, before, answer>>
  PROVE  Alone(r) /\ pc[r] = from /\ pc'[r] = to
BY DEF Step, Alone, InFlight, TenancyInv, TenancyTypeOK

LEMMA AloneIsDue ==
  ASSUME NEW r \in Request, Alone(r),
         pc'[r] = "answered" => AnswerIsDue(r),
         pc'[r] = "committed" => CommitIsDue(r)
  PROVE  AnswersAreDue
BY DEF Alone, AnswersAreDue

(* What a step of tenant-service commits and answers is due to the call it *)
(* handles.                                                                *)
THEOREM EveryStepIsHistory ==
  ASSUME TenancyInv, TenancyNext
  PROVE  HistoryStep /\ AnswersAreDue
<1>. DEFINE Good == HistoryStep /\ AnswersAreDue
<1>0. members \subseteq members'
  BY EveryStepGrants DEF MembersStep
<1>1. ASSUME NEW r \in Request, Send(r) PROVE Good
  <2>1. /\ pc[r] = "new" /\ pc'[r] = "sent" /\ UNCHANGED <<tenants, answer>>
        /\ before'[r] = {p \in Request : pc[p] = "answered"}
        /\ \A q \in Request : q # r =>
             pc'[q] = pc[q] /\ call'[q] = call[q] /\ before'[q] = before[q]
    BY <1>1 DEF Send, SendCall, Step, TenancyInv, TenancyTypeOK
  <2>. QED
    BY <1>0, <2>1 DEF HistoryStep, AnswersAreDue
<1>2. ASSUME NEW r \in Request, Alone(r), tenants \subseteq tenants',
             pc'[r] = "answered" => AnswerIsDue(r),
             pc'[r] = "committed" => CommitIsDue(r)
      PROVE  Good
  BY <1>0, <1>2, AloneKeepsHistory, AloneIsDue
<1>. HIDE DEF Good
<1>. USE DEF InFlight
<1>3. ASSUME NEW r \in Request, FlushTenant(r) PROVE Good
  <2>1. CASE \E t \in tenants : t.slug = SlugOf(r)
    <3>1. /\ call[r].op = "create" /\ Respond(r, "sent", 409, {})
          /\ UNCHANGED <<tenants, call, before>>
      BY <1>3, <2>1 DEF FlushTenant
    <3>2. Alone(r) /\ pc[r] = "sent" /\ answer'[r].code = 409 /\ pc'[r] = "answered"
      BY <3>1, RespondsAlone
    <3>. QED
      BY <1>2, <2>1, <3>1, <3>2 DEF AnswerIsDue
  <2>2. CASE ~ \E t \in tenants : t.slug = SlugOf(r)
    <3>1. Step(r, "sent", "flushed") /\ UNCHANGED <<tenants, call, before, answer>>
      BY <1>3, <2>2 DEF FlushTenant
    <3>2. Alone(r) /\ pc'[r] = "flushed"
      BY <3>1, MovesAlone
    <3>. QED
      BY <1>2, <3>1, <3>2
  <2>. QED
    BY <2>1, <2>2
<1>4. ASSUME NEW r \in Request, CommitTenant(r) PROVE Good
  <2>1. Alone(r) /\ pc[r] = "flushed" /\ call' = call
    BY <1>4, MovesAlone DEF CommitTenant
  <2>2. pc'[r] = "committed" /\ tenants' = tenants \cup {flushed[r]}
    BY <1>4 DEF CommitTenant, CommitBoth, Step, TenancyInv, TenancyTypeOK
  <2>. QED
    BY <1>2, <2>1, <2>2 DEF CommitIsDue
<1>5. ASSUME NEW r \in Request, RequireTenantRole(r) PROVE Good
  <2>0. UNCHANGED <<tenants, call, before>> /\ call[r].op \in {"read", "add"}
    BY <1>5 DEF RequireTenantRole
  <2>1. ASSUME NEW code \in {403, 404}, Respond(r, "sent", code, {}) PROVE Good
    <3>1. Alone(r) /\ answer'[r].code = code /\ pc'[r] = "answered"
      BY <2>0, <2>1, RespondsAlone
    <3>. QED
      BY <1>2, <2>0, <3>1 DEF AnswerIsDue
  <2>2. CASE Step(r, "sent", "allowed") /\ UNCHANGED answer
    <3>1. Alone(r) /\ pc'[r] = "allowed"
      BY <2>0, <2>2, MovesAlone
    <3>. QED
      BY <1>2, <2>0, <3>1
  <2>. QED
    BY <1>5, <2>1, <2>2 DEF RequireTenantRole
<1>6. ASSUME NEW r \in Request, ReadTenant(r) PROVE Good
  <2>1. call[r].op = "read" /\ Respond(r, "allowed", 200, OfTenant(r))
        /\ UNCHANGED <<tenants, call, before>>
    BY <1>6 DEF ReadTenant
  <2>2. Alone(r) /\ answer'[r].code = 200 /\ pc'[r] = "answered"
    BY <2>1, RespondsAlone
  <2>. QED
    BY <1>2, <2>1, <2>2 DEF AnswerIsDue
<1>7. ASSUME NEW r \in Request, AddMember(r) PROVE Good
  <2>0. call[r].op = "add" /\ pc[r] = "allowed" /\ UNCHANGED <<tenants, call, before>>
    BY <1>7 DEF AddMember
  <2>1. CASE AlreadyMember(r)
    <3>1. Respond(r, "allowed", 409, {})
      BY <1>7, <2>1 DEF AddMember
    <3>2. Alone(r) /\ answer'[r].code = 409 /\ pc'[r] = "answered"
      BY <2>0, <3>1, RespondsAlone
    <3>. QED
      BY <1>2, <2>0, <2>1, <3>2 DEF AnswerIsDue
  <2>2. CASE ~ AlreadyMember(r)
    <3>1. Alone(r) /\ pc'[r] = "committed"
      BY <1>7, <2>0, <2>2, MovesAlone DEF AddMember
    <3>. QED
      BY <1>2, <2>0, <3>1 DEF CommitIsDue
  <2>. QED
    BY <2>1, <2>2
<1>8. ASSUME NEW r \in Request, Finish(r) PROVE Good
  <2>1. Respond(r, "committed", 201, {}) /\ UNCHANGED <<tenants, call, before>>
    BY <1>8 DEF Finish
  <2>2. Alone(r) /\ pc[r] = "committed" /\ answer'[r].code = 201 /\ pc'[r] = "answered"
    BY <2>1, RespondsAlone
  <2>. QED
    BY <1>2, <2>1, <2>2 DEF AnswerIsDue
<1>9. ASSUME NEW r \in Request, ListMyTenants(r) PROVE Good
  <2>1. /\ call[r].op = "list" /\ Respond(r, "sent", 200, Mine(r))
        /\ UNCHANGED <<tenants, call, before>>
    BY <1>9 DEF ListMyTenants
  <2>2. Alone(r) /\ answer'[r].code = 200 /\ pc'[r] = "answered"
    BY <2>1, RespondsAlone
  <2>. QED
    BY <1>2, <2>1, <2>2 DEF AnswerIsDue
<1>10. ASSUME NEW r \in Request, LookupMembership(r) PROVE Good
  <2>1. PICK code \in {200, 404} :
          Respond(r, "sent", code, MembershipsOf(call[r].user, call[r].slug))
    BY <1>10 DEF LookupMembership
  <2>2. call[r].op = "lookup" /\ UNCHANGED <<tenants, call, before>>
    BY <1>10 DEF LookupMembership
  <2>3. /\ Alone(r) /\ pc'[r] = "answered" /\ answer'[r].code = code
        /\ answer'[r].shown = MembershipsOf(call[r].user, call[r].slug)
    BY <2>1, <2>2, RespondsAlone
  <2>. QED
    BY <1>2, <2>2, <2>3 DEF AnswerIsDue
<1>11. ASSUME NEW r \in Request, DatabaseFails(r) PROVE Good
  <2>1. PICK from \in InFlight : Respond(r, from, 500, {})
    BY <1>11 DEF DatabaseFails
  <2>2. UNCHANGED <<call, before>> /\ tenants \subseteq tenants'
    BY <1>11 DEF DatabaseFails, CommitBoth
  <2>3. Alone(r) /\ answer'[r].code = 500 /\ pc'[r] = "answered"
    BY <2>1, <2>2, RespondsAlone
  <2>. QED
    BY <1>2, <2>2, <2>3 DEF AnswerIsDue
<1>12. ASSUME Crash PROVE Good
  <2>1. UNCHANGED <<tenants, call, answer, before>>
        /\ \A q \in Request : pc'[q] = pc[q] \/ (pc[q] \in InFlight /\ pc'[q] = "lost")
    BY <1>12 DEF Crash, TenancyInv, TenancyTypeOK
  <2>. QED
    BY <1>0, <2>1 DEF Good, HistoryStep, AnswersAreDue
<1>. QED
  BY <1>1, <1>3, <1>4, <1>5, <1>6, <1>7, <1>8, <1>9, <1>10, <1>11, <1>12
  DEF TenancyNext, HandlerStep, Good

-----------------------------------------------------------------------------
(* Who has inserted a tenant goes on to commit it, and never back.         *)
FlushStep ==
  /\ \A q \in Request : pc'[q] = "flushed" =>
       \/ pc[q] = "flushed" /\ flushed'[q] = flushed[q]
       \/ pc[q] = "sent" /\ call[q].op = "create" /\ flushed'[q].slug = SlugOf(q)
  /\ \A q \in Request : pc[q] \in {"committed", "answered", "lost"} =>
       pc'[q] \in {"committed", "answered", "lost"}
  /\ \A t \in tenants' \ tenants : \E q \in Request :
       pc[q] = "flushed" /\ t = flushed[q] /\ pc'[q] \in {"committed", "answered"}

LEMMA LeaveIsFlushStep ==
  ASSUME TenancyInv, NEW S, Leave(S),
         \/ UNCHANGED tenants
         \/ \E r \in S \cap Request : /\ CommitBoth(r) /\ pc[r] = "flushed"
                                      /\ pc'[r] \in {"committed", "answered"}
  PROVE  FlushStep
<1>1. tenants' = tenants \/ \E r \in S \cap Request : tenants' = tenants \cup {flushed[r]}
        /\ pc[r] = "flushed" /\ pc'[r] \in {"committed", "answered"}
  BY DEF CommitBoth
<1>2. \A q \in Request : q \notin S => pc'[q] = pc[q] /\ flushed'[q] = flushed[q]
  BY DEF Leave
<1>3. \A q \in Request : q \in S => pc'[q] \in {"committed", "answered", "lost"}
  BY DEF Leave
<1>. QED
  BY <1>1, <1>2, <1>3 DEF FlushStep

LEMMA RespondIsFlushStep ==
  ASSUME TenancyInv, NEW r \in Request, NEW from \in InFlight, NEW code, NEW shown,
         Respond(r, from, code, shown), UNCHANGED <<tenants, flushed, call>>
  PROVE  FlushStep
<1>1. pc[r] = from /\ pc' = [pc EXCEPT ![r] = "answered"]
  BY DEF Respond, Step
<1>. QED
  BY <1>1 DEF FlushStep, TenancyInv, TenancyTypeOK, InFlight

LEMMA EveryStepFlushes ==
  ASSUME TenancyInv, TenancyNext
  PROVE  FlushStep
<1>1. ASSUME NEW r \in Request, Send(r) PROVE FlushStep
  <2>1. pc[r] = "new" /\ pc' = [pc EXCEPT ![r] = "sent"] /\ UNCHANGED <<tenants, flushed>>
    BY <1>1 DEF Send, SendCall, Step
  <2>. QED
    BY <2>1 DEF FlushStep, TenancyInv, TenancyTypeOK
<1>2. ASSUME NEW r \in Request, FlushTenant(r) PROVE FlushStep
  <2>1. CASE \E t \in tenants : t.slug = SlugOf(r)
    BY <1>2, <2>1, RespondIsFlushStep DEF FlushTenant, InFlight
  <2>2. CASE ~ \E t \in tenants : t.slug = SlugOf(r)
    <3>1. PICK i \in TenantId \ Drawn :
            flushed' = [flushed EXCEPT ![r] = [id |-> i, slug |-> SlugOf(r), by |-> r]]
      BY <1>2, <2>2 DEF FlushTenant
    <3>2. /\ pc[r] = "sent" /\ pc' = [pc EXCEPT ![r] = "flushed"] /\ UNCHANGED tenants
          /\ call[r].op = "create"
      BY <1>2, <2>2 DEF FlushTenant, Step
    <3>3. flushed'[r].slug = SlugOf(r) /\ \A q \in Request : q # r => flushed'[q] = flushed[q]
      BY <3>1 DEF TenancyInv, TenancyTypeOK
    <3>. QED
      BY <3>2, <3>3 DEF FlushStep, TenancyInv, TenancyTypeOK
  <2>. QED
    BY <2>1, <2>2
<1>3. ASSUME NEW r \in Request, CommitTenant(r) PROVE FlushStep
  <2>1. Leave({r}) /\ pc[r] = "flushed" /\ pc'[r] = "committed" /\ CommitBoth(r)
    BY <1>3 DEF CommitTenant, Step, Leave, TenancyInv, TenancyTypeOK, InFlight
  <2>. QED
    BY <2>1, LeaveIsFlushStep
<1>4. ASSUME NEW r \in Request, RequireTenantRole(r) PROVE FlushStep
  <2>1. CASE Step(r, "sent", "allowed")
    BY <1>4, <2>1 DEF RequireTenantRole, Step, FlushStep, TenancyInv, TenancyTypeOK
  <2>. QED
    BY <1>4, <2>1, RespondIsFlushStep DEF RequireTenantRole, InFlight
<1>5. ASSUME NEW r \in Request, AddMember(r) PROVE FlushStep
  <2>1. CASE Step(r, "allowed", "committed")
    BY <1>5, <2>1 DEF AddMember, Step, FlushStep, TenancyInv, TenancyTypeOK
  <2>. QED
    BY <1>5, <2>1, RespondIsFlushStep DEF AddMember, InFlight
<1>6. ASSUME NEW r \in Request,
             ReadTenant(r) \/ Finish(r) \/ ListMyTenants(r) \/ LookupMembership(r)
      PROVE FlushStep
  BY <1>6, RespondIsFlushStep
  DEF ReadTenant, Finish, ListMyTenants, LookupMembership, InFlight
<1>7. ASSUME NEW r \in Request, DatabaseFails(r) PROVE FlushStep
  <2>1. Leave({r}) /\ pc'[r] = "answered"
    BY <1>7 DEF DatabaseFails, Respond, Step, RollBack, Leave, TenancyInv, TenancyTypeOK
  <2>. QED
    BY <1>7, <2>1, LeaveIsFlushStep DEF DatabaseFails
<1>8. ASSUME Crash PROVE FlushStep
  <2>1. Leave({q \in Request : pc[q] \in InFlight})
    BY <1>8 DEF Crash, Leave, TenancyInv, TenancyTypeOK, InFlight
  <2>. QED
    BY <1>8, <2>1, LeaveIsFlushStep DEF Crash
<1>. QED
  BY <1>1, <1>2, <1>3, <1>4, <1>5, <1>6, <1>7, <1>8 DEF TenancyNext, HandlerStep

-----------------------------------------------------------------------------
(* What the answers rest on: who waits for a commit asked for it, who has  *)
(* committed a tenant finds it with its slug, and whoever has inserted a   *)
(* tenant or a membership can no longer be refused.                        *)
CommitsAreOwn ==
  \A r \in Request :
    /\ pc[r] = "flushed" => call[r].op = "create" /\ flushed[r].slug = SlugOf(r)
    /\ pc[r] = "committed" => call[r].op \in {"create", "add"}
    /\ /\ pc[r] = "committed" \/ answer[r].code = 201
       /\ call[r].op = "create"
       => \E t \in tenants : t.by = r /\ t.slug = SlugOf(r)

CreatorsAreThrough ==
  \A t \in tenants : pc[t.by] \in {"committed", "answered", "lost"}

InsertersAreThrough ==
  \A m \in members : pc[m.by] \in {"committed", "answered", "lost"}

AnswersAreGiven ==
  \A r \in Request :
    /\ pc[r] # "answered" => answer[r].code = 0
    /\ \A p \in before[r] : pc[p] = "answered"

AnswersInv ==
  /\ CommitsAreOwn
  /\ CreatorsAreThrough
  /\ InsertersAreThrough
  /\ AnswersAreGiven
  /\ ConflictIsReal
  /\ CreatorFindsTenant

LEMMA AnswersInvInit == ASSUME TenancyInit PROVE AnswersInv
BY DEF TenancyInit, AnswersInv, CommitsAreOwn, CreatorsAreThrough, InsertersAreThrough, AnswersAreGiven,
   ConflictIsReal, CreatorFindsTenant

LEMMA CommitsStayOwn ==
  ASSUME TenancyInv, AnswersInv, HistoryStep, AnswersAreDue, FlushStep, TenancyTypeOK'
  PROVE  CommitsAreOwn'
<1>. SUFFICES ASSUME NEW r \in Request
     PROVE  /\ pc'[r] = "flushed" => call'[r].op = "create" /\ flushed'[r].slug = SlugOf(r)'
            /\ pc'[r] = "committed" => call'[r].op \in {"create", "add"}
            /\ /\ pc'[r] = "committed" \/ answer'[r].code = 201
               /\ call'[r].op = "create"
               => \E t \in tenants' : t.by = r /\ t.slug = SlugOf(r)'
  BY DEF CommitsAreOwn
<1>1. pc[r] # "new" => call'[r] = call[r] /\ SlugOf(r)' = SlugOf(r)
  BY DEF HistoryStep, SlugOf
<1>2. pc[r] = "new" => pc'[r] \in {"new", "sent"} /\ answer'[r].code = 0
  BY DEF HistoryStep, AnswersInv, AnswersAreGiven
<1>3. pc'[r] = "flushed" => call'[r].op = "create" /\ flushed'[r].slug = SlugOf(r)'
  BY <1>1, <1>2 DEF FlushStep, AnswersInv, CommitsAreOwn
<1>4. pc'[r] = "committed" => call'[r].op \in {"create", "add"}
  BY <1>1, <1>2 DEF AnswersAreDue, CommitIsDue, AnswersInv, CommitsAreOwn
<1>5. ASSUME pc'[r] = "committed" \/ answer'[r].code = 201, call'[r].op = "create"
      PROVE  \E t \in tenants' : t.by = r /\ t.slug = SlugOf(r)'
  <2>1. pc[r] # "new"
    BY <1>2, <1>5
  <2>2. CASE pc[r] = "committed" \/ answer[r].code = 201
    BY <1>1, <1>5, <2>1, <2>2 DEF AnswersInv, CommitsAreOwn, HistoryStep
  <2>3. CASE pc[r] # "committed" /\ answer[r].code # 201
    <3>1. pc'[r] = "committed"
      <4>1. pc'[r] # "committed" =>
              answer'[r].code = 201 /\ pc'[r] = "answered" /\ pc[r] # "answered"
        BY <1>5, <2>3 DEF HistoryStep
      <4>2. pc'[r] # "committed" => AnswerIsDue(r)
        BY <4>1 DEF AnswersAreDue
      <4>. QED
        BY <2>3, <4>1, <4>2 DEF AnswerIsDue
    <3>2. pc[r] = "flushed" /\ flushed[r] \in tenants'
      BY <1>1, <1>5, <2>1, <2>3, <3>1 DEF AnswersAreDue, CommitIsDue
    <3>3. flushed[r].by = r /\ flushed[r].slug = SlugOf(r)
      BY <3>2 DEF TenancyInv, FlushedIsFresh, AnswersInv, CommitsAreOwn
    <3>. QED
      BY <1>1, <2>1, <3>2, <3>3
  <2>. QED
    BY <2>2, <2>3
<1>. QED
  BY <1>3, <1>4, <1>5

LEMMA CreatorsStayThrough ==
  ASSUME TenancyInv, AnswersInv, FlushStep
  PROVE  CreatorsAreThrough'
<1>. SUFFICES ASSUME NEW t \in tenants'
     PROVE  pc'[t.by] \in {"committed", "answered", "lost"}
  BY DEF CreatorsAreThrough
<1>1. CASE t \in tenants
  <2>1. t.by \in Request /\ pc[t.by] \in {"committed", "answered", "lost"}
    BY <1>1 DEF AnswersInv, CreatorsAreThrough, TenancyInv, TenancyTypeOK, Tenant
  <2>. QED
    BY <2>1 DEF FlushStep
<1>2. CASE t \notin tenants
  <2>1. PICK q \in Request :
          pc[q] = "flushed" /\ t = flushed[q] /\ pc'[q] \in {"committed", "answered"}
    BY <1>2 DEF FlushStep
  <2>2. t.by = q
    BY <2>1 DEF TenancyInv, FlushedIsFresh
  <2>. QED
    BY <2>1, <2>2
<1>. QED
  BY <1>1, <1>2

LEMMA InsertersStayThrough ==
  ASSUME TenancyInv, AnswersInv, FlushStep, InsertersStep
  PROVE  InsertersAreThrough'
<1>. SUFFICES ASSUME NEW m \in members'
     PROVE  pc'[m.by] \in {"committed", "answered", "lost"}
  BY DEF InsertersAreThrough
<1>1. CASE m \in members
  <2>1. m.by \in Request /\ pc[m.by] \in {"committed", "answered", "lost"}
    BY <1>1 DEF AnswersInv, InsertersAreThrough, TenancyInv, TenancyTypeOK, Membership
  <2>. QED
    BY <2>1 DEF FlushStep
<1>2. CASE m \notin members
  BY <1>2 DEF InsertersStep
<1>. QED
  BY <1>1, <1>2

LEMMA AnswersStayGiven ==
  ASSUME TenancyInv, AnswersInv, HistoryStep
  PROVE  AnswersAreGiven'
<1>1. ASSUME NEW r \in Request, pc'[r] # "answered" PROVE answer'[r].code = 0
  BY <1>1 DEF AnswersInv, AnswersAreGiven, HistoryStep
<1>2. ASSUME NEW r \in Request, NEW p \in before'[r] PROVE pc'[p] = "answered"
  <2>1. p \in before[r] \/ p \in {q \in Request : pc[q] = "answered"}
    BY <1>2 DEF HistoryStep
  <2>2. p \in Request /\ pc[p] = "answered"
    BY <2>1 DEF AnswersInv, AnswersAreGiven, TenancyInv, TenancyTypeOK
  <2>. QED
    BY <2>2 DEF HistoryStep
<1>. QED
  BY <1>1, <1>2 DEF AnswersAreGiven

LEMMA ConflictStaysReal ==
  ASSUME TenancyInv, AnswersInv, HistoryStep, AnswersAreDue
  PROVE  ConflictIsReal'
<1>. SUFFICES ASSUME NEW r \in Request, answer'[r].code = 409
     PROVE  \/ call'[r].op = "create" /\ \E t \in tenants' : t.slug = SlugOf(r)' /\ t.by # r
            \/ /\ call'[r].op = "add"
               /\ \E m \in OfTenant(r)' : m.user = call'[r].member /\ m.by # r
  BY DEF ConflictIsReal
<1>1. pc[r] # "new"
  BY DEF HistoryStep, AnswersInv, AnswersAreGiven
<1>2. call'[r] = call[r] /\ SlugOf(r)' = SlugOf(r)
  BY <1>1 DEF HistoryStep, SlugOf
<1>3. OfTenant(r) \subseteq OfTenant(r)'
  BY <1>2 DEF OfTenant, HistoryStep
<1>4. CASE answer[r].code = 409
  BY <1>2, <1>3, <1>4 DEF AnswersInv, ConflictIsReal, HistoryStep
<1>5. CASE answer[r].code # 409
  <2>1. pc'[r] = "answered" /\ pc[r] # "answered"
    BY <1>5 DEF HistoryStep
  <2>2. AnswerIsDue(r)
    BY <2>1 DEF AnswersAreDue
  <2>3. CASE pc[r] = "sent" /\ call[r].op = "create" /\ \E t \in tenants : t.slug = SlugOf(r)
    <3>1. \A t \in tenants : t.by # r
      BY <2>3 DEF AnswersInv, CreatorsAreThrough
    <3>. QED
      BY <1>2, <2>3, <3>1 DEF HistoryStep
  <2>4. CASE pc[r] = "allowed" /\ call[r].op = "add" /\ AlreadyMember(r)
    <3>1. \A m \in OfTenant(r) : m.by # r
      BY <2>4 DEF AnswersInv, InsertersAreThrough, OfTenant
    <3>. QED
      BY <1>2, <1>3, <2>4, <3>1 DEF AlreadyMember
  <2>. QED
    BY <2>2, <2>3, <2>4 DEF AnswerIsDue
<1>. QED
  BY <1>4, <1>5

LEMMA CreatorStillFindsTenant ==
  ASSUME TenancyInv, AnswersInv, HistoryStep, AnswersAreDue
  PROVE  CreatorFindsTenant'
<1>. SUFFICES ASSUME NEW c \in Request, NEW l \in Request, c \in before'[l],
                     call'[c].op = "create", answer'[c].code = 201,
                     call'[l].op = "lookup", call'[l].user = call'[c].user,
                     call'[l].slug = Lower[call'[c].slug],
                     answer'[l].code \notin {0, 500}
     PROVE  \E m \in answer'[l].shown :
              m.role = "owner" /\ \E t \in tenants' : t.id = m.tenant /\ t.by = c
  BY DEF CreatorFindsTenant
<1>1. pc[l] # "new" /\ pc'[l] = "answered"
  BY DEF HistoryStep, AnswersInv, AnswersAreGiven
<1>2. call'[l] = call[l] /\ c \in before[l] /\ pc[c] = "answered"
  BY <1>1 DEF HistoryStep, AnswersInv, AnswersAreGiven
<1>3. call'[c] = call[c] /\ answer'[c] = answer[c]
  BY <1>2 DEF HistoryStep
<1>4. CASE pc[l] = "answered"
  <2>1. answer'[l] = answer[l]
    BY <1>4 DEF HistoryStep
  <2>. QED
    BY <1>2, <1>3, <2>1 DEF AnswersInv, CreatorFindsTenant, HistoryStep
<1>5. CASE pc[l] # "answered"
  <2>1. AnswerIsDue(l)
    BY <1>1, <1>5 DEF AnswersAreDue
  <2>2. pc[l] # "committed"
    BY <1>2 DEF AnswersInv, CommitsAreOwn
  <2>3. answer'[l].shown = MembershipsOf(call[l].user, call[l].slug)
    BY <1>2, <2>1, <2>2 DEF AnswerIsDue
  <2>4. PICK t \in tenants : t.by = c /\ t.slug = SlugOf(c)
    BY <1>3 DEF AnswersInv, CommitsAreOwn
  <2>5. [tenant |-> t.id, user |-> call[c].user, role |-> "owner", by |-> t.by] \in members
    BY <2>4 DEF TenancyInv, EveryTenantIsOwned
  <2>6. [tenant |-> t.id, user |-> call[c].user, role |-> "owner", by |-> t.by]
          \in MembershipsOf(call[l].user, call[l].slug)
    BY <1>2, <1>3, <2>4, <2>5 DEF MembershipsOf, SlugOf
  <2>. QED
    BY <2>3, <2>4, <2>6 DEF HistoryStep
<1>. QED
  BY <1>4, <1>5

LEMMA AnswersInvKept ==
  ASSUME TenancyInv, AnswersInv, TenancyNext
  PROVE  AnswersInv'
<1>1. HistoryStep /\ AnswersAreDue /\ FlushStep /\ InsertersStep /\ TenancyTypeOK'
  BY EveryStepIsHistory, EveryStepFlushes, EveryStepGrants, TenancyTypeKept
<1>. QED
  BY <1>1, CommitsStayOwn, CreatorsStayThrough, InsertersStayThrough, AnswersStayGiven,
     ConflictStaysReal, CreatorStillFindsTenant DEF AnswersInv

(* What tenant-service has answered was due and stays true, at all times.  *)
THEOREM AnswersInvariant == TenancySpec => []AnswersInv
<1>1. TenancyInit => AnswersInv
  BY AnswersInvInit
<1>2. TenancyInv /\ AnswersInv /\ [TenancyNext]_tenancyVars => AnswersInv'
  <2>1. ASSUME AnswersInv, UNCHANGED tenancyVars PROVE AnswersInv'
    BY <2>1 DEF tenancyVars, AnswersInv, CommitsAreOwn, CreatorsAreThrough, InsertersAreThrough, AnswersAreGiven,
       ConflictIsReal, CreatorFindsTenant, SlugOf, AlreadyMember, OfTenant
  <2>. QED
    BY <2>1, AnswersInvKept
<1>. QED
  BY <1>1, <1>2, TenancyInvariant, PTL DEF TenancySpec

(* create_tenant and add_member: a 409 is an honest one.  Another request  *)
(* took the slug, or inserted the membership.                              *)
THEOREM ConflictsAreReal == TenancySpec => []ConflictIsReal
<1>1. AnswersInv => ConflictIsReal
  BY DEF AnswersInv
<1>. QED
  BY <1>1, AnswersInvariant, PTL

(* lookup_membership finds, by the slug create_tenant has answered, every  *)
(* tenant that was answered before, with its creator as owner.             *)
THEOREM CreatorsFindTheirTenants == TenancySpec => []CreatorFindsTenant
<1>1. AnswersInv => CreatorFindsTenant
  BY DEF AnswersInv
<1>. QED
  BY <1>1, AnswersInvariant, PTL

-----------------------------------------------------------------------------
(***************************************************************************)
(* The three services together.                                            *)
(***************************************************************************)

(* Auth-service.  The inductive invariant.                                 *)

AddressesAreLower == \A u \in users : LowerAddress[u.email] = u.email

FormsAreSent == \A a \in AuthRequest : stage[a] # "new" => form[a] \in Forms

(* The user whose address and password a login has given. *)
IsUserOf(u, a) ==
  /\ u \in users
  /\ u.email = AddressOf(a)
  /\ u.password = form[a].password

LoginsAreRight ==
  \A a \in AuthRequest : stage[a] \in {"asking", "minting"} =>
    /\ form[a].op = "login"
    /\ IsUserOf(account[a], a)
    /\ stage[a] = "asking" => form[a].slug # None
    /\ stage[a] = "minting" /\ form[a].slug # None =>
         grant[a] \in MembershipsOf(account[a].id, form[a].slug)

SignupsAreKept ==
  \A a \in AuthRequest : stage[a] = "committed" \/ reply[a].code = 201 =>
    /\ form[a].op = "signup"
    /\ \E u \in users : IsUserOf(u, a)

RepliesAreGiven ==
  \A a \in AuthRequest :
    /\ stage[a] # "answered" => reply[a].code = 0
    /\ reply[a].token # None => reply[a].code = 200
    /\ \A b \in earlier[a] :
         /\ b \in AuthRequest => stage[b] = "answered"
         /\ b \in Request => pc[b] = "answered"

(* Whoever asks tenant-service for something has an account. *)
AskersHaveAccounts ==
  \A r \in Request : pc[r] # "new" => \E u \in users : u.id = call[r].user

MembersAreUnique ==
  \A m, n \in members : m.tenant = n.tenant /\ m.user = n.user => m = n

TenancySide == TenancyInv /\ AnswersInv /\ MembersAreUnique

AccountsInv ==
  /\ AccountsTypeOK
  /\ AddressesAreLower
  /\ FormsAreSent
  /\ LoginsAreRight
  /\ SignupsAreKept
  /\ RepliesAreGiven
  /\ AskersHaveAccounts
  /\ TokenTellsTheTruth
  /\ NobodyIsLockedOut

-----------------------------------------------------------------------------
(* Projects-service.  The inductive invariant.                             *)

AsksAreTyped ==
  \A r \in ProjectRequest : progress[r] # "new" =>
    /\ asked[r] \in P!Call
    /\ asked[r].op = "create" => asked[r].key \in Key

KeysAreUpper == \A p \in born : Upper[p.key] = p.key

(* A row is its request's own, which can no longer be refused. *)
RowsAreOwn ==
  \A p \in born :
    /\ progress[p.by] \in {"committed", "answered", "lost"}
    /\ p.tenant = asked[p.by].tenant
    /\ p.user = asked[p.by].user

(* What d asks to delete. *)
Deletes(d, p) ==
  /\ progress[d] # "new"
  /\ asked[d].op = "delete"
  /\ asked[d].tenant = p.tenant
  /\ asked[d].id = p.id

GoneWasDeleted ==
  \A p \in born : p \in projects \/ \E d \in ProjectRequest :
    Deletes(d, p) /\ progress[d] \in {"answered", "lost"}

DeletedIsGone ==
  \A d \in ProjectRequest :
    /\ progress[d] = "found" => asked[d].op = "delete"
    /\ progress[d] = "found" \/ result[d].code = 204 => \E p \in born : Deletes(d, p)
    /\ result[d].code = 204 => \A p \in projects : ~ Deletes(d, p)

ResultsAreGiven ==
  \A r \in ProjectRequest :
    /\ progress[r] # "answered" => result[r].code = 0 /\ result[r].shown = {}
    /\ \A b \in since[r] : progress[b] = "answered"
    /\ \A p \in result[r].shown : p \in born /\ p.tenant = asked[r].tenant

(* Who asks for a tenant's projects is a member of it. *)
AskersAreMembers ==
  \A r \in ProjectRequest : progress[r] # "new" /\ asked[r].tenant # None =>
    \E m \in members : m.tenant = asked[r].tenant /\ m.user = asked[r].user

ProjectsInv ==
  /\ P!TypeOK
  /\ AsksAreTyped
  /\ KeysAreUpper
  /\ RowsAreOwn
  /\ GoneWasDeleted
  /\ DeletedIsGone
  /\ ResultsAreGiven
  /\ AskersAreMembers
  /\ KeyConflictIsReal
  /\ ProjectLastsUntilDeleted

WorkspaceInv == TenancySide /\ AccountsInv /\ ProjectsInv

-----------------------------------------------------------------------------
(* Tenant-service goes on as if it were alone: the other two services      *)
(* change nothing of it, and share with it the bound on failures only.     *)
TenancyRests ==
  /\ UNCHANGED <<tenants, members, flushed, pc, call, answer, before>>
  /\ faults' \in 0 .. MaxFaults

LEMMA UniqueMembersStay ==
  ASSUME MembersAreUnique, MembersStep, TenancyInv, TenancyNext
  PROVE  MembersAreUnique'
<1>1. ASSUME NEW m \in members' \ members, NEW n \in members' \ members,
             m.tenant = n.tenant, m.user = n.user
      PROVE  m = n
  <2>1. CASE UNCHANGED members
    BY <2>1
  <2>2. ASSUME NEW r \in Request, CommitBoth(r) \/ InsertMember(r) PROVE m = n
    BY <2>2 DEF CommitBoth, InsertMember
  <2>3. \/ UNCHANGED members
        \/ \E r \in Request : CommitBoth(r) \/ InsertMember(r)
    BY DEF TenancyNext, HandlerStep, Send, SendCall, FlushTenant, CommitTenant,
       RequireTenantRole, ReadTenant, AddMember, Finish, ListMyTenants, LookupMembership,
       DatabaseFails, Crash
  <2>. QED
    BY <1>1, <2>1, <2>2, <2>3
<1>. QED
  BY <1>1 DEF MembersAreUnique, MembersStep

LEMMA TenancySideInit == ASSUME TenancyInit PROVE TenancySide
BY TenancyInvInit, AnswersInvInit DEF TenancySide, MembersAreUnique, TenancyInit

LEMMA TenancySideKept ==
  ASSUME TenancySide, TenancyNext \/ TenancyRests
  PROVE  TenancySide'
<1>1. CASE TenancyNext
  BY <1>1, TenancyInvKept, AnswersInvKept, EveryStepGrants, UniqueMembersStay DEF TenancySide
<1>2. CASE TenancyRests
  BY <1>2 DEF TenancyRests, TenancySide, MembersAreUnique, TenancyInv, TenancyTypeOK, SentHasCall,
     FlushedIsFresh, CreatorWasSent, MembersHaveTenants, CheckStillHolds, EveryTenantIsOwned,
     Mine, OfTenant, Allowed, AnswersInv, CommitsAreOwn, CreatorsAreThrough,
     InsertersAreThrough, AnswersAreGiven, ConflictIsReal, CreatorFindsTenant, SlugOf, AlreadyMember
<1>. QED
  BY <1>1, <1>2

(* What the other services see of tenant-service. *)
LEMMA TenancySideIsHistory ==
  ASSUME TenancySide, TenancyNext \/ TenancyRests
  PROVE  HistoryStep
<1>1. CASE TenancyNext
  BY <1>1, EveryStepIsHistory DEF TenancySide
<1>2. CASE TenancyRests
  BY <1>2 DEF TenancyRests, HistoryStep
<1>. QED
  BY <1>1, <1>2

-----------------------------------------------------------------------------
(* Auth-service.  What a step of one request is, apart from its sending.   *)
AuthAlone(a) ==
  /\ stage[a] \in AuthInFlight
  /\ form' = form /\ earlier' = earlier
  /\ users \subseteq users'
  /\ stage'[a] # "answered" => reply'[a] = reply[a]
  /\ \A b \in AuthRequest : b # a =>
       /\ stage'[b] = stage[b] /\ reply'[b] = reply[b]
       /\ account'[b] = account[b] /\ grant'[b] = grant[b]

(* What stands behind its answer, *)
ReplyIsDue(a) ==
  \/ reply'[a].code = 409 /\ reply'[a].token = None /\ form[a].op = "signup"
  \/ reply'[a].code = 201 /\ reply'[a].token = None /\ stage[a] = "committed"
  \/ reply'[a].code = 401 /\ reply'[a].token = None /\ \A u \in users : ~ IsUserOf(u, a)
  \/ reply'[a].code = 403 /\ reply'[a].token = None /\ stage[a] = "asking"
     /\ MembershipsOf(account[a].id, form[a].slug) = {}
  \/ reply'[a].code \in {500, 502, 503} /\ reply'[a].token = None /\ faults' = faults + 1
  \/ reply'[a].code = 200 /\ reply'[a].token = Claims(a) /\ stage[a] = "minting"

(* and behind its being somewhere else. *)
PlaceIsDue(a) ==
  \/ stage'[a] = "committed" /\ form[a].op = "signup"
     /\ \E u \in users' : u.email = AddressOf(a) /\ u.password = form[a].password
  \/ /\ stage'[a] \in {"asking", "minting"}
     /\ stage[a] = "sent" /\ form[a].op = "login"
     /\ stage'[a] = "asking" <=> form[a].slug # None
     /\ IsUserOf(account'[a], a)
  \/ /\ stage'[a] = "minting"
     /\ stage[a] = "asking" /\ account'[a] = account[a]
     /\ grant'[a] \in MembershipsOf(account[a].id, form[a].slug)

AuthStep(a) ==
  /\ AuthAlone(a)
  /\ IF stage'[a] = "answered" THEN ReplyIsDue(a) ELSE PlaceIsDue(a)

(* The users there are: none goes, and a new one has an address and an id  *)
(* of its own.                                                             *)
UsersStep ==
  /\ users \subseteq users'
  /\ users' \subseteq Account
  /\ \A u, v \in users' : u.id = v.id \/ u.email = v.email => u = v
  /\ \A u \in users' : LowerAddress[u.email] = u.email

LEMMA FormTypes ==
  ASSUME AccountsInv, NEW a \in AuthRequest, stage[a] # "new"
  PROVE  /\ form[a] \in Form
         /\ form[a].email \in Address /\ form[a].password \in Password
         /\ AddressOf(a) \in Address /\ LowerAddress[AddressOf(a)] = AddressOf(a)
<1>1. form[a] \in Form
  BY AccountsAssumption DEF AccountsInv, FormsAreSent
<1>2. form[a].email \in Address /\ form[a].password \in Password
  BY <1>1 DEF Form
<1>. QED
  BY <1>1, <1>2, AccountsAssumption DEF AddressOf

LEMMA InsertIsUsersStep ==
  ASSUME AccountsInv, NEW a \in AuthRequest, stage[a] # "new", ~ Registered(a), InsertUser(a)
  PROVE  /\ UsersStep
         /\ \E u \in users' : u.email = AddressOf(a) /\ u.password = form[a].password
<1>1. PICK i \in User \ {u.id : u \in users} :
        users' = users \cup {[id |-> i, email |-> AddressOf(a), password |-> form[a].password]}
  BY DEF InsertUser
<1>. DEFINE new == [id |-> i, email |-> AddressOf(a), password |-> form[a].password]
<1>2. \A u \in users : u.id # i /\ u.email # AddressOf(a)
  BY <1>1 DEF Registered
<1>3. new \in Account /\ LowerAddress[new.email] = new.email
  BY FormTypes DEF Account
<1>4. \A u, v \in users : u.id = v.id \/ u.email = v.email => u = v
  BY DEF AccountsInv, AccountsTypeOK
<1>5. \A u, v \in users' : u.id = v.id \/ u.email = v.email => u = v
  BY <1>1, <1>2, <1>4
<1>6. users' \subseteq Account /\ \A u \in users' : LowerAddress[u.email] = u.email
  BY <1>1, <1>3 DEF AccountsInv, AccountsTypeOK, AddressesAreLower
<1>. QED
  BY <1>1, <1>5, <1>6 DEF UsersStep

LEMMA SameIsUsersStep ==
  ASSUME AccountsInv, UNCHANGED users
  PROVE  UsersStep
BY DEF AccountsInv, AccountsTypeOK, AddressesAreLower, UsersStep

LEMMA RepliesAlone ==
  ASSUME AccountsInv, NEW a \in AuthRequest, NEW from \in AuthInFlight, NEW code, NEW token,
         Reply(a, from, code, token), UNCHANGED <<form, account, grant, earlier>>,
         users \subseteq users'
  PROVE  /\ AuthAlone(a) /\ stage[a] = from /\ stage'[a] = "answered"
         /\ reply'[a].code = code /\ reply'[a].token = token
<1>1. stage[a] = from /\ stage' = [stage EXCEPT ![a] = "answered"]
      /\ reply' = [reply EXCEPT ![a] = [code |-> code, token |-> token]]
  BY DEF Reply, Goes
<1>. QED
  BY <1>1 DEF AuthAlone, AccountsInv, AccountsTypeOK

LEMMA GoesAlone ==
  ASSUME AccountsInv, NEW a \in AuthRequest, NEW from \in AuthInFlight, NEW to,
         Goes(a, from, to), UNCHANGED <<form, earlier, reply>>, users \subseteq users',
         UNCHANGED account \/ \E u : account' = [account EXCEPT ![a] = u],
         UNCHANGED grant \/ \E m : grant' = [grant EXCEPT ![a] = m]
  PROVE  AuthAlone(a) /\ stage[a] = from /\ stage'[a] = to
<1>1. stage[a] = from /\ stage' = [stage EXCEPT ![a] = to]
  BY DEF Goes
<1>2. \A b \in AuthRequest : b # a => account'[b] = account[b] /\ grant'[b] = grant[b]
  BY DEF AccountsInv, AccountsTypeOK
<1>. QED
  BY <1>1, <1>2 DEF AuthAlone, AccountsInv, AccountsTypeOK

LEMMA EveryAuthStep ==
  ASSUME AccountsInv, NEW a \in AuthRequest,
         \/ Signup(a) \/ SignupEnds(a) \/ FindUser(a) \/ AskTenantService(a)
         \/ TenantServiceFails(a) \/ MintToken(a) \/ AuthDatabaseFails(a)
  PROVE  AuthStep(a) /\ UsersStep
<1>. USE DEF AuthInFlight
<1>1. CASE Signup(a)
  <2>0. stage[a] = "sent" /\ form[a].op = "signup" /\ UNCHANGED <<form, account, grant, earlier>>
    BY <1>1 DEF Signup
  <2>1. CASE Registered(a)
    <3>1. Reply(a, "sent", 409, None) /\ UNCHANGED users
      BY <1>1, <2>1 DEF Signup
    <3>. QED
      BY <2>0, <3>1, RepliesAlone, SameIsUsersStep DEF AuthStep, ReplyIsDue
  <2>2. CASE ~ Registered(a)
    <3>1. InsertUser(a) /\ Goes(a, "sent", "committed") /\ UNCHANGED reply
      BY <1>1, <2>2 DEF Signup
    <3>2. UsersStep /\ \E u \in users' : u.email = AddressOf(a) /\ u.password = form[a].password
      BY <2>0, <2>2, <3>1, InsertIsUsersStep
    <3>3. AuthAlone(a) /\ stage'[a] = "committed"
      BY <2>0, <3>1, <3>2, GoesAlone DEF UsersStep
    <3>. QED
      BY <2>0, <3>2, <3>3 DEF AuthStep, PlaceIsDue
  <2>. QED
    BY <2>1, <2>2
<1>2. CASE SignupEnds(a)
  BY <1>2, RepliesAlone, SameIsUsersStep DEF SignupEnds, AuthStep, ReplyIsDue
<1>3. CASE FindUser(a)
  <2>. DEFINE found == {u \in users : u.email = AddressOf(a) /\ u.password = form[a].password}
  <2>0. /\ stage[a] = "sent" /\ form[a].op = "login"
        /\ UNCHANGED <<users, form, grant, earlier>>
    BY <1>3 DEF FindUser
  <2>1. CASE found = {} /\ Reply(a, "sent", 401, None) /\ UNCHANGED account
    <3>1. \A u \in users : ~ IsUserOf(u, a)
      BY <2>1 DEF IsUserOf
    <3>. QED
      BY <2>0, <2>1, <3>1, RepliesAlone, SameIsUsersStep DEF AuthStep, ReplyIsDue
  <2>2. ASSUME NEW u \in found,
               Goes(a, "sent", IF form[a].slug = None THEN "minting" ELSE "asking"),
               account' = [account EXCEPT ![a] = u], UNCHANGED reply
        PROVE  AuthStep(a) /\ UsersStep
    <3>1. AuthAlone(a) /\ stage'[a] = IF form[a].slug = None THEN "minting" ELSE "asking"
      BY <2>0, <2>2, GoesAlone
    <3>2. account'[a] = u /\ IsUserOf(u, a)
      BY <2>2 DEF IsUserOf, AccountsInv, AccountsTypeOK
    <3>. QED
      BY <2>0, <3>1, <3>2, SameIsUsersStep DEF AuthStep, PlaceIsDue
  <2>. QED
    BY <1>3, <2>1, <2>2 DEF FindUser
<1>4. CASE AskTenantService(a)
  <2>0. stage[a] = "asking" /\ UNCHANGED <<users, form, account, earlier>>
    BY <1>4 DEF AskTenantService
  <2>1. CASE /\ MembershipsOf(account[a].id, form[a].slug) = {}
             /\ Reply(a, "asking", 403, None) /\ UNCHANGED grant
    BY <2>0, <2>1, RepliesAlone, SameIsUsersStep DEF AuthStep, ReplyIsDue
  <2>2. ASSUME NEW m \in MembershipsOf(account[a].id, form[a].slug),
               Goes(a, "asking", "minting"), grant' = [grant EXCEPT ![a] = m], UNCHANGED reply
        PROVE  AuthStep(a) /\ UsersStep
    <3>1. AuthAlone(a) /\ stage'[a] = "minting"
      BY <2>0, <2>2, GoesAlone
    <3>2. grant'[a] = m /\ account'[a] = account[a]
      BY <2>0, <2>2 DEF AccountsInv, AccountsTypeOK
    <3>. QED
      BY <2>0, <3>1, <3>2, SameIsUsersStep DEF AuthStep, PlaceIsDue
  <2>. QED
    BY <1>4, <2>1, <2>2 DEF AskTenantService
<1>5. CASE TenantServiceFails(a)
  BY <1>5, RepliesAlone, SameIsUsersStep DEF TenantServiceFails, AuthStep, ReplyIsDue
<1>6. CASE MintToken(a)
  BY <1>6, RepliesAlone, SameIsUsersStep DEF MintToken, AuthStep, ReplyIsDue
<1>7. CASE AuthDatabaseFails(a)
  <2>1. PICK from \in {"sent", "committed"} : Reply(a, from, 500, None)
    BY <1>7 DEF AuthDatabaseFails
  <2>2. UNCHANGED <<form, account, grant, earlier>> /\ faults' = faults + 1
    BY <1>7 DEF AuthDatabaseFails
  <2>3. UsersStep
    BY <1>7, SameIsUsersStep, InsertIsUsersStep DEF AuthDatabaseFails
  <2>4. AuthAlone(a) /\ stage'[a] = "answered" /\ reply'[a].code = 500 /\ reply'[a].token = None
    BY <2>1, <2>2, <2>3, RepliesAlone DEF UsersStep
  <2>. QED
    BY <2>2, <2>3, <2>4 DEF AuthStep, ReplyIsDue
<1>. QED
  BY <1>1, <1>2, <1>3, <1>4, <1>5, <1>6, <1>7

-----------------------------------------------------------------------------
(* What any step of the workspace may do to auth-service's history.        *)
AuthHistory ==
  /\ UsersStep
  /\ \A a \in AuthRequest :
       /\ stage[a] # "new" =>
            stage'[a] # "new" /\ form'[a] = form[a] /\ earlier'[a] = earlier[a]
       /\ stage[a] = "answered" => stage'[a] = "answered"
       /\ stage[a] = "answered" \/ stage'[a] # "answered" => reply'[a] = reply[a]
       /\ stage[a] # "answered" /\ stage'[a] = "answered" => ReplyIsDue(a)
       /\ stage[a] = "new" =>
            \/ stage'[a] = "new" /\ earlier'[a] = earlier[a]
            \/ /\ stage'[a] = "sent" /\ form'[a] \in Forms
               /\ earlier'[a] = {b \in AuthRequest : stage[b] = "answered"}
                                \cup {r \in Request : pc[r] = "answered"}
       /\ stage'[a] \in {"committed", "asking", "minting"} =>
            \/ stage'[a] = stage[a] /\ account'[a] = account[a] /\ grant'[a] = grant[a]
            \/ PlaceIsDue(a)

LEMMA AuthStepIsHistory ==
  ASSUME AccountsInv, NEW a \in AuthRequest, AuthStep(a), UsersStep
  PROVE  AuthHistory
<1>1. ASSUME NEW b \in AuthRequest, b # a
      PROVE  /\ stage'[b] = stage[b] /\ form'[b] = form[b] /\ earlier'[b] = earlier[b]
             /\ reply'[b] = reply[b] /\ account'[b] = account[b] /\ grant'[b] = grant[b]
  BY <1>1 DEF AuthStep, AuthAlone
<1>2. /\ stage[a] \in AuthInFlight /\ form'[a] = form[a] /\ earlier'[a] = earlier[a]
      /\ stage'[a] # "answered" => reply'[a] = reply[a] /\ PlaceIsDue(a)
      /\ stage'[a] = "answered" => ReplyIsDue(a)
      /\ stage'[a] # "new"
  BY DEF AuthStep, AuthAlone, PlaceIsDue
<1>. QED
  BY <1>1, <1>2 DEF AuthHistory, AuthInFlight

LEMMA SendFormIsHistory ==
  ASSUME AccountsInv, NEW a \in AuthRequest, SendForm(a)
  PROVE  AuthHistory
<1>1. /\ stage[a] = "new" /\ stage' = [stage EXCEPT ![a] = "sent"]
      /\ UNCHANGED <<users, account, grant, reply>>
  BY DEF SendForm, Goes
<1>2. /\ form'[a] \in Forms
      /\ \A b \in AuthRequest : b # a => form'[b] = form[b] /\ earlier'[b] = earlier[b]
  BY DEF SendForm, AccountsInv, AccountsTypeOK
<1>3. earlier'[a] = {b \in AuthRequest : stage[b] = "answered"}
                    \cup {r \in Request : pc[r] = "answered"}
  BY DEF SendForm, AccountsInv, AccountsTypeOK
<1>4. \A b \in AuthRequest : stage'[b] = IF b = a THEN "sent" ELSE stage[b]
  BY <1>1 DEF AccountsInv, AccountsTypeOK
<1>. QED
  BY <1>1, <1>2, <1>3, <1>4, SameIsUsersStep DEF AuthHistory

LEMMA AuthCrashIsHistory ==
  ASSUME AccountsInv, AuthCrash
  PROVE  AuthHistory
<1>1. /\ UNCHANGED <<users, form, account, grant, reply, earlier>>
      /\ \A a \in AuthRequest :
           stage'[a] = IF stage[a] \in AuthInFlight THEN "lost" ELSE stage[a]
  BY DEF AuthCrash
<1>. QED
  BY <1>1, SameIsUsersStep DEF AuthHistory, AuthInFlight

LEMMA RestIsAuthHistory ==
  ASSUME AccountsInv, UNCHANGED accountsVars
  PROVE  AuthHistory
BY SameIsUsersStep DEF accountsVars, AuthHistory

-----------------------------------------------------------------------------
(* Types. *)
LEMMA ClaimTypes ==
  ASSUME TenancySide, AccountsInv, NEW a \in AuthRequest, stage[a] = "minting"
  PROVE  Claims(a) \in Token
<1>1. account[a] \in Account /\ account[a].id \in User
  BY DEF AccountsInv, LoginsAreRight, IsUserOf, AccountsTypeOK, Account
<1>2. form[a].slug # None => grant[a] \in Membership
  BY DEF AccountsInv, LoginsAreRight, MembershipsOf, TenancySide, TenancyInv, TenancyTypeOK
<1>. QED
  BY <1>1, <1>2 DEF Claims, Token, Membership

StageTyped == stage \in [AuthRequest -> {"new", "answered", "lost"} \cup AuthInFlight]

ReplyTyped == reply \in [AuthRequest -> [code : {0, 200, 201, 401, 403, 409, 500, 502, 503},
                                        token : Token \cup {None}]]

LEMMA ReplyTypes ==
  ASSUME AccountsTypeOK, NEW a \in AuthRequest, NEW from,
         NEW code \in {200, 201, 401, 403, 409, 500, 502, 503}, NEW token \in Token \cup {None},
         Reply(a, from, code, token)
  PROVE  StageTyped' /\ ReplyTyped'
BY DEF AccountsTypeOK, Reply, Goes, StageTyped, ReplyTyped

LEMMA AccountsTypeKept ==
  ASSUME TenancySide, AccountsInv, UsersStep, AccountsNext
  PROVE  AccountsTypeOK'
<1>r. ASSUME NEW a \in AuthRequest, NEW from, NEW token \in Token \cup {None},
             NEW code \in {200, 201, 401, 403, 409, 500, 502, 503}, Reply(a, from, code, token)
      PROVE  StageTyped' /\ ReplyTyped'
  BY <1>r, ReplyTypes DEF AccountsInv
<1>t. ASSUME NEW a \in AuthRequest, NEW from, Reply(a, from, 409, None)
                \/ Reply(a, from, 201, None) \/ Reply(a, from, 401, None)
                \/ Reply(a, from, 403, None) \/ Reply(a, from, 500, None)
                \/ Reply(a, from, 502, None) \/ Reply(a, from, 503, None)
      PROVE  StageTyped' /\ ReplyTyped'
  <2>1. None \in Token \cup {None}
    OBVIOUS
  <2>. QED
    BY <1>r, <1>t, <2>1
<1>. USE DEF AccountsInv, AccountsTypeOK
<1>1. users' \subseteq Account /\ \A u, v \in users' : u.id = v.id \/ u.email = v.email => u = v
  BY DEF UsersStep
<1>. DEFINE FormOK == form' \in [AuthRequest -> Forms \cup {None}]
            AccountOK == account' \in [AuthRequest -> Account \cup {None}]
            GrantOK == grant' \in [AuthRequest -> Membership \cup {None}]
            EarlierOK == earlier' \in [AuthRequest -> SUBSET (AuthRequest \cup Request)]
<1>2. StageTyped' /\ ReplyTyped' /\ FormOK /\ AccountOK /\ GrantOK /\ EarlierOK => AccountsTypeOK'
  BY <1>1 DEF StageTyped, ReplyTyped
<1>u. UNCHANGED reply => ReplyTyped'
  BY DEF ReplyTyped
<1>3. ASSUME NEW a \in AuthRequest, SendForm(a) PROVE AccountsTypeOK'
  <2>1. UNCHANGED <<account, grant, reply>> /\ FormOK /\ EarlierOK
    BY <1>3 DEF SendForm
  <2>2. StageTyped'
    BY <1>3 DEF StageTyped, SendForm, Goes, AuthInFlight
  <2>. QED
    BY <1>2, <1>u, <2>1, <2>2
<1>4. ASSUME NEW a \in AuthRequest, Signup(a) PROVE AccountsTypeOK'
  <2>1. UNCHANGED <<form, account, grant, earlier>>
    BY <1>4 DEF Signup
  <2>2. CASE Reply(a, "sent", 409, None)
    BY <1>2, <1>u, <2>1, <2>2, <1>t
  <2>3. CASE Goes(a, "sent", "committed") /\ UNCHANGED reply
    BY <1>2, <1>u, <2>1, <2>3 DEF StageTyped, Goes, AuthInFlight
  <2>. QED
    BY <1>4, <2>2, <2>3 DEF Signup
<1>5. ASSUME NEW a \in AuthRequest, SignupEnds(a) PROVE AccountsTypeOK'
  BY <1>2, <1>u, <1>5, <1>t DEF SignupEnds
<1>6. ASSUME NEW a \in AuthRequest, FindUser(a) PROVE AccountsTypeOK'
  <2>1. UNCHANGED <<form, grant, earlier>>
    BY <1>6 DEF FindUser
  <2>2. CASE Reply(a, "sent", 401, None) /\ UNCHANGED account
    BY <1>2, <1>u, <2>1, <2>2, <1>t
  <2>3. ASSUME NEW u \in users, account' = [account EXCEPT ![a] = u], UNCHANGED reply,
               Goes(a, "sent", IF form[a].slug = None THEN "minting" ELSE "asking")
        PROVE  AccountsTypeOK'
    <3>1. AccountOK
      BY <2>3
    <3>2. StageTyped'
      BY <2>3 DEF StageTyped, Goes, AuthInFlight
    <3>. QED
      BY <1>2, <1>u, <2>1, <2>3, <3>1, <3>2
  <2>. QED
    BY <1>6, <2>2, <2>3 DEF FindUser
<1>7. ASSUME NEW a \in AuthRequest, AskTenantService(a) PROVE AccountsTypeOK'
  <2>1. UNCHANGED <<form, account, earlier>>
    BY <1>7 DEF AskTenantService
  <2>2. CASE Reply(a, "asking", 403, None) /\ UNCHANGED grant
    BY <1>2, <1>u, <2>1, <2>2, <1>t
  <2>3. ASSUME NEW m \in members, grant' = [grant EXCEPT ![a] = m], UNCHANGED reply,
               Goes(a, "asking", "minting")
        PROVE  AccountsTypeOK'
    <3>1. GrantOK
      BY <2>3 DEF TenancySide, TenancyInv, TenancyTypeOK
    <3>2. StageTyped'
      BY <2>3 DEF StageTyped, Goes, AuthInFlight
    <3>. QED
      BY <1>2, <1>u, <2>1, <2>3, <3>1, <3>2
  <2>. QED
    BY <1>7, <2>2, <2>3 DEF AskTenantService, MembershipsOf
<1>8. ASSUME NEW a \in AuthRequest, TenantServiceFails(a) PROVE AccountsTypeOK'
  BY <1>2, <1>u, <1>8, <1>t DEF TenantServiceFails
<1>9. ASSUME NEW a \in AuthRequest, MintToken(a) PROVE AccountsTypeOK'
  <2>1. Claims(a) \in Token
    BY <1>9, ClaimTypes DEF MintToken, Reply, Goes
  <2>. QED
    BY <1>2, <1>u, <1>9, <2>1, <1>r DEF MintToken
<1>10. ASSUME NEW a \in AuthRequest, AuthDatabaseFails(a) PROVE AccountsTypeOK'
  BY <1>2, <1>u, <1>10, <1>t DEF AuthDatabaseFails
<1>11. ASSUME AuthCrash PROVE AccountsTypeOK'
  <2>1. UNCHANGED <<form, account, grant, reply, earlier>>
    BY <1>11 DEF AuthCrash
  <2>2. StageTyped'
    BY <1>11 DEF StageTyped, AuthCrash
  <2>. QED
    BY <1>2, <1>u, <2>1, <2>2
<1>. QED
  BY <1>3, <1>4, <1>5, <1>6, <1>7, <1>8, <1>9, <1>10, <1>11 DEF AccountsNext

-----------------------------------------------------------------------------
(* Each conjunct of the invariant in turn, from the history of a step.     *)
LEMMA UserStays ==
  ASSUME AccountsInv, AuthHistory, NEW a \in AuthRequest, stage[a] # "new"
  PROVE  /\ AddressOf(a)' = AddressOf(a)
         /\ \A u : IsUserOf(u, a) => IsUserOf(u, a)'
         /\ \A u \in users' : u.email = AddressOf(a) /\ u.password = form[a].password
                              => IsUserOf(u, a)'
<1>1. form'[a] = form[a] /\ users \subseteq users'
  BY DEF AuthHistory, UsersStep
<1>. QED
  BY <1>1 DEF AddressOf, IsUserOf

LEMMA MembershipsStay ==
  ASSUME HistoryStep, NEW u, NEW s
  PROVE  MembershipsOf(u, s) \subseteq MembershipsOf(u, s)'
BY DEF HistoryStep, MembershipsOf

LEMMA LoginsStayRight ==
  ASSUME AccountsInv, HistoryStep, AuthHistory
  PROVE  LoginsAreRight'
<1>. SUFFICES ASSUME NEW a \in AuthRequest, stage'[a] \in {"asking", "minting"}
     PROVE  /\ form'[a].op = "login"
            /\ IsUserOf(account[a], a)'
            /\ stage'[a] = "asking" => form'[a].slug # None
            /\ stage'[a] = "minting" /\ form'[a].slug # None =>
                 grant'[a] \in MembershipsOf(account[a].id, form[a].slug)'
  BY DEF LoginsAreRight
<1>1. stage[a] # "new" /\ form'[a] = form[a]
  BY DEF AuthHistory
<1>2. PICK x : x = account'[a]
  OBVIOUS
<1>3. \A u : IsUserOf(u, a) => IsUserOf(u, a)'
  BY <1>1, UserStays
<1>4. CASE stage'[a] = stage[a] /\ account'[a] = account[a] /\ grant'[a] = grant[a]
  <2>1. /\ form[a].op = "login"
        /\ IsUserOf(x, a)
        /\ stage[a] = "asking" => form[a].slug # None
        /\ stage[a] = "minting" /\ form[a].slug # None =>
             grant[a] \in MembershipsOf(x.id, form[a].slug)
    BY <1>2, <1>4 DEF AccountsInv, LoginsAreRight
  <2>2. IsUserOf(account[a], a)'
    BY <1>2, <1>3, <2>1 DEF IsUserOf
  <2>3. PICK s : s = form'[a].slug
    OBVIOUS
  <2>4. MembershipsOf(x.id, s) \subseteq MembershipsOf(x.id, s)'
    BY MembershipsStay
  <2>5. MembershipsOf(account[a].id, form[a].slug)' = MembershipsOf(x.id, s)'
    BY <1>2, <2>3 DEF MembershipsOf
  <2>. QED
    BY <1>1, <1>4, <2>1, <2>2, <2>3, <2>4, <2>5
<1>5. CASE PlaceIsDue(a) /\ stage[a] = "sent"
  <2>1. /\ form[a].op = "login"
        /\ stage'[a] = "asking" <=> form[a].slug # None
        /\ IsUserOf(x, a)
    BY <1>2, <1>5 DEF PlaceIsDue
  <2>2. IsUserOf(account[a], a)'
    BY <1>2, <1>3, <2>1 DEF IsUserOf
  <2>. QED
    BY <1>1, <2>1, <2>2
<1>6. CASE PlaceIsDue(a) /\ stage[a] # "sent"
  <2>1. /\ stage[a] = "asking" /\ stage'[a] = "minting" /\ account'[a] = account[a]
        /\ grant'[a] \in MembershipsOf(x.id, form[a].slug)
    BY <1>2, <1>6 DEF PlaceIsDue
  <2>2. form[a].op = "login" /\ IsUserOf(x, a)
    BY <1>2, <2>1 DEF AccountsInv, LoginsAreRight
  <2>3. IsUserOf(account[a], a)'
    BY <1>2, <1>3, <2>2 DEF IsUserOf
  <2>4. PICK s : s = form'[a].slug
    OBVIOUS
  <2>5. MembershipsOf(x.id, s) \subseteq MembershipsOf(x.id, s)'
    BY MembershipsStay
  <2>6. MembershipsOf(account[a].id, form[a].slug)' = MembershipsOf(x.id, s)'
    BY <1>2, <2>4 DEF MembershipsOf
  <2>. QED
    BY <1>1, <2>1, <2>2, <2>3, <2>4, <2>5, <2>6
<1>. QED
  BY <1>4, <1>5, <1>6 DEF AuthHistory

LEMMA SignupsStayKept ==
  ASSUME AccountsInv, AuthHistory
  PROVE  SignupsAreKept'
<1>. SUFFICES ASSUME NEW a \in AuthRequest, stage'[a] = "committed" \/ reply'[a].code = 201
     PROVE  form'[a].op = "signup" /\ \E u \in users' : IsUserOf(u, a)'
  BY DEF SignupsAreKept
<1>1. stage[a] # "new"
  BY DEF AuthHistory, AccountsInv, RepliesAreGiven
<1>2. form'[a] = form[a] /\ \A u : IsUserOf(u, a) => IsUserOf(u, a)' /\ u \in users'
  BY <1>1, UserStays DEF AuthHistory, IsUserOf
<1>3. CASE stage[a] = "committed" \/ reply[a].code = 201
  BY <1>2, <1>3 DEF AccountsInv, SignupsAreKept
<1>4. CASE stage[a] # "committed" /\ reply[a].code # 201
  <2>1. stage'[a] = "committed"
    BY <1>4 DEF AuthHistory, ReplyIsDue
  <2>2. form[a].op = "signup"
        /\ \E u \in users' : u.email = AddressOf(a) /\ u.password = form[a].password
    BY <1>4, <2>1 DEF AuthHistory, PlaceIsDue
  <2>. QED
    BY <1>1, <1>2, <2>2, UserStays
<1>. QED
  BY <1>3, <1>4

LEMMA RepliesStayGiven ==
  ASSUME AccountsInv, HistoryStep, AuthHistory
  PROVE  RepliesAreGiven'
<1>1. ASSUME NEW a \in AuthRequest
      PROVE  /\ stage'[a] # "answered" => reply'[a].code = 0
             /\ reply'[a].token # None => reply'[a].code = 200
  <2>1. reply'[a] = reply[a] \/ ReplyIsDue(a)
    BY DEF AuthHistory
  <2>2. stage'[a] # "answered" => reply'[a] = reply[a] /\ stage[a] # "answered"
    BY DEF AuthHistory
  <2>. QED
    BY <2>1, <2>2 DEF ReplyIsDue, AccountsInv, RepliesAreGiven
<1>2. ASSUME NEW a \in AuthRequest, NEW b \in earlier'[a]
      PROVE  (b \in AuthRequest => stage'[b] = "answered") /\ (b \in Request => pc'[b] = "answered")
  <2>1. (b \in AuthRequest => stage[b] = "answered") /\ (b \in Request => pc[b] = "answered")
    <3>1. CASE b \in earlier[a]
      BY <3>1 DEF AccountsInv, RepliesAreGiven
    <3>2. CASE b \notin earlier[a]
      <4>1. b \in {c \in AuthRequest : stage[c] = "answered"}
                   \cup {r \in Request : pc[r] = "answered"}
        BY <1>2, <3>2 DEF AuthHistory
      <4>. QED
        BY <4>1, AccountsAssumption
    <3>. QED
      BY <3>1, <3>2
  <2>. QED
    BY <2>1 DEF AuthHistory, HistoryStep
<1>. QED
  BY <1>1, <1>2 DEF RepliesAreGiven

LEMMA TokensStillTellTheTruth ==
  ASSUME TenancySide, AccountsInv, HistoryStep, AuthHistory
  PROVE  TokenTellsTheTruth'
<1>. SUFFICES ASSUME NEW a \in AuthRequest, reply'[a].code = 200
     PROVE  /\ \E u \in users' : u.id = reply'[a].token.user /\ ComesBack(u, a)'
            /\ form'[a].slug = None => reply'[a].token.tenant = None /\ reply'[a].token.role = None
            /\ form'[a].slug # None =>
                 /\ \E m \in members' : /\ m.tenant = reply'[a].token.tenant
                                         /\ m.user = reply'[a].token.user
                                         /\ m.role = reply'[a].token.role
                 /\ \E t \in tenants' : t.id = reply'[a].token.tenant /\ t.slug = form'[a].slug
  BY DEF TokenTellsTheTruth
<1>1. stage[a] # "new" /\ form'[a] = form[a] /\ users \subseteq users'
      /\ members \subseteq members' /\ tenants \subseteq tenants'
  BY DEF AuthHistory, HistoryStep, UsersStep, AccountsInv, RepliesAreGiven
<1>2. \A u : ComesBack(u, a) <=> ComesBack(u, a)'
  BY <1>1 DEF ComesBack
<1>3. CASE reply'[a] = reply[a]
  BY <1>1, <1>2, <1>3 DEF AccountsInv, TokenTellsTheTruth
<1>4. CASE reply'[a] # reply[a]
  <2>1. reply'[a].token = Claims(a) /\ stage[a] = "minting"
    BY <1>4 DEF AuthHistory, ReplyIsDue
  <2>2. /\ form[a].op = "login" /\ IsUserOf(account[a], a)
        /\ form[a].slug # None => grant[a] \in MembershipsOf(account[a].id, form[a].slug)
    BY <2>1 DEF AccountsInv, LoginsAreRight
  <2>3. ComesBack(account[a], a)
    <3>1. LowerAddress[AddressOf(a)] = AddressOf(a)
      BY <1>1, FormTypes
    <3>. QED
      BY <2>2, <3>1 DEF IsUserOf, ComesBack, AddressOf
  <2>4. account[a] \in users /\ reply'[a].token.user = account[a].id
    BY <2>1, <2>2 DEF IsUserOf, Claims
  <2>5. form[a].slug = None => reply'[a].token.tenant = None /\ reply'[a].token.role = None
    BY <2>1 DEF Claims
  <2>6. ASSUME form[a].slug # None
        PROVE  /\ \E m \in members : /\ m.tenant = reply'[a].token.tenant
                                      /\ m.user = reply'[a].token.user
                                      /\ m.role = reply'[a].token.role
               /\ \E t \in tenants : t.id = reply'[a].token.tenant /\ t.slug = form[a].slug
    <3>1. grant[a] \in members /\ grant[a].user = account[a].id
          /\ \E t \in tenants : t.id = grant[a].tenant /\ t.slug = form[a].slug
      BY <2>2, <2>6 DEF MembershipsOf
    <3>2. reply'[a].token.tenant = grant[a].tenant /\ reply'[a].token.role = grant[a].role
      BY <2>1, <2>6 DEF Claims
    <3>. QED
      BY <2>4, <3>1, <3>2
  <2>. QED
    BY <1>1, <1>2, <2>3, <2>4, <2>5, <2>6
<1>. QED
  BY <1>3, <1>4

(* The user of a new call of tenant-service is that of a token. *)
AskersStep ==
  \A r \in Request : pc[r] = "new" /\ pc'[r] # "new" => \E k \in Tokens : call'[r].user = k.user

LEMMA TokenHasUser ==
  ASSUME AccountsInv, NEW k \in Tokens
  PROVE  \E u \in users : u.id = k.user
<1>1. PICK a \in AuthRequest : k = reply[a].token /\ k # None
  BY DEF Tokens
<1>2. reply[a].code = 200
  BY <1>1 DEF AccountsInv, RepliesAreGiven
<1>. QED
  BY <1>1, <1>2 DEF AccountsInv, TokenTellsTheTruth

LEMMA AskersStillHaveAccounts ==
  ASSUME AccountsInv, HistoryStep, AuthHistory, AskersStep
  PROVE  AskersHaveAccounts'
<1>. SUFFICES ASSUME NEW r \in Request, pc'[r] # "new"
     PROVE  \E u \in users' : u.id = call'[r].user
  BY DEF AskersHaveAccounts
<1>1. users \subseteq users'
  BY DEF AuthHistory, UsersStep
<1>2. CASE pc[r] = "new"
  BY <1>1, <1>2, TokenHasUser DEF AskersStep
<1>3. CASE pc[r] # "new"
  BY <1>1, <1>3 DEF HistoryStep, AccountsInv, AskersHaveAccounts
<1>. QED
  BY <1>2, <1>3

(* What a login may rely on at the moment it is answered. *)
LEMMA SignedUpIsFound ==
  ASSUME AccountsInv, NEW a \in AuthRequest, stage[a] # "new", NEW u \in users, ComesBack(u, a)
  PROVE  IsUserOf(u, a)
<1>1. LowerAddress[u.email] = u.email
  BY DEF AccountsInv, AddressesAreLower
<1>. QED
  BY <1>1 DEF ComesBack, IsUserOf, AddressOf

LEMMA OwnerIsFound ==
  ASSUME TenancySide, NEW c \in Request, call[c].op = "create", answer[c].code = 201
  PROVE  /\ MembershipsOf(call[c].user, SlugOf(c)) # {}
         /\ \A m \in MembershipsOf(call[c].user, SlugOf(c)) : m.role = "owner"
<1>. USE DEF TenancySide
<1>1. PICK t \in tenants : t.by = c /\ t.slug = SlugOf(c)
  BY DEF AnswersInv, CommitsAreOwn
<1>. DEFINE own == [tenant |-> t.id, user |-> call[c].user, role |-> "owner", by |-> t.by]
<1>2. own \in members /\ \A s \in tenants : s.slug = t.slug => s = t
  BY <1>1 DEF TenancyInv, EveryTenantIsOwned
<1>3. own \in MembershipsOf(call[c].user, SlugOf(c))
  BY <1>1, <1>2 DEF MembershipsOf
<1>4. ASSUME NEW m \in MembershipsOf(call[c].user, SlugOf(c)) PROVE m.role = "owner"
  <2>1. m \in members /\ m.user = own.user /\ m.tenant = own.tenant
    BY <1>1, <1>2, <1>4 DEF MembershipsOf
  <2>. QED
    BY <1>2, <2>1 DEF MembersAreUnique
<1>. QED
  BY <1>3, <1>4

LEMMA StillNobodyIsLockedOut ==
  ASSUME TenancySide, AccountsInv, HistoryStep, AuthHistory, faults \in Nat, faults' >= faults,
         faults' \in Nat
  PROVE  NobodyIsLockedOut'
<1>. SUFFICES ASSUME NEW a \in AuthRequest, stage'[a] = "answered"
     PROVE  /\ \A s \in earlier'[a] \cap AuthRequest :
                 /\ form'[s].op = "signup" /\ reply'[s].code = 201
                 /\ ComesBack(form[s], a)'
                 => reply'[a].code # 401
            /\ \A c \in earlier'[a] \cap Request :
                 /\ call'[c].op = "create" /\ answer'[c].code = 201
                 /\ \E u \in users' : u.id = call'[c].user /\ ComesBack(u, a)'
                 /\ form'[a].slug = Lower[call'[c].slug]
                 => \/ reply'[a].code = 200 /\ reply'[a].token.role = "owner"
                    \/ reply'[a].code >= 500 /\ faults' > 0
  BY DEF NobodyIsLockedOut
<1>1. stage[a] # "new" /\ form'[a] = form[a] /\ earlier'[a] = earlier[a]
  BY DEF AuthHistory
<1>2. \A u : ComesBack(u, a) <=> ComesBack(u, a)'
  BY <1>1 DEF ComesBack
<1>3. ASSUME NEW s \in earlier[a] \cap AuthRequest, form'[s].op = "signup", reply'[s].code = 201,
             ComesBack(form[s], a)'
      PROVE  reply'[a].code # 401
  <2>1. stage[s] = "answered"
    BY <1>3 DEF AccountsInv, RepliesAreGiven
  <2>2. form'[s] = form[s] /\ reply'[s] = reply[s]
    BY <2>1 DEF AuthHistory
  <2>3. ComesBack(form[s], a)
    BY <1>1, <1>3, <2>2 DEF ComesBack
  <2>4. CASE stage[a] = "answered"
    <3>1. reply'[a] = reply[a]
      BY <2>4 DEF AuthHistory
    <3>. QED
      BY <1>3, <2>2, <2>3, <2>4, <3>1 DEF AccountsInv, NobodyIsLockedOut
  <2>5. CASE stage[a] # "answered"
    <3>1. PICK u \in users : IsUserOf(u, s)
      BY <1>3, <2>2 DEF AccountsInv, SignupsAreKept
    <3>2. LowerAddress[u.email] = u.email
      BY DEF AccountsInv, AddressesAreLower
    <3>3. ComesBack(u, a)
      BY <2>3, <3>1, <3>2 DEF IsUserOf, ComesBack, AddressOf
    <3>4. IsUserOf(u, a)
      BY <1>1, <3>3, SignedUpIsFound
    <3>. QED
      BY <2>5, <3>4 DEF AuthHistory, ReplyIsDue
  <2>. QED
    BY <2>4, <2>5
<1>4. ASSUME NEW c \in earlier[a] \cap Request, call'[c].op = "create", answer'[c].code = 201,
             NEW u \in users', u.id = call'[c].user, ComesBack(u, a)',
             form'[a].slug = Lower[call'[c].slug]
      PROVE  \/ reply'[a].code = 200 /\ reply'[a].token.role = "owner"
             \/ reply'[a].code >= 500 /\ faults' > 0
  <2>1. pc[c] = "answered"
    BY <1>4 DEF AccountsInv, RepliesAreGiven
  <2>2. call'[c] = call[c] /\ answer'[c] = answer[c]
    BY <2>1 DEF HistoryStep
  <2>3. u \in users /\ ComesBack(u, a)
    <3>1. PICK v \in users : v.id = call[c].user
      BY <2>1 DEF AccountsInv, AskersHaveAccounts
    <3>2. u = v
      BY <1>4, <2>2, <3>1 DEF AuthHistory, UsersStep
    <3>. QED
      BY <1>2, <1>4, <3>2
  <2>4. CASE stage[a] = "answered"
    <3>1. reply'[a] = reply[a]
      BY <2>4 DEF AuthHistory
    <3>2. \/ reply[a].code = 200 /\ reply[a].token.role = "owner"
          \/ reply[a].code >= 500 /\ faults > 0
      BY <1>1, <1>4, <2>2, <2>3, <2>4 DEF AccountsInv, NobodyIsLockedOut
    <3>. QED
      BY <3>1, <3>2
  <2>5. CASE stage[a] # "answered"
    <3>1. IsUserOf(u, a) /\ form[a].op = "login" /\ form[a].slug = SlugOf(c)
      BY <1>1, <1>4, <2>2, <2>3, SignedUpIsFound DEF ComesBack, SlugOf
    <3>2. /\ MembershipsOf(u.id, form[a].slug) # {}
          /\ \A m \in MembershipsOf(u.id, form[a].slug) : m.role = "owner"
      BY <1>4, <2>2, <3>1, OwnerIsFound
    <3>3. ReplyIsDue(a)
      BY <2>5 DEF AuthHistory
    <3>4. stage[a] \in {"asking", "minting"} => account[a] = u
      BY <3>1 DEF AccountsInv, LoginsAreRight, IsUserOf, AccountsTypeOK
    <3>5. form[a].slug # None
      BY <1>4, <2>1, <2>2, <3>1, CallTypes, TenancyAssumption DEF TenancySide
    <3>6. CASE reply'[a].token = Claims(a) /\ stage[a] = "minting" /\ reply'[a].code = 200
      <4>1. grant[a] \in MembershipsOf(u.id, form[a].slug)
        BY <3>4, <3>5, <3>6 DEF AccountsInv, LoginsAreRight
      <4>. QED
        BY <3>2, <3>5, <3>6, <4>1 DEF Claims
    <3>7. CASE reply'[a].code \in {500, 502, 503} /\ faults' = faults + 1
      BY <3>7
    <3>8. stage[a] # "committed"
      BY <3>1 DEF AccountsInv, SignupsAreKept
    <3>. QED
      BY <2>3, <3>1, <3>2, <3>3, <3>4, <3>6, <3>7, <3>8 DEF ReplyIsDue
  <2>. QED
    BY <2>4, <2>5
<1>. QED
  BY <1>1, <1>3, <1>4

LEMMA AccountsInvInit == ASSUME TenancyInit, AccountsInit PROVE AccountsInv
<1>. USE DEF TenancyInit, AccountsInit
<1>1. AccountsTypeOK /\ AddressesAreLower
  BY AccountsAssumption DEF AccountsTypeOK, AddressesAreLower
<1>2. FormsAreSent /\ LoginsAreRight /\ SignupsAreKept /\ RepliesAreGiven /\ AskersHaveAccounts
  BY DEF FormsAreSent, LoginsAreRight, SignupsAreKept, RepliesAreGiven, AskersHaveAccounts
<1>3. TokenTellsTheTruth /\ NobodyIsLockedOut
  BY DEF TokenTellsTheTruth, NobodyIsLockedOut
<1>. QED
  BY <1>1, <1>2, <1>3 DEF AccountsInv

LEMMA AccountsInvKept ==
  ASSUME TenancySide, AccountsInv, HistoryStep, AuthHistory, AskersStep, AccountsTypeOK',
         faults' >= faults, faults' \in Nat
  PROVE  AccountsInv'
<1>1. faults \in Nat
  BY TenancyAssumption DEF TenancySide, TenancyInv, TenancyTypeOK
<1>2. AddressesAreLower'
  BY DEF AuthHistory, UsersStep, AddressesAreLower
<1>3. FormsAreSent'
  BY DEF AuthHistory, FormsAreSent, AccountsInv
<1>. QED
  BY <1>1, <1>2, <1>3, LoginsStayRight, SignupsStayKept, RepliesStayGiven,
     AskersStillHaveAccounts, TokensStillTellTheTruth, StillNobodyIsLockedOut DEF AccountsInv

-----------------------------------------------------------------------------
(* Projects-service.  What a step of one request is, apart from its        *)
(* sending.                                                                *)
ProjectAlone(r) ==
  /\ progress[r] \in P!InFlight
  /\ asked' = asked /\ since' = since
  /\ progress'[r] # "answered" => result'[r] = result[r]
  /\ \A b \in ProjectRequest : b # r => progress'[b] = progress[b] /\ result'[b] = result[b]

(* What stands behind its answer, *)
ResultIsDue(r) ==
  \/ result'[r].code \in {403, 500} /\ result'[r].shown = {}
  \/ result'[r].code = 409 /\ result'[r].shown = {}
     /\ progress[r] = "sent" /\ P!KeyTaken(r)
  \/ result'[r].code \in {201, 500} /\ progress[r] = "committed"
     /\ result'[r].shown = {p \in projects : p.by = r}
  \/ result'[r].code = 200 /\ asked[r].op \in {"list", "get"}
     /\ result'[r].shown \subseteq P!OfTenant(r)
  \/ result'[r].code = 404 /\ result'[r].shown = {}
     /\ progress[r] = "sent" /\ P!Found(r) = {}
  \/ result'[r].code = 204 /\ result'[r].shown = {}
     /\ progress[r] = "found" /\ projects' = projects \ P!Found(r)

(* behind its being somewhere else, *)
ProgressIsDue(r) ==
  /\ progress[r] = "sent"
  /\ \/ progress'[r] = "committed"
     \/ progress'[r] = "found" /\ asked[r].op = "delete" /\ P!Found(r) # {}

(* and behind what it does to the table.                                   *)
RowsStep(r) ==
  \/ UNCHANGED <<projects, born>>
  \/ /\ progress[r] = "sent" /\ progress'[r] \in {"committed", "answered"}
     /\ asked[r].op = "create" /\ asked[r].tenant # None
     /\ ~ P!KeyTaken(r) /\ P!Insert(r)
  \/ /\ progress[r] = "found" /\ progress'[r] = "answered"
     /\ projects' = projects \ P!Found(r) /\ UNCHANGED born

ProjectStep(r) ==
  /\ ProjectAlone(r)
  /\ IF progress'[r] = "answered" THEN ResultIsDue(r) ELSE ProgressIsDue(r)
  /\ RowsStep(r)

LEMMA RespondsProjectAlone ==
  ASSUME ProjectsInv, NEW r \in ProjectRequest, NEW from \in P!InFlight, NEW code, NEW shown,
         P!Respond(r, from, code, shown), UNCHANGED <<asked, since>>
  PROVE  /\ ProjectAlone(r) /\ progress[r] = from /\ progress'[r] = "answered"
         /\ result'[r].code = code /\ result'[r].shown = shown
<1>1. progress[r] = from /\ progress' = [progress EXCEPT ![r] = "answered"]
      /\ result' = [result EXCEPT ![r] = [code |-> code, shown |-> shown]]
  BY DEF P!Respond, P!Step
<1>. QED
  BY <1>1 DEF ProjectAlone, ProjectsInv, P!TypeOK

LEMMA StepsProjectAlone ==
  ASSUME ProjectsInv, NEW r \in ProjectRequest, NEW from \in P!InFlight, NEW to,
         P!Step(r, from, to), UNCHANGED <<asked, since, result>>
  PROVE  ProjectAlone(r) /\ progress[r] = from /\ progress'[r] = to
BY DEF P!Step, ProjectAlone, ProjectsInv, P!TypeOK

LEMMA EveryProjectStep ==
  ASSUME ProjectsInv, NEW r \in ProjectRequest, P!HandlerStep(r) \/ P!DatabaseFails(r)
  PROVE  ProjectStep(r)
<1>. USE DEF P!InFlight
<1>1. CASE P!RequireTenant(r)
  BY <1>1, RespondsProjectAlone DEF P!RequireTenant, ProjectStep, ResultIsDue, RowsStep
<1>2. CASE P!CreateProject(r)
  <2>0. /\ progress[r] = "sent" /\ asked[r].op = "create" /\ asked[r].tenant # None
        /\ UNCHANGED <<asked, since>>
    BY <1>2 DEF P!CreateProject, P!Asks
  <2>1. CASE P!KeyTaken(r) /\ P!Respond(r, "sent", 409, {}) /\ UNCHANGED <<projects, born>>
    BY <2>0, <2>1, RespondsProjectAlone DEF ProjectStep, ResultIsDue, RowsStep
  <2>2. CASE ~ P!KeyTaken(r) /\ P!Insert(r) /\ P!Step(r, "sent", "committed") /\ UNCHANGED result
    BY <2>0, <2>2, StepsProjectAlone DEF ProjectStep, ProgressIsDue, RowsStep
  <2>. QED
    BY <1>2, <2>1, <2>2 DEF P!CreateProject
<1>3. CASE P!RefreshProject(r)
  <2>1. PICK code \in {201, 500} :
          P!Respond(r, "committed", code, {p \in projects : p.by = r})
    BY <1>3 DEF P!RefreshProject
  <2>2. UNCHANGED <<projects, asked, born, since>>
    BY <1>3 DEF P!RefreshProject
  <2>. QED
    BY <2>1, <2>2, RespondsProjectAlone DEF ProjectStep, ResultIsDue, RowsStep
<1>4. CASE P!ListProjects(r)
  BY <1>4, RespondsProjectAlone
  DEF P!ListProjects, P!Asks, ProjectStep, ResultIsDue, RowsStep
<1>5. CASE P!GetProject(r)
  <2>1. /\ progress[r] = "sent" /\ asked[r].op = "get"
        /\ P!Respond(r, "sent", IF P!Found(r) = {} THEN 404 ELSE 200, P!Found(r))
        /\ UNCHANGED <<projects, asked, born, since>>
    BY <1>5 DEF P!GetProject, P!Asks
  <2>2. P!Found(r) \subseteq P!OfTenant(r)
    BY DEF P!Found
  <2>3. CASE P!Found(r) = {}
    <3>1. P!Respond(r, "sent", 404, {})
      BY <2>1, <2>3
    <3>. QED
      BY <2>1, <2>3, <3>1, RespondsProjectAlone DEF ProjectStep, ResultIsDue, RowsStep
  <2>4. CASE P!Found(r) # {}
    <3>1. P!Respond(r, "sent", 200, P!Found(r))
      BY <2>1, <2>4
    <3>. QED
      BY <2>1, <2>2, <3>1, RespondsProjectAlone DEF ProjectStep, ResultIsDue, RowsStep
  <2>. QED
    BY <2>3, <2>4
<1>6. CASE P!FindProject(r)
  <2>0. /\ progress[r] = "sent" /\ asked[r].op = "delete"
        /\ UNCHANGED <<projects, asked, born, since>>
    BY <1>6 DEF P!FindProject, P!Asks
  <2>1. CASE P!Found(r) = {} /\ P!Respond(r, "sent", 404, {})
    BY <2>0, <2>1, RespondsProjectAlone DEF ProjectStep, ResultIsDue, RowsStep
  <2>2. CASE P!Found(r) # {} /\ P!Step(r, "sent", "found") /\ UNCHANGED result
    BY <2>0, <2>2, StepsProjectAlone DEF ProjectStep, ProgressIsDue, RowsStep
  <2>. QED
    BY <1>6, <2>1, <2>2 DEF P!FindProject
<1>7. CASE P!DeleteProject(r)
  BY <1>7, RespondsProjectAlone DEF P!DeleteProject, ProjectStep, ResultIsDue, RowsStep
<1>8. CASE P!DatabaseFails(r)
  <2>1. PICK from \in P!InFlight : P!Respond(r, from, 500, {})
    BY <1>8 DEF P!DatabaseFails
  <2>2. UNCHANGED <<asked, since>>
    BY <1>8 DEF P!DatabaseFails
  <2>3. /\ ProjectAlone(r) /\ progress[r] = from /\ progress'[r] = "answered"
        /\ result'[r].code = 500 /\ result'[r].shown = {}
    BY <2>1, <2>2, RespondsProjectAlone
  <2>4. RowsStep(r)
    BY <1>8, <2>3 DEF P!DatabaseFails, P!Asks, RowsStep
  <2>. QED
    BY <2>3, <2>4 DEF ProjectStep, ResultIsDue
<1>. QED
  BY <1>1, <1>2, <1>3, <1>4, <1>5, <1>6, <1>7, <1>8 DEF P!HandlerStep

-----------------------------------------------------------------------------
(* What any step of the workspace may do to projects-service's history.    *)
IsSent(r) ==
  /\ progress'[r] = "sent"
  /\ since'[r] = {b \in ProjectRequest : progress[b] = "answered"}
  /\ asked'[r] \in P!Call
  /\ asked'[r].op = "create" => asked'[r].key \in Key
  /\ \E k \in Tokens : asked'[r].user = k.user /\ asked'[r].tenant = k.tenant

ProjectHistory(r) ==
  /\ progress[r] # "new" =>
       progress'[r] # "new" /\ asked'[r] = asked[r] /\ since'[r] = since[r]
  /\ progress[r] \in {"committed", "answered", "lost"} =>
       progress'[r] \in {"committed", "answered", "lost"}
  /\ progress[r] \in {"answered", "lost"} => progress'[r] = progress[r]
  /\ progress[r] = "answered" \/ progress'[r] # "answered" => result'[r] = result[r]
  /\ progress[r] # "answered" /\ progress'[r] = "answered" => ResultIsDue(r)
  /\ progress[r] # "found" /\ progress'[r] = "found" => ProgressIsDue(r)
  /\ progress[r] = "new" => IsSent(r) \/ (progress'[r] = "new" /\ since'[r] = since[r])

ProjectsHistory ==
  /\ \A r \in ProjectRequest : ProjectHistory(r)
  /\ UNCHANGED <<projects, born>> \/ \E r \in ProjectRequest : RowsStep(r)

LEMMA ProjectStepIsHistory ==
  ASSUME ProjectsInv, NEW r \in ProjectRequest, ProjectStep(r)
  PROVE  ProjectsHistory
<1>1. \A b \in ProjectRequest : /\ asked'[b] = asked[b] /\ since'[b] = since[b]
                                /\ b # r => progress'[b] = progress[b] /\ result'[b] = result[b]
  BY DEF ProjectStep, ProjectAlone
<1>2. /\ progress[r] \in P!InFlight /\ progress'[r] # "new"
      /\ progress'[r] # "answered" => result'[r] = result[r] /\ ProgressIsDue(r)
      /\ progress'[r] = "answered" => ResultIsDue(r)
      /\ progress[r] = "committed" => progress'[r] \in {"committed", "answered", "lost"}
  BY DEF ProjectStep, ProjectAlone, ProgressIsDue
<1>3. RowsStep(r)
  BY DEF ProjectStep
<1>. QED
  BY <1>1, <1>2, <1>3 DEF ProjectsHistory, ProjectHistory, P!InFlight

LEMMA TokensAreTyped ==
  ASSUME AccountsInv, NEW k \in Tokens
  PROVE  /\ k.user \in User /\ k.tenant \in TenantId \cup {None}
         /\ k.tenant # None => \E m \in members : m.tenant = k.tenant /\ m.user = k.user
<1>1. PICK a \in AuthRequest : k = reply[a].token /\ k # None
  BY DEF Tokens
<1>2. k \in Token
  BY <1>1 DEF AccountsInv, AccountsTypeOK
<1>3. reply[a].code = 200
  BY <1>1 DEF AccountsInv, RepliesAreGiven
<1>4. /\ form[a].slug = None => k.tenant = None
      /\ form[a].slug # None => \E m \in members : m.tenant = k.tenant /\ m.user = k.user
  BY <1>1, <1>3 DEF AccountsInv, TokenTellsTheTruth
<1>. QED
  BY <1>2, <1>4 DEF Token

LEMMA ProjectCallIsHistory ==
  ASSUME AccountsInv, ProjectsInv, NEW r \in ProjectRequest, ProjectCall(r)
  PROVE  ProjectsHistory
<1>1. PICK k \in Tokens, w \in Wants :
        P!SendCall(r, [op |-> w.op, key |-> w.key, id |-> w.id, user |-> k.user,
                       tenant |-> k.tenant])
  BY DEF ProjectCall
<1>2. PICK q : q = [op |-> w.op, key |-> w.key, id |-> w.id, user |-> k.user,
                    tenant |-> k.tenant]
  OBVIOUS
<1>3. q \in P!Call /\ (q.op = "create" => q.key \in Key)
  BY <1>2, TokensAreTyped, WorkspaceAssumption DEF P!Call
<1>4. q.user = k.user /\ q.tenant = k.tenant
  BY <1>2
<1>5. /\ progress[r] = "new" /\ progress' = [progress EXCEPT ![r] = "sent"]
      /\ asked' = [asked EXCEPT ![r] = q]
      /\ since' = [since EXCEPT ![r] = {b \in ProjectRequest : progress[b] = "answered"}]
      /\ UNCHANGED <<projects, result, born>>
  BY <1>1, <1>2 DEF P!SendCall, P!Step
<1>6. IsSent(r)
  BY <1>3, <1>4, <1>5 DEF IsSent, ProjectsInv, P!TypeOK
<1>7. \A b \in ProjectRequest : b # r =>
        progress'[b] = progress[b] /\ asked'[b] = asked[b] /\ since'[b] = since[b]
  BY <1>5 DEF ProjectsInv, P!TypeOK
<1>8. progress[r] = "new" /\ progress'[r] = "sent"
  BY <1>5, <1>6 DEF IsSent
<1>9. \A b \in ProjectRequest : result'[b] = result[b]
  BY <1>5
<1>10. UNCHANGED <<projects, born>>
  BY <1>5
<1>11. ProjectHistory(r)
  BY <1>6, <1>8, <1>9 DEF ProjectHistory
<1>12. \A b \in ProjectRequest : b # r => ProjectHistory(b)
  BY <1>7, <1>9 DEF ProjectHistory
<1>. QED
  BY <1>10, <1>11, <1>12 DEF ProjectsHistory

LEMMA ProjectsCrashIsHistory == ASSUME ProjectsInv, P!Crash PROVE ProjectsHistory
BY DEF P!Crash, ProjectsHistory, ProjectHistory, ProjectsInv, P!TypeOK, P!InFlight

LEMMA RestIsProjectsHistory == ASSUME UNCHANGED projectVars PROVE ProjectsHistory
BY DEF ProjectsHistory, ProjectHistory, projectVars

LEMMA EveryProjectStepIsHistory ==
  ASSUME AccountsInv, ProjectsInv, ProjectsServiceStep
  PROVE  ProjectsHistory
<1>1. ASSUME NEW r \in ProjectRequest, P!HandlerStep(r) \/ P!DatabaseFails(r)
      PROVE  ProjectsHistory
  BY <1>1, EveryProjectStep, ProjectStepIsHistory
<1>. QED
  BY <1>1, ProjectCallIsHistory, ProjectsCrashIsHistory DEF ProjectsServiceStep

-----------------------------------------------------------------------------
(* The table: a row is added, rows are removed, or nothing is done.        *)
IsNewRow(p, r) ==
  /\ p \in P!Project
  /\ \A q \in born : q.id # p.id
  /\ p.by = r /\ p.user = asked[r].user /\ p.tenant = asked[r].tenant /\ p.key = P!KeyOf(r)
  /\ Upper[p.key] = p.key /\ Upper[p.key] = P!KeyOf(r)
  /\ projects' = projects \cup {p} /\ born' = born \cup {p}

LEMMA InsertedRow ==
  ASSUME ProjectsInv, NEW r \in ProjectRequest, progress[r] = "sent", asked[r].op = "create",
         asked[r].tenant # None, P!Insert(r)
  PROVE  \E p : IsNewRow(p, r)
<1>1. PICK i \in ProjectId \ {p.id : p \in born} :
        LET row == [id |-> i, tenant |-> asked[r].tenant, key |-> P!KeyOf(r),
                    user |-> asked[r].user, by |-> r]
        IN  projects' = projects \cup {row} /\ born' = born \cup {row}
  BY DEF P!Insert
<1>2. PICK p : p = [id |-> i, tenant |-> asked[r].tenant, key |-> P!KeyOf(r),
                    user |-> asked[r].user, by |-> r]
  OBVIOUS
<1>3. /\ asked[r].tenant \in TenantId /\ asked[r].user \in User /\ asked[r].key \in Key
  BY DEF ProjectsInv, AsksAreTyped, P!Call
<1>4. P!KeyOf(r) \in Key /\ Upper[P!KeyOf(r)] = P!KeyOf(r)
  BY <1>3, WorkspaceAssumption DEF P!KeyOf
<1>5. p \in P!Project /\ p.id = i
  BY <1>2, <1>3, <1>4 DEF P!Project
<1>6. /\ p.by = r /\ p.user = asked[r].user /\ p.tenant = asked[r].tenant
      /\ p.key = P!KeyOf(r)
  BY <1>2
<1>7. \A q \in born : q.id # p.id
  BY <1>5
<1>8. projects' = projects \cup {p} /\ born' = born \cup {p}
  BY <1>1, <1>2
<1>. QED
  BY <1>4, <1>5, <1>6, <1>7, <1>8 DEF IsNewRow

LEMMA EveryRowsStep ==
  ASSUME ProjectsInv, NEW r \in ProjectRequest, RowsStep(r)
  PROVE  \/ UNCHANGED <<projects, born>>
         \/ /\ progress[r] = "sent" /\ progress'[r] \in {"committed", "answered"}
            /\ asked[r].tenant # None /\ ~ P!KeyTaken(r)
            /\ \E p : IsNewRow(p, r)
         \/ /\ progress[r] = "found" /\ progress'[r] = "answered"
            /\ projects' = projects \ P!Found(r) /\ UNCHANGED born
BY InsertedRow DEF RowsStep

LEMMA RowsOfHistory ==
  ASSUME ProjectsInv, ProjectsHistory
  PROVE  \/ UNCHANGED <<projects, born>>
         \/ \E r \in ProjectRequest :
              /\ progress[r] = "sent" /\ progress'[r] \in {"committed", "answered"}
              /\ asked[r].tenant # None /\ ~ P!KeyTaken(r)
              /\ \E p : IsNewRow(p, r)
         \/ \E r \in ProjectRequest :
              /\ progress[r] = "found" /\ progress'[r] = "answered"
              /\ projects' = projects \ P!Found(r) /\ UNCHANGED born
BY EveryRowsStep DEF ProjectsHistory

LEMMA BornGrows ==
  ASSUME ProjectsInv, ProjectsHistory
  PROVE  born \subseteq born'
BY RowsOfHistory DEF IsNewRow

LEMMA RowsStayTyped ==
  ASSUME ProjectsInv, ProjectsHistory
  PROVE  /\ projects' \subseteq born'
         /\ born' \subseteq P!Project
         /\ \A p, q \in born' : p.id = q.id => p = q
BY RowsOfHistory DEF IsNewRow, ProjectsInv, P!TypeOK

LEMMA KeysStayUpper == ASSUME ProjectsInv, ProjectsHistory PROVE KeysAreUpper'
BY RowsOfHistory DEF IsNewRow, ProjectsInv, KeysAreUpper

LEMMA AsksStayTyped == ASSUME ProjectsInv, ProjectsHistory PROVE AsksAreTyped'
<1>. SUFFICES ASSUME NEW r \in ProjectRequest, progress'[r] # "new"
              PROVE  asked'[r] \in P!Call /\ (asked'[r].op = "create" => asked'[r].key \in Key)
  BY DEF AsksAreTyped, P!Call
<1>1. CASE progress[r] = "new"
  BY <1>1 DEF ProjectsHistory, ProjectHistory, IsSent
<1>2. CASE progress[r] # "new"
  BY <1>2 DEF ProjectsHistory, ProjectHistory, ProjectsInv, AsksAreTyped
<1>. QED
  BY <1>1, <1>2

LEMMA RowsStayOwn == ASSUME ProjectsInv, ProjectsHistory PROVE RowsAreOwn'
<1>. SUFFICES ASSUME NEW p \in born'
              PROVE  /\ progress'[p.by] \in {"committed", "answered", "lost"}
                     /\ p.tenant = asked'[p.by].tenant
                     /\ p.user = asked'[p.by].user
  BY DEF RowsAreOwn
<1>1. CASE p \in born
  <2>1. p.by \in ProjectRequest
    BY <1>1 DEF ProjectsInv, P!TypeOK, P!Project
  <2>. QED
    BY <1>1, <2>1 DEF ProjectsHistory, ProjectHistory, ProjectsInv, RowsAreOwn
<1>2. CASE p \notin born
  <2>1. PICK r \in ProjectRequest : progress[r] = "sent" /\ IsNewRow(p, r)
                                    /\ progress'[r] \in {"committed", "answered"}
    BY <1>2, RowsOfHistory DEF IsNewRow
  <2>2. asked'[r] = asked[r]
    BY <2>1 DEF ProjectsHistory, ProjectHistory
  <2>. QED
    BY <2>1, <2>2 DEF IsNewRow
<1>. QED
  BY <1>1, <1>2

LEMMA GoneStillWasDeleted == ASSUME ProjectsInv, ProjectsHistory PROVE GoneWasDeleted'
<1>. SUFFICES ASSUME NEW p \in born', p \notin projects'
              PROVE  \E d \in ProjectRequest :
                       Deletes(d, p)' /\ progress'[d] \in {"answered", "lost"}
  BY DEF GoneWasDeleted
<1>1. p \in born
  BY RowsOfHistory DEF IsNewRow
<1>2. CASE p \in projects
  <2>1. PICK d \in ProjectRequest : /\ progress[d] = "found" /\ progress'[d] = "answered"
                                    /\ projects' = projects \ P!Found(d)
    BY <1>2, RowsOfHistory DEF IsNewRow
  <2>2. asked[d].op = "delete" /\ asked'[d] = asked[d]
    BY <2>1 DEF ProjectsHistory, ProjectHistory, ProjectsInv, DeletedIsGone
  <2>3. p \in P!Found(d)
    BY <1>2, <2>1
  <2>. QED
    BY <2>1, <2>2, <2>3 DEF P!Found, P!OfTenant, Deletes
<1>3. CASE p \notin projects
  <2>1. PICK d \in ProjectRequest : Deletes(d, p) /\ progress[d] \in {"answered", "lost"}
    BY <1>1, <1>3 DEF ProjectsInv, GoneWasDeleted
  <2>2. asked'[d] = asked[d] /\ progress'[d] = progress[d]
    BY <2>1 DEF ProjectsHistory, ProjectHistory
  <2>. QED
    BY <2>1, <2>2 DEF Deletes
<1>. QED
  BY <1>2, <1>3

LEMMA DeletedStaysGone == ASSUME ProjectsInv, ProjectsHistory PROVE DeletedIsGone'
<1>. SUFFICES ASSUME NEW d \in ProjectRequest
              PROVE  /\ progress'[d] = "found" => asked'[d].op = "delete"
                     /\ progress'[d] = "found" \/ result'[d].code = 204 =>
                          \E p \in born' : Deletes(d, p)'
                     /\ result'[d].code = 204 => \A p \in projects' : ~ Deletes(d, p)'
  BY DEF DeletedIsGone
<1>0. ProjectHistory(d)
  BY DEF ProjectsHistory
<1>1. CASE progress'[d] = "found" /\ progress[d] # "found"
  <2>1. /\ progress[d] = "sent" /\ asked[d].op = "delete" /\ P!Found(d) # {}
        /\ asked'[d] = asked[d] /\ result'[d] = result[d]
    BY <1>0, <1>1 DEF ProjectHistory, ProgressIsDue
  <2>2. result[d].code = 0
    BY <2>1 DEF ProjectsInv, ResultsAreGiven
  <2>3. PICK p \in born' : Deletes(d, p)'
    BY <1>1, <2>1, BornGrows DEF P!Found, P!OfTenant, Deletes, ProjectsInv, P!TypeOK
  <2>. QED
    BY <1>1, <2>1, <2>2, <2>3
<1>2. CASE progress'[d] # "answered" /\ progress[d] = "found"
  <2>1. asked'[d] = asked[d] /\ result'[d] = result[d] /\ progress'[d] # "new"
    BY <1>0, <1>2 DEF ProjectHistory
  <2>2. result[d].code = 0
    BY <1>2 DEF ProjectsInv, ResultsAreGiven
  <2>3. asked[d].op = "delete" /\ \E p \in born : Deletes(d, p)
    BY <1>2 DEF ProjectsInv, DeletedIsGone
  <2>. QED
    BY <2>1, <2>2, <2>3, BornGrows DEF Deletes
<1>3. CASE progress'[d] # "answered" /\ progress[d] # "found" /\ progress'[d] # "found"
  <2>1. progress[d] # "answered"
    BY <1>0, <1>3 DEF ProjectHistory
  <2>2. result'[d].code = 0
    BY <1>0, <1>3, <2>1 DEF ProjectHistory, ProjectsInv, ResultsAreGiven
  <2>. QED
    BY <1>3, <2>2
<1>4. CASE progress'[d] = "answered" /\ progress[d] # "answered"
  <2>1. ResultIsDue(d) /\ asked'[d] = asked[d]
    BY <1>0, <1>4 DEF ProjectHistory, IsSent
  <2>2. ASSUME result'[d].code = 204
        PROVE  /\ \E p \in born' : Deletes(d, p)'
               /\ \A p \in projects' : ~ Deletes(d, p)'
    <3>1. progress[d] = "found" /\ projects' = projects \ P!Found(d)
      BY <2>1, <2>2 DEF ResultIsDue
    <3>2. \E p \in born : Deletes(d, p)
      BY <3>1 DEF ProjectsInv, DeletedIsGone
    <3>3. \A p \in projects' : ~ Deletes(d, p)'
      BY <2>1, <3>1 DEF Deletes, P!Found, P!OfTenant
    <3>. QED
      BY <1>4, <2>1, <3>2, <3>3, BornGrows DEF Deletes
  <2>. QED
    BY <1>4, <2>2
<1>5. CASE progress[d] = "answered"
  <2>1. asked'[d] = asked[d] /\ result'[d] = result[d] /\ progress'[d] = progress[d]
    BY <1>0, <1>5 DEF ProjectHistory
  <2>2. ASSUME result[d].code = 204
        PROVE  /\ \E p \in born' : Deletes(d, p)'
               /\ \A p \in projects' : ~ Deletes(d, p)'
    <3>1. PICK q \in born : Deletes(d, q)
      BY <2>2 DEF ProjectsInv, DeletedIsGone
    <3>2. \A p \in projects : ~ Deletes(d, p)
      BY <2>2 DEF ProjectsInv, DeletedIsGone
    <3>3. ASSUME NEW p \in projects' \ projects PROVE ~ Deletes(d, p)
      <4>1. PICK r \in ProjectRequest : IsNewRow(p, r)
        BY <3>3, RowsOfHistory DEF IsNewRow
      <4>2. p.id # q.id
        BY <4>1 DEF IsNewRow
      <4>. QED
        BY <3>1, <4>2 DEF Deletes
    <3>. QED
      BY <2>1, <3>1, <3>2, <3>3, BornGrows DEF Deletes
  <2>. QED
    BY <1>5, <2>1, <2>2
<1>. QED
  BY <1>1, <1>2, <1>3, <1>4, <1>5

(* What an answer shows is in the table then, and of the tenant asked for. *)
LEMMA ShownIsThere ==
  ASSUME ProjectsInv, NEW r \in ProjectRequest, ResultIsDue(r), NEW p \in result'[r].shown
  PROVE  p \in projects /\ p.tenant = asked[r].tenant
BY DEF ResultIsDue, P!OfTenant, ProjectsInv, P!TypeOK, RowsAreOwn

LEMMA ResultsStayGiven == ASSUME ProjectsInv, ProjectsHistory PROVE ResultsAreGiven'
<1>. SUFFICES ASSUME NEW r \in ProjectRequest
              PROVE  /\ progress'[r] # "answered" => result'[r].code = 0 /\ result'[r].shown = {}
                     /\ \A b \in since'[r] : progress'[b] = "answered"
                     /\ \A p \in result'[r].shown : p \in born' /\ p.tenant = asked'[r].tenant
  BY DEF ResultsAreGiven
<1>0. ProjectHistory(r)
  BY DEF ProjectsHistory
<1>1. \A b \in ProjectRequest : progress[b] = "answered" => progress'[b] = "answered"
  BY DEF ProjectsHistory, ProjectHistory
<1>2. since[r] \subseteq ProjectRequest /\ \A b \in since[r] : progress[b] = "answered"
  BY DEF ProjectsInv, P!TypeOK, ResultsAreGiven
<1>3. \A b \in since'[r] : progress'[b] = "answered"
  BY <1>0, <1>1, <1>2 DEF ProjectHistory, IsSent
<1>4. CASE progress'[r] # "answered"
  <2>1. progress[r] # "answered" /\ result'[r] = result[r]
    BY <1>0, <1>4 DEF ProjectHistory
  <2>2. result[r].code = 0 /\ result[r].shown = {}
    BY <2>1 DEF ProjectsInv, ResultsAreGiven
  <2>. QED
    BY <1>3, <2>1, <2>2
<1>5. CASE progress[r] = "answered"
  <2>1. progress'[r] = "answered" /\ result'[r] = result[r] /\ asked'[r] = asked[r]
    BY <1>0, <1>5 DEF ProjectHistory
  <2>2. \A p \in result[r].shown : p \in born /\ p.tenant = asked[r].tenant
    BY DEF ProjectsInv, ResultsAreGiven
  <2>. QED
    BY <1>3, <2>1, <2>2, BornGrows
<1>6. CASE progress'[r] = "answered" /\ progress[r] # "answered"
  <2>1. ResultIsDue(r) /\ asked'[r] = asked[r]
    BY <1>0, <1>6 DEF ProjectHistory, IsSent
  <2>2. \A p \in result'[r].shown : p \in projects /\ p.tenant = asked[r].tenant
    BY <2>1, ShownIsThere
  <2>. QED
    BY <1>3, <1>6, <2>1, <2>2, BornGrows DEF ProjectsInv, P!TypeOK
<1>. QED
  BY <1>4, <1>5, <1>6

LEMMA AskersStayMembers ==
  ASSUME AccountsInv, ProjectsInv, ProjectsHistory, members \subseteq members'
  PROVE  AskersAreMembers'
<1>. SUFFICES ASSUME NEW r \in ProjectRequest, progress'[r] # "new", asked'[r].tenant # None
              PROVE  \E m \in members' : m.tenant = asked'[r].tenant /\ m.user = asked'[r].user
  BY DEF AskersAreMembers
<1>0. ProjectHistory(r)
  BY DEF ProjectsHistory
<1>1. CASE progress[r] = "new"
  <2>1. PICK k \in Tokens : asked'[r].user = k.user /\ asked'[r].tenant = k.tenant
    BY <1>0, <1>1 DEF ProjectHistory, IsSent
  <2>. QED
    BY <2>1, TokensAreTyped
<1>2. CASE progress[r] # "new"
  BY <1>0, <1>2 DEF ProjectHistory, ProjectsInv, AskersAreMembers
<1>. QED
  BY <1>1, <1>2

LEMMA KeyConflictsStayReal ==
  ASSUME ProjectsInv, ProjectsHistory
  PROVE  KeyConflictIsReal'
<1>. USE DEF ProjectsInv, P!TypeOK
<1>1. ASSUME NEW p \in projects', NEW q \in projects', p.tenant = q.tenant,
             Upper[p.key] = Upper[q.key]
      PROVE  p = q
  <2>1. CASE p \in projects /\ q \in projects
    BY <1>1, <2>1 DEF KeyConflictIsReal, P!KeyConflictIsReal
  <2>2. ASSUME NEW r \in ProjectRequest, NEW s, IsNewRow(s, r), ~ P!KeyTaken(r) PROVE p = q
    <3>1. \A o \in projects : ~ (o.tenant = s.tenant /\ Upper[o.key] = Upper[s.key])
      BY <2>2 DEF IsNewRow, P!KeyTaken, P!OfTenant, KeysAreUpper
    <3>2. p \in projects \cup {s} /\ q \in projects \cup {s}
      BY <2>2 DEF IsNewRow
    <3>. QED
      BY <1>1, <2>1, <3>1, <3>2
  <2>. QED
    BY <2>1, <2>2, RowsOfHistory
<1>2. ASSUME NEW r \in ProjectRequest, result'[r].code = 409
      PROVE  \E p \in born' : p.tenant = asked'[r].tenant
                              /\ Upper[p.key] = Upper[asked'[r].key] /\ p.by # r
  <2>0. ProjectHistory(r)
    BY DEF ProjectsHistory
  <2>1. CASE progress[r] = "answered"
    <3>1. result'[r] = result[r] /\ asked'[r] = asked[r]
      BY <2>0, <2>1 DEF ProjectHistory
    <3>2. \E p \in born : p.tenant = asked[r].tenant
                          /\ Upper[p.key] = Upper[asked[r].key] /\ p.by # r
      BY <1>2, <3>1 DEF KeyConflictIsReal, P!KeyConflictIsReal, P!KeyOf
    <3>. QED
      BY <3>1, <3>2, BornGrows
  <2>2. CASE progress[r] # "answered"
    <3>1. result[r].code = 0
      BY <2>2 DEF ResultsAreGiven
    <3>2. progress'[r] = "answered"
      BY <1>2, <2>0, <3>1 DEF ProjectHistory
    <3>3. ResultIsDue(r) /\ asked'[r] = asked[r]
      BY <2>0, <2>2, <3>2 DEF ProjectHistory, IsSent
    <3>4. progress[r] = "sent" /\ P!KeyTaken(r)
      BY <1>2, <3>3 DEF ResultIsDue
    <3>5. PICK p \in projects : p.tenant = asked[r].tenant /\ p.key = Upper[asked[r].key]
      BY <3>4 DEF P!KeyTaken, P!OfTenant, P!KeyOf
    <3>6. p.by # r /\ Upper[p.key] = p.key
      BY <3>4 DEF RowsAreOwn, KeysAreUpper
    <3>. QED
      BY <3>3, <3>5, <3>6, BornGrows
  <2>. QED
    BY <2>1, <2>2
<1>. QED
  BY <1>1, <1>2 DEF KeyConflictIsReal, P!KeyConflictIsReal, P!KeyOf

LEMMA ProjectsStillLast ==
  ASSUME ProjectsInv, ProjectsHistory
  PROVE  ProjectLastsUntilDeleted'
<1>. DEFINE DeletersOf(p) == {d \in ProjectRequest : Deletes(d, p)}
<1>. SUFFICES ASSUME NEW l \in ProjectRequest, progress'[l] = "answered",
                     result'[l].code # 500,
                     NEW c \in since'[l], NEW p \in result'[c].shown
              PROVE  /\ /\ asked'[c].op = "create" /\ DeletersOf(p)' \subseteq {l}
                        /\ asked'[l].tenant = p.tenant
                        /\ asked'[l].op \in {"get", "delete"} /\ asked'[l].id = p.id
                        => result'[l].code # 404
                     /\ (\E d \in DeletersOf(p)' \cap since'[l] : result'[d].code = 204)
                        => p \notin result'[l].shown
  BY DEF ProjectLastsUntilDeleted, P!ProjectLastsUntilDeleted, Deletes
<1>0. ProjectHistory(l)
  BY DEF ProjectsHistory
<1>1. progress[l] # "new" /\ asked'[l] = asked[l] /\ since'[l] = since[l]
  BY <1>0 DEF ProjectHistory, IsSent
<1>2. \A b \in since[l] : /\ b \in ProjectRequest /\ progress[b] = "answered"
                          /\ asked'[b] = asked[b] /\ result'[b] = result[b]
  BY DEF ProjectsHistory, ProjectHistory, ProjectsInv, P!TypeOK, ResultsAreGiven
<1>3. c \in since[l] /\ p \in result[c].shown /\ asked'[c] = asked[c]
  BY <1>1, <1>2
<1>4. p \in born
  BY <1>2, <1>3 DEF ProjectsInv, ResultsAreGiven
<1>5. \A d \in ProjectRequest : Deletes(d, p) => Deletes(d, p)'
  BY DEF ProjectsHistory, ProjectHistory, Deletes
<1>6. \A d \in since[l] : Deletes(d, p)' => Deletes(d, p)
  BY <1>2 DEF Deletes
<1>7. CASE progress[l] = "answered"
  <2>1. result'[l] = result[l]
    BY <1>0, <1>7 DEF ProjectHistory
  <2>2. /\ /\ asked[c].op = "create" /\ DeletersOf(p) \subseteq {l}
           /\ asked[l].tenant = p.tenant
           /\ asked[l].op \in {"get", "delete"} /\ asked[l].id = p.id
           => result[l].code # 404
        /\ (\E d \in DeletersOf(p) \cap since[l] : result[d].code = 204)
           => p \notin result[l].shown
    BY <1>3, <1>7, <2>1 DEF ProjectsInv, ProjectLastsUntilDeleted, P!ProjectLastsUntilDeleted,
       Deletes
  <2>3. DeletersOf(p) \subseteq DeletersOf(p)'
    BY <1>5
  <2>. QED
    BY <1>1, <1>2, <1>3, <1>6, <2>1, <2>2, <2>3
<1>8. CASE progress[l] # "answered"
  <2>1. ResultIsDue(l)
    BY <1>0, <1>8 DEF ProjectHistory
  <2>2. ASSUME result'[l].code = 404, DeletersOf(p)' \subseteq {l}, asked[l].tenant = p.tenant,
               asked[l].id = p.id
        PROVE  FALSE
    <3>1. progress[l] = "sent" /\ P!Found(l) = {}
      BY <2>1, <2>2 DEF ResultIsDue
    <3>2. p \notin projects
      BY <2>2, <3>1 DEF P!Found, P!OfTenant
    <3>3. PICK d \in ProjectRequest : Deletes(d, p) /\ progress[d] \in {"answered", "lost"}
      BY <1>4, <3>2 DEF ProjectsInv, GoneWasDeleted
    <3>. QED
      BY <1>5, <2>2, <3>1, <3>3
  <2>3. ASSUME NEW d \in DeletersOf(p)' \cap since'[l], result'[d].code = 204,
               p \in result'[l].shown
        PROVE  FALSE
    <3>1. result[d].code = 204 /\ Deletes(d, p) /\ d \in ProjectRequest
      BY <1>1, <1>2, <1>6, <2>3
    <3>2. p \notin projects
      BY <3>1 DEF ProjectsInv, DeletedIsGone
    <3>. QED
      BY <2>1, <2>3, <3>2, ShownIsThere
  <2>. QED
    BY <1>1, <2>2, <2>3
<1>. QED
  BY <1>7, <1>8

-----------------------------------------------------------------------------
(* The types: what the history says of each request, for all of them.      *)
ResultsTyped ==
  /\ progress' \in [ProjectRequest -> {"new", "answered", "lost"} \cup P!InFlight]
  /\ result' \in [ProjectRequest -> [code : {0, 200, 201, 204, 403, 404, 409, 500},
                                     shown : SUBSET P!Project]]

LEMMA RespondKeepsTypes ==
  ASSUME ProjectsInv, NEW r \in ProjectRequest, NEW from,
         NEW code \in {200, 201, 204, 403, 404, 409, 500}, NEW shown \in SUBSET projects,
         P!Respond(r, from, code, shown)
  PROVE  ResultsTyped
<1>1. [code |-> code, shown |-> shown] \in [code : {0, 200, 201, 204, 403, 404, 409, 500},
                                            shown : SUBSET P!Project]
  BY DEF ProjectsInv, P!TypeOK
<1>. QED
  BY <1>1 DEF ResultsTyped, ProjectsInv, P!TypeOK, P!Respond, P!Step

LEMMA StepKeepsTypes ==
  ASSUME ProjectsInv, NEW r \in ProjectRequest, NEW from, NEW to \in P!InFlight,
         P!Step(r, from, to), UNCHANGED result
  PROVE  ResultsTyped
BY DEF ResultsTyped, ProjectsInv, P!TypeOK, P!Step

LEMMA ResultsStayTyped ==
  ASSUME ProjectsInv, NEW r \in ProjectRequest, P!HandlerStep(r) \/ P!DatabaseFails(r)
  PROVE  ResultsTyped /\ UNCHANGED <<asked, since>>
<1>0. {} \subseteq projects /\ {p \in projects : p.by = r} \subseteq projects
      /\ P!OfTenant(r) \subseteq projects /\ P!Found(r) \subseteq projects
  BY DEF P!OfTenant, P!Found
<1>1. CASE P!RequireTenant(r)
  BY <1>0, <1>1, RespondKeepsTypes DEF P!RequireTenant
<1>2. CASE P!CreateProject(r)
  <2>1. CASE P!Respond(r, "sent", 409, {})
    BY <1>0, <1>2, <2>1, RespondKeepsTypes DEF P!CreateProject
  <2>2. CASE P!Step(r, "sent", "committed") /\ UNCHANGED result
    BY <1>2, <2>2, StepKeepsTypes DEF P!CreateProject, P!InFlight
  <2>. QED
    BY <1>2, <2>1, <2>2 DEF P!CreateProject
<1>3. CASE P!RefreshProject(r)
  <2>1. PICK code \in {201, 500} :
          P!Respond(r, "committed", code, {p \in projects : p.by = r})
    BY <1>3 DEF P!RefreshProject
  <2>. QED
    BY <1>0, <1>3, <2>1, RespondKeepsTypes DEF P!RefreshProject
<1>4. CASE P!ListProjects(r)
  BY <1>0, <1>4, RespondKeepsTypes DEF P!ListProjects
<1>5. CASE P!GetProject(r)
  <2>1. PICK code \in {200, 404} : P!Respond(r, "sent", code, P!Found(r))
    BY <1>5 DEF P!GetProject
  <2>. QED
    BY <1>0, <1>5, <2>1, RespondKeepsTypes DEF P!GetProject
<1>6. CASE P!FindProject(r)
  <2>1. CASE P!Respond(r, "sent", 404, {})
    BY <1>0, <1>6, <2>1, RespondKeepsTypes DEF P!FindProject
  <2>2. CASE P!Step(r, "sent", "found") /\ UNCHANGED result
    BY <1>6, <2>2, StepKeepsTypes DEF P!FindProject, P!InFlight
  <2>. QED
    BY <1>6, <2>1, <2>2 DEF P!FindProject
<1>7. CASE P!DeleteProject(r)
  BY <1>0, <1>7, RespondKeepsTypes DEF P!DeleteProject
<1>8. CASE P!DatabaseFails(r)
  <2>1. PICK from \in P!InFlight : P!Respond(r, from, 500, {})
    BY <1>8 DEF P!DatabaseFails
  <2>. QED
    BY <1>0, <1>8, <2>1, RespondKeepsTypes DEF P!DatabaseFails
<1>. QED
  BY <1>1, <1>2, <1>3, <1>4, <1>5, <1>6, <1>7, <1>8 DEF P!HandlerStep

LEMMA ProjectsTypeKept ==
  ASSUME AccountsInv, ProjectsInv, ProjectsServiceStep
  PROVE  P!TypeOK'
<1>1. ProjectsHistory
  BY EveryProjectStepIsHistory
<1>2. ASSUME NEW r \in ProjectRequest, ProjectCall(r)
      PROVE  ResultsTyped /\ asked' \in [ProjectRequest -> P!Call \cup {None}]
             /\ since' \in [ProjectRequest -> SUBSET ProjectRequest]
  <2>1. PICK k \in Tokens, w \in Wants :
          P!SendCall(r, [op |-> w.op, key |-> w.key, id |-> w.id, user |-> k.user,
                         tenant |-> k.tenant])
    BY <1>2 DEF ProjectCall
  <2>2. PICK q : q = [op |-> w.op, key |-> w.key, id |-> w.id, user |-> k.user,
                      tenant |-> k.tenant]
    OBVIOUS
  <2>3. q \in P!Call
    BY <2>2, TokensAreTyped, WorkspaceAssumption DEF P!Call
  <2>4. P!SendCall(r, q)
    BY <2>1, <2>2
  <2>5. ResultsTyped
    BY <2>4, StepKeepsTypes DEF P!SendCall, P!InFlight
  <2>6. asked' = [asked EXCEPT ![r] = q]
        /\ since' = [since EXCEPT ![r] = {b \in ProjectRequest : progress[b] = "answered"}]
    BY <2>4 DEF P!SendCall
  <2>. QED
    BY <2>3, <2>5, <2>6 DEF ProjectsInv, P!TypeOK
<1>3. CASE P!Crash
  <2>1. ResultsTyped
    BY <1>3 DEF P!Crash, ResultsTyped, ProjectsInv, P!TypeOK, P!InFlight
  <2>. QED
    BY <1>1, <1>3, <2>1, RowsStayTyped DEF P!Crash, ResultsTyped, ProjectsInv, P!TypeOK
<1>4. ASSUME NEW r \in ProjectRequest, P!HandlerStep(r) \/ P!DatabaseFails(r)
      PROVE  P!TypeOK'
  BY <1>1, <1>4, ResultsStayTyped, RowsStayTyped DEF ResultsTyped, ProjectsInv, P!TypeOK
<1>5. ASSUME NEW r \in ProjectRequest, ProjectCall(r) PROVE P!TypeOK'
  BY <1>1, <1>2, <1>5, RowsStayTyped DEF ResultsTyped, P!TypeOK
<1>. QED
  BY <1>3, <1>4, <1>5 DEF ProjectsServiceStep

LEMMA ProjectsInvInit == ASSUME P!Init PROVE ProjectsInv
<1>. USE DEF P!Init
<1>1. P!TypeOK
  BY DEF P!TypeOK
<1>2. AsksAreTyped /\ KeysAreUpper /\ RowsAreOwn /\ GoneWasDeleted /\ DeletedIsGone
  BY DEF AsksAreTyped, KeysAreUpper, RowsAreOwn, GoneWasDeleted, DeletedIsGone
<1>3. ResultsAreGiven /\ AskersAreMembers
  BY DEF ResultsAreGiven, AskersAreMembers
<1>4. KeyConflictIsReal /\ ProjectLastsUntilDeleted
  BY DEF KeyConflictIsReal, P!KeyConflictIsReal, ProjectLastsUntilDeleted,
     P!ProjectLastsUntilDeleted
<1>. QED
  BY <1>1, <1>2, <1>3, <1>4 DEF ProjectsInv

LEMMA ProjectsInvKept ==
  ASSUME AccountsInv, ProjectsInv, members \subseteq members',
         ProjectsServiceStep \/ UNCHANGED projectVars
  PROVE  ProjectsInv'
<1>1. ProjectsHistory
  BY EveryProjectStepIsHistory, RestIsProjectsHistory
<1>2. P!TypeOK'
  <2>1. CASE ProjectsServiceStep
    BY <2>1, ProjectsTypeKept
  <2>2. CASE UNCHANGED projectVars
    BY <2>2 DEF projectVars, ProjectsInv, P!TypeOK
  <2>. QED
    BY <2>1, <2>2
<1>. QED
  BY <1>1, <1>2, AsksStayTyped, KeysStayUpper, RowsStayOwn, GoneStillWasDeleted,
     DeletedStaysGone, ResultsStayGiven, AskersStayMembers, KeyConflictsStayReal,
     ProjectsStillLast
  DEF ProjectsInv

-----------------------------------------------------------------------------
(* The three services.  Failures are only counted up, and up to the bound. *)
FaultsStep == faults' >= faults /\ faults' \in 0 .. MaxFaults

LEMMA FaultsOfTenancy ==
  ASSUME TenancyInv, TenancyNext
  PROVE  FaultsStep
<1>. USE TenancyAssumption DEF TenancyInv, TenancyTypeOK, FaultsStep
<1>1. ASSUME NEW r \in Request, HandlerStep(r) PROVE UNCHANGED faults
  BY <1>1 DEF HandlerStep, FlushTenant, CommitTenant, RequireTenantRole, ReadTenant, AddMember,
     InsertMember, Finish, ListMyTenants, LookupMembership
<1>. QED
  BY <1>1 DEF TenancyNext, Send, SendCall, DatabaseFails, Crash

LEMMA FaultsOfAccounts ==
  ASSUME TenancyInv, AccountsNext
  PROVE  FaultsStep
BY TenancyAssumption DEF TenancyInv, TenancyTypeOK, FaultsStep, AccountsNext, SendForm, Signup,
   SignupEnds, FindUser, AskTenantService, TenantServiceFails, MintToken, AuthDatabaseFails,
   AuthCrash

LEMMA FaultsOfProjects ==
  ASSUME TenancyInv, ProjectsServiceStep
  PROVE  FaultsStep
<1>. USE TenancyAssumption DEF TenancyInv, TenancyTypeOK, FaultsStep
<1>1. ASSUME NEW r \in ProjectRequest, P!HandlerStep(r) \/ ProjectCall(r) PROVE UNCHANGED faults
  BY <1>1 DEF P!HandlerStep, P!RequireTenant, P!CreateProject, P!RefreshProject,
     P!ListProjects, P!GetProject, P!FindProject, P!DeleteProject, ProjectCall, P!SendCall
<1>2. ASSUME NEW r \in ProjectRequest, P!DatabaseFails(r) PROVE FaultsStep
  BY <1>2 DEF P!DatabaseFails
<1>3. CASE P!Crash
  BY <1>3 DEF P!Crash
<1>. QED
  BY <1>1, <1>2, <1>3 DEF ProjectsServiceStep

LEMMA TenantServiceIsTenancy ==
  ASSUME TenantServiceStep
  PROVE  TenancyNext
BY DEF TenantServiceStep, TenancyNext, TenantCall, Send

LEMMA OnlyTokensAsk ==
  ASSUME TenancyInv, TenantServiceStep
  PROVE  AskersStep
<1>1. ASSUME NEW r \in Request, TenantCall(r) PROVE AskersStep
  <2>1. PICK k \in Tokens, q \in Calls : q.user = k.user /\ SendCall(r, q)
    BY <1>1 DEF TenantCall
  <2>2. /\ pc' = [pc EXCEPT ![r] = "sent"] /\ call' = [call EXCEPT ![r] = q]
    BY <2>1 DEF SendCall, Step
  <2>. QED
    BY <2>1, <2>2 DEF AskersStep, TenancyInv, TenancyTypeOK
<1>2. ASSUME NEW r \in Request, HandlerStep(r) \/ DatabaseFails(r)
      PROVE  \E from \in InFlight, to \in {"flushed", "committed", "allowed", "answered"} :
               Step(r, from, to)
  <2>. USE DEF InFlight
  <2>1. CASE FlushTenant(r) \/ CommitTenant(r)
    BY <2>1 DEF FlushTenant, CommitTenant, Respond
  <2>2. CASE RequireTenantRole(r)
    BY <2>2 DEF RequireTenantRole, Respond
  <2>3. CASE AddMember(r)
    BY <2>3 DEF AddMember, Respond
  <2>4. CASE ReadTenant(r) \/ Finish(r) \/ ListMyTenants(r) \/ LookupMembership(r)
    BY <2>4 DEF ReadTenant, Finish, ListMyTenants, LookupMembership, Respond
  <2>5. CASE DatabaseFails(r)
    BY <2>5 DEF DatabaseFails, Respond
  <2>. QED
    BY <1>2, <2>1, <2>2, <2>3, <2>4, <2>5 DEF HandlerStep
<1>3. ASSUME NEW r \in Request, HandlerStep(r) \/ DatabaseFails(r) PROVE AskersStep
  BY <1>2, <1>3 DEF Step, InFlight, AskersStep, TenancyInv, TenancyTypeOK
<1>4. CASE Crash
  BY <1>4 DEF Crash, InFlight, AskersStep, TenancyInv, TenancyTypeOK
<1>. QED
  BY <1>1, <1>3, <1>4 DEF TenantServiceStep

LEMMA AccountsHistory ==
  ASSUME AccountsInv, AccountsNext
  PROVE  AuthHistory
BY EveryAuthStep, AuthStepIsHistory, SendFormIsHistory, AuthCrashIsHistory DEF AccountsNext

LEMMA WorkspaceInvInit == ASSUME WorkspaceInit PROVE WorkspaceInv
BY TenancySideInit, AccountsInvInit, ProjectsInvInit DEF WorkspaceInit, WorkspaceInv

(* One service moves and the two others rest.                              *)
LEMMA WorkspaceInvKept ==
  ASSUME WorkspaceInv, WorkspaceNext \/ UNCHANGED workspaceVars
  PROVE  WorkspaceInv'
<1>. USE DEF WorkspaceInv
<1>0. TenancyInv /\ faults \in 0 .. MaxFaults /\ MaxFaults \in Nat
  BY TenancyAssumption DEF TenancySide, TenancyInv, TenancyTypeOK
<1>1. /\ TenancyNext \/ TenancyRests
      /\ FaultsStep
      /\ AuthHistory
      /\ AskersStep
      /\ AccountsTypeOK'
      /\ ProjectsServiceStep \/ UNCHANGED projectVars
  <2>1. CASE AccountsNext /\ UNCHANGED projectVars
             /\ UNCHANGED <<tenants, members, flushed, pc, call, answer, before>>
    <3>1. FaultsStep
      BY <1>0, <2>1, FaultsOfAccounts
    <3>2. AuthHistory
      BY <2>1, AccountsHistory
    <3>3. AccountsTypeOK'
      BY <2>1, <3>2, AccountsTypeKept DEF AuthHistory
    <3>. QED
      BY <2>1, <3>1, <3>2, <3>3 DEF TenancyRests, FaultsStep, AskersStep
  <2>2. CASE TenantServiceStep /\ UNCHANGED accountsVars /\ UNCHANGED projectVars
    <3>1. TenancyNext /\ FaultsStep /\ AskersStep
      BY <1>0, <2>2, TenantServiceIsTenancy, FaultsOfTenancy, OnlyTokensAsk
    <3>2. AuthHistory
      BY <2>2, RestIsAuthHistory
    <3>3. AccountsTypeOK'
      BY <2>2 DEF accountsVars, AccountsInv, AccountsTypeOK
    <3>. QED
      BY <2>2, <3>1, <3>2, <3>3
  <2>3. CASE ProjectsServiceStep /\ UNCHANGED accountsVars
             /\ UNCHANGED <<tenants, members, flushed, pc, call, answer, before>>
    <3>1. FaultsStep
      BY <1>0, <2>3, FaultsOfProjects
    <3>2. AuthHistory
      BY <2>3, RestIsAuthHistory
    <3>3. AccountsTypeOK'
      BY <2>3 DEF accountsVars, AccountsInv, AccountsTypeOK
    <3>. QED
      BY <2>3, <3>1, <3>2, <3>3 DEF TenancyRests, FaultsStep, AskersStep
  <2>4. CASE UNCHANGED workspaceVars
    <3>1. UNCHANGED tenancyVars /\ UNCHANGED accountsVars /\ UNCHANGED projectVars
      BY <2>4 DEF workspaceVars
    <3>2. FaultsStep /\ TenancyRests /\ AskersStep
      BY <1>0, <3>1 DEF tenancyVars, FaultsStep, TenancyRests, AskersStep
    <3>3. AuthHistory
      BY <3>1, RestIsAuthHistory
    <3>4. AccountsTypeOK'
      BY <3>1 DEF accountsVars, AccountsInv, AccountsTypeOK
    <3>. QED
      BY <3>1, <3>2, <3>3, <3>4
  <2>. QED
    BY <2>1, <2>2, <2>3, <2>4 DEF WorkspaceNext
<1>2. TenancySide' /\ HistoryStep
  BY <1>1, TenancySideKept, TenancySideIsHistory
<1>3. AccountsInv'
  BY <1>0, <1>1, <1>2, AccountsInvKept DEF FaultsStep
<1>4. members \subseteq members'
  BY <1>2 DEF HistoryStep
<1>5. ProjectsInv'
  BY <1>1, <1>4, ProjectsInvKept
<1>. QED
  BY <1>2, <1>3, <1>5

(* The three services keep their invariants together, whatever the         *)
(* requests, the users, the tenants and the projects, and however calls,   *)
(* failures and crashes interleave.                                        *)
THEOREM WorkspaceInvariant == WorkspaceSpec => []WorkspaceInv
<1>1. WorkspaceInit => WorkspaceInv
  BY WorkspaceInvInit
<1>2. WorkspaceInv /\ [WorkspaceNext]_workspaceVars => WorkspaceInv'
  BY WorkspaceInvKept
<1>. QED
  BY <1>1, <1>2, PTL DEF WorkspaceSpec

(* Every table row, request and answer of the three services is of the     *)
(* type that its module declares.                                          *)
THEOREM WorkspaceIsTyped == WorkspaceSpec => []WorkspaceTypeOK
<1>1. WorkspaceInv => WorkspaceTypeOK
  BY DEF WorkspaceInv, TenancySide, TenancyInv, AccountsInv, ProjectsInv, WorkspaceTypeOK
<1>. QED
  BY <1>1, WorkspaceInvariant, PTL

(* A token login has minted says nothing that is not so, and stays true.   *)
THEOREM TokensTellTheTruth == WorkspaceSpec => []TokenTellsTheTruth
<1>1. WorkspaceInv => TokenTellsTheTruth
  BY DEF WorkspaceInv, AccountsInv
<1>. QED
  BY <1>1, WorkspaceInvariant, PTL

(* Who was told 201 by signup can log in, and who was told 201 for a       *)
(* tenant is let in to it as its owner, unless something fails.            *)
THEOREM NobodyIsEverLockedOut == WorkspaceSpec => []NobodyIsLockedOut
<1>1. WorkspaceInv => NobodyIsLockedOut
  BY DEF WorkspaceInv, AccountsInv
<1>. QED
  BY <1>1, WorkspaceInvariant, PTL

(* Though projects-service asks nobody, a project it shows was created by  *)
(* a member of its tenant, and is shown to a member of it.                 *)
THEOREM OnlyMembersEverAct == WorkspaceSpec => []OnlyMembersAct
<1>1. ASSUME WorkspaceInv PROVE OnlyMembersAct
  <2>1. SUFFICES ASSUME NEW r \in ProjectRequest, NEW p \in result[r].shown
                 PROVE  /\ \E m \in members : m.tenant = p.tenant /\ m.user = p.user
                        /\ \E m \in members : m.tenant = p.tenant /\ m.user = asked[r].user
    BY DEF OnlyMembersAct
  <2>. USE <1>1 DEF WorkspaceInv, ProjectsInv
  <2>2. p \in born /\ p.tenant = asked[r].tenant /\ progress[r] # "new"
    BY DEF ResultsAreGiven
  <2>3. p.by \in ProjectRequest /\ p.tenant \in TenantId
    BY <2>2 DEF P!TypeOK, P!Project
  <2>4. p.tenant # None
    BY <2>3, TenancyAssumption
  <2>5. progress[p.by] # "new" /\ p.tenant = asked[p.by].tenant /\ p.user = asked[p.by].user
    BY <2>2 DEF RowsAreOwn
  <2>. QED
    BY <2>2, <2>3, <2>4, <2>5 DEF AskersAreMembers
<1>. QED
  BY <1>1, WorkspaceInvariant, PTL

(* A project key stands for one project of a tenant, in whatever case it   *)
(* was typed, and a 409 is always another request's doing.                 *)
THEOREM KeyConflictsAreReal == WorkspaceSpec => []KeyConflictIsReal
<1>1. WorkspaceInv => KeyConflictIsReal
  BY DEF WorkspaceInv, ProjectsInv
<1>. QED
  BY <1>1, WorkspaceInvariant, PTL

(* A project whose creation was answered is found by its id until one of   *)
(* the tenant asks to delete it, and never after that was answered.        *)
THEOREM ProjectsLastUntilDeleted == WorkspaceSpec => []ProjectLastsUntilDeleted
<1>1. WorkspaceInv => ProjectLastsUntilDeleted
  BY DEF WorkspaceInv, ProjectsInv
<1>. QED
  BY <1>1, WorkspaceInvariant, PTL
==============================================================================
