------------------------------ MODULE Projects ------------------------------
(***************************************************************************)
(* projects-service: the handlers of services/projects/app/routes.py on    *)
(* the table projects, run concurrently, one transaction each.  The user   *)
(* and the tenant of a call are those of its token (module Workspace says  *)
(* which tokens there are).  A key is upper-cased before it is stored.     *)
(***************************************************************************)
EXTENDS Naturals

CONSTANTS
  Request,    \* HTTP requests, each handled once
  ProjectId,  \* the UUIDs that may be drawn
  TenantId,
  User,
  Key,        \* project keys as they are typed
  Upper,      \* Upper[k] is k in upper case
  None,
  MaxFaults   \* bound: database failures and crashes

Call == [op : {"create", "list", "get", "delete"}, user : User, tenant : TenantId \cup {None},
         key : Key \cup {None}, id : ProjectId \cup {None}]

(* A row, with the request that inserted it. *)
Project == [id : ProjectId, tenant : TenantId, key : Key, user : User, by : Request]

VARIABLES
  projects,  \* the table
  pc,        \* progress of each request
  call,      \* what it asks
  answer,    \* the status code and the projects shown
  faults,
  born,      \* (history) every row there has been
  before     \* (history) the requests answered before this one was sent

projectsVars == <<projects, pc, call, answer, faults, born, before>>

InFlight == {"sent", "committed", "found"}

TypeOK ==
  /\ projects \subseteq born
  /\ born \subseteq Project
  /\ pc \in [Request -> {"new", "answered", "lost"} \cup InFlight]
  /\ call \in [Request -> Call \cup {None}]
  /\ answer \in [Request -> [code : {0, 200, 201, 204, 403, 404, 409, 500},
                             shown : SUBSET Project]]
  /\ before \in [Request -> SUBSET Request]
  /\ \A p, q \in born : p.id = q.id => p = q

Init ==
  /\ projects = {}
  /\ born = {}
  /\ pc = [r \in Request |-> "new"]
  /\ call = [r \in Request |-> None]
  /\ answer = [r \in Request |-> [code |-> 0, shown |-> {}]]
  /\ before = [r \in Request |-> {}]

-----------------------------------------------------------------------------
(* Helpers. *)

Step(r, from, to) == pc[r] = from /\ pc' = [pc EXCEPT ![r] = to]

Respond(r, from, code, shown) ==
  /\ Step(r, from, "answered")
  /\ answer' = [answer EXCEPT ![r] = [code |-> code, shown |-> shown]]

KeyAsTyped(r) == call[r].key   \* mutant: no upper-casing

KeyOf(r) == Upper[call[r].key]

OfTenant(r) == {p \in projects : p.tenant = call[r].tenant}

(* The query by id and tenant: no row, or one. *)
Found(r) == {p \in OfTenant(r) : p.id = call[r].id}

-----------------------------------------------------------------------------
SendCall(r, q) ==
  /\ Step(r, "new", "sent")
  /\ call' = [call EXCEPT ![r] = q]
  /\ before' = [before EXCEPT ![r] = {p \in Request : pc[p] = "answered"}]
  /\ UNCHANGED <<projects, answer, faults, born>>

(* require_tenant: the token was minted by a login without a slug. *)
RequireTenant(r) ==
  /\ pc[r] = "sent"
  /\ call[r].tenant = None
  /\ Respond(r, "sent", 403, {})
  /\ UNCHANGED <<projects, call, faults, born, before>>

Asks(r, op) == pc[r] = "sent" /\ call[r].op = op /\ call[r].tenant # None

KeyTaken(r) == \E p \in OfTenant(r) : p.key = KeyOf(r)

Insert(r) ==
  \E i \in ProjectId \ {p.id : p \in born} :
    LET row == [id |-> i, tenant |-> call[r].tenant, key |-> KeyOf(r),
                user |-> call[r].user, by |-> r]
    IN  projects' = projects \cup {row} /\ born' = born \cup {row}

(* create_project: the commit, or IntegrityError on (tenant_id, key). *)
CreateProject(r) ==
  /\ Asks(r, "create")
  /\ \/ KeyTaken(r) /\ Respond(r, "sent", 409, {}) /\ UNCHANGED <<projects, born>>
     \/ ~ KeyTaken(r) /\ Insert(r) /\ Step(r, "sent", "committed") /\ UNCHANGED answer
  /\ UNCHANGED <<call, faults, before>>

(* The refresh raises if the row has been deleted since the commit. *)
RefreshProject(r) ==
  LET own == {p \in projects : p.by = r}
  IN  /\ Respond(r, "committed", IF own = {} THEN 500 ELSE 201, own)
      /\ UNCHANGED <<projects, call, faults, born, before>>

ListProjects(r) ==
  /\ Asks(r, "list")
  /\ Respond(r, "sent", 200, OfTenant(r))
  /\ UNCHANGED <<projects, call, faults, born, before>>

GetProject(r) ==
  /\ Asks(r, "get")
  /\ Respond(r, "sent", IF Found(r) = {} THEN 404 ELSE 200, Found(r))
  /\ UNCHANGED <<projects, call, faults, born, before>>

(* delete_project: the query, *)
FindProject(r) ==
  /\ Asks(r, "delete")
  /\ \/ Found(r) = {} /\ Respond(r, "sent", 404, {})
     \/ Found(r) # {} /\ Step(r, "sent", "found") /\ UNCHANGED answer
  /\ UNCHANGED <<projects, call, faults, born, before>>

(* and the commit, which another request's delete may have forestalled.    *)
ForgetToCommit(r) ==   \* mutant: without db.commit() the close rolls back
  /\ Respond(r, "found", 204, {})
  /\ UNCHANGED <<projects, call, faults, born, before>>

DeleteProject(r) ==
  /\ Respond(r, "found", 204, {})
  /\ projects' = projects \ Found(r)
  /\ UNCHANGED <<call, faults, born, before>>

-----------------------------------------------------------------------------
(* Failures. *)

(* A statement or the commit raises an OperationalError; when the reply to *)
(* the COMMIT is what was lost, the database has committed all the same.   *)
DatabaseFails(r) ==
  /\ faults < MaxFaults
  /\ \E from \in InFlight : Respond(r, from, 500, {})
  /\ call[r].tenant # None
  /\ \/ UNCHANGED <<projects, born>>
     \/ Asks(r, "create") /\ ~ KeyTaken(r) /\ Insert(r)
     \/ pc[r] = "found" /\ projects' = projects \ Found(r) /\ UNCHANGED born
  /\ faults' = faults + 1
  /\ UNCHANGED <<call, before>>

(* The process dies with every request it was handling. *)
Crash ==
  /\ faults < MaxFaults
  /\ \E r \in Request : pc[r] \in InFlight
  /\ pc' = [r \in Request |-> IF pc[r] \in InFlight THEN "lost" ELSE pc[r]]
  /\ faults' = faults + 1
  /\ UNCHANGED <<projects, call, answer, born, before>>

HandlerStep(r) ==
  \/ RequireTenant(r) \/ CreateProject(r) \/ RefreshProject(r) \/ ListProjects(r)
  \/ GetProject(r) \/ FindProject(r) \/ DeleteProject(r)

-----------------------------------------------------------------------------
(* Within a tenant a key stands for one project, in whatever case it was   *)
(* typed, and who is told 409 lost it to another request: it never fails   *)
(* on the row it has inserted itself, however requests race.               *)
KeyConflictIsReal ==
  /\ \A p, q \in projects : p.tenant = q.tenant /\ Upper[p.key] = Upper[q.key] => p = q
  /\ \A r \in Request : answer[r].code = 409 =>
       \E p \in born : p.tenant = call[r].tenant /\ Upper[p.key] = KeyOf(r) /\ p.by # r

(* Who was told 201 finds the project by the id it was shown, in every     *)
(* later request of that tenant, until one of the tenant asks to delete    *)
(* it; and once that was answered 204, no later request finds it.          *)
ProjectLastsUntilDeleted ==
  \A l \in Request : pc[l] = "answered" /\ answer[l].code # 500 =>
    \A c \in before[l] : \A p \in answer[c].shown :
      LET deletes == {d \in Request : pc[d] # "new" /\ call[d].op = "delete"
                                      /\ call[d].tenant = p.tenant /\ call[d].id = p.id}
      IN  /\ /\ call[c].op = "create" /\ deletes \subseteq {l}
             /\ call[l].tenant = p.tenant
             /\ call[l].op \in {"get", "delete"} /\ call[l].id = p.id
             => answer[l].code # 404
          /\ (\E d \in deletes \cap before[l] : answer[d].code = 204)
             => p \notin answer[l].shown
=============================================================================
