----------------------------- MODULE Workspace -----------------------------
(***************************************************************************)
(* auth-service, tenant-service and projects-service together: a client    *)
(* signs up, logs in, founds a tenant or is added to one, logs in again    *)
(* with its slug, and works on projects with the token it is handed.  The  *)
(* services share nothing but the tokens and the call login makes: the     *)
(* user of a call is the token's, and projects-service asks nobody whether *)
(* the token's user is in the token's tenant.                              *)
(***************************************************************************)
EXTENDS Accounts

CONSTANTS
  ProjectRequest, ProjectId, Key, Upper,
  Wants       \* what is asked of projects-service, but for user and tenant

ASSUME WorkspaceAssumption ==
  /\ Wants \subseteq [op : {"create", "list", "get", "delete"}, key : Key \cup {None},
                      id : ProjectId \cup {None}]
  /\ \A w \in Wants : w.op = "create" => w.key \in Key
  /\ Upper \in [Key -> Key]
  /\ \A k \in Key : Upper[Upper[k]] = Upper[k]

VARIABLES projects, progress, asked, result, born, since

(* progress, asked, result and since are Projects' pc, call, answer and    *)
(* before.                                                                 *)
P == INSTANCE Projects
       WITH Request <- ProjectRequest, pc <- progress, call <- asked, answer <- result,
            before <- since

projectVars == <<projects, progress, asked, result, born, since>>

workspaceVars == <<tenancyVars, accountsVars, projectVars>>

Tokens == {reply[a].token : a \in AuthRequest} \ {None}

WorkspaceTypeOK ==
  /\ TenancyTypeOK
  /\ AccountsTypeOK
  /\ P!TypeOK

WorkspaceInit ==
  /\ TenancyInit
  /\ AccountsInit
  /\ P!Init

(* All that clients may ask of tenant-service is asked with a token. *)
TenantCall(r) ==
  \E k \in Tokens, q \in Calls :
    /\ q.op # "lookup"
    /\ q.user = k.user
    /\ SendCall(r, q)

ProjectCall(r) ==
  \E k \in Tokens, w \in Wants :
    P!SendCall(r, [op |-> w.op, key |-> w.key, id |-> w.id, user |-> k.user,
                   tenant |-> k.tenant])

TenantServiceStep ==
  \/ \E r \in Request : TenantCall(r) \/ HandlerStep(r) \/ DatabaseFails(r)
  \/ Crash

ProjectsServiceStep ==
  \/ \E r \in ProjectRequest : ProjectCall(r) \/ P!HandlerStep(r) \/ P!DatabaseFails(r)
  \/ P!Crash

(* Every service has a database of its own. *)
WorkspaceNext ==
  \/ AccountsNext /\ UNCHANGED projectVars
                  /\ UNCHANGED <<tenants, members, flushed, pc, call, answer, before>>
  \/ TenantServiceStep /\ UNCHANGED accountsVars /\ UNCHANGED projectVars
  \/ ProjectsServiceStep /\ UNCHANGED accountsVars
                  /\ UNCHANGED <<tenants, members, flushed, pc, call, answer, before>>

WorkspaceSpec == WorkspaceInit /\ [][WorkspaceNext]_workspaceVars

-----------------------------------------------------------------------------
(* Without a check of its own, projects-service lets nobody see a project  *)
(* or create one who is not a member of its tenant: each one shown was     *)
(* created by a member, and shown to a member.                             *)
OnlyMembersAct ==
  \A r \in ProjectRequest : \A p \in result[r].shown :
    \A u \in {p.user, asked[r].user} :
      \E m \in members : m.tenant = p.tenant /\ m.user = u

KeyConflictIsReal == P!KeyConflictIsReal

ProjectLastsUntilDeleted == P!ProjectLastsUntilDeleted
=============================================================================
