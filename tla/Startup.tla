------------------------------ MODULE Startup ------------------------------
(***************************************************************************)
(* How a service comes up: entrypoint.sh upgrades the schema of the        *)
(* service's database and then becomes uvicorn, which imports the          *)
(* application, instruments it and starts serving; the two event services  *)
(* start their consumer thread then.  Containers of one service may be     *)
(* started at once, and an operator may run `make migrate-...` inside one, *)
(* each with an alembic of its own on the same database.                   *)
(***************************************************************************)
EXTENDS Naturals, Sequences

CONSTANTS
  Container,   \* the containers of one service
  Hand,        \* upgrades run by hand, each inside a container
  MaxFaults    \* bound: database failures and container deaths

Migrator == Container \cup Hand

ASSUME StartupAssumption ==
  /\ Container \cap Hand = {}
  /\ MaxFaults \in Nat

VARIABLES
  service,   \* which service this is; never changes
  schema,    \* what is committed: tables, indexes, constraints, the revision
  stage,     \* where a container or an upgrade by hand is
  done,      \* statements executed in an upgrade's open transaction
  home,      \* the container an upgrade by hand runs in
  faults

startupVars == <<service, schema, stage, done, home, faults>>

-----------------------------------------------------------------------------
(* What upgrade() of each service executes, and what each statement makes. *)
AuditUpgrade ==
  <<{"audit_events", "uq_audit_events_event_id"}, {"ix_audit_events_tenant_event_type"}>>

AuthUpgrade == <<{"users"}, {"ix_users_email"}>>

IssuesUpgrade == <<{"issues", "ck_issue_status"}, {"ix_issues_tenant_project"}>>

ProjectsUpgrade == <<{"projects", "uq_project_tenant_key"}, {"ix_projects_tenant_id"}>>

TenantUpgrade ==
  <<{"tenants"}, {"ix_tenants_slug"},
    {"memberships", "ck_membership_role", "uq_membership_tenant_user"},
    {"ix_memberships_tenant_id"}, {"ix_memberships_user_id"}>>

Upgrade ==
  [audit |-> AuditUpgrade, auth |-> AuthUpgrade, issues |-> IssuesUpgrade,
   projects |-> ProjectsUpgrade, tenant |-> TenantUpgrade]

Migrating == DOMAIN Upgrade   \* notifications-service has no database

Service == Migrating \cup {"notifications"}

(* What the models of each service declare, and its handlers rely on. *)
AuditEvent == {"audit_events", "uq_audit_events_event_id", "ix_audit_events_tenant_event_type"}

User == {"users", "ix_users_email"}

Issue == {"issues", "ck_issue_status", "ix_issues_tenant_project"}

Project == {"projects", "uq_project_tenant_key", "ix_projects_tenant_id"}

TenantAndMembership ==
  {"tenants", "ix_tenants_slug", "memberships", "uq_membership_tenant_user",
   "ck_membership_role", "ix_memberships_tenant_id", "ix_memberships_user_id"}

Declared ==
  [audit |-> AuditEvent, auth |-> User, issues |-> Issue, projects |-> Project,
   tenant |-> TenantAndMembership, notifications |-> {}]

(* Alembic makes its own table first and writes the revision last. *)
Statements == <<{"alembic_version"}>> \o Upgrade[service] \o <<{"revision"}>>

(* What m has made in its transaction; others wait for it, and see nothing *)
(* of it before the commit.                                                *)
Made(m) == UNION {Statements[i] : i \in 1 .. done[m]}

UpgradeStage == {"begun", "upgrading"}

Stage == UpgradeStage \cup {"down", "importing", "building", "starting", "serving"}

StartupTypeOK ==
  /\ service \in Service
  /\ stage \in [Migrator -> Stage]
  /\ done \in [Migrator -> Nat]
  /\ home \in [Hand -> Container]
  /\ faults \in 0 .. MaxFaults

StartupInit ==
  /\ service \in Service
  /\ schema = {}
  /\ stage = [m \in Migrator |-> "down"]
  /\ done = [m \in Migrator |-> 0]
  /\ home \in [Hand -> Container]
  /\ faults = 0

-----------------------------------------------------------------------------
(* docker compose up: there is no restart policy, a container that went    *)
(* down stays down until somebody starts it.                               *)
Start(c) ==
  /\ stage[c] = "down"
  /\ stage' = [stage EXCEPT ![c] = IF service \in Migrating THEN "begun" ELSE "importing"]
  /\ UNCHANGED <<service, schema, done, home, faults>>

(* make migrate-..., inside a running container. *)
StartByHand(h) ==
  /\ stage[h] = "down"
  /\ service \in Migrating
  /\ \E c \in Container :
       /\ stage[c] # "down"
       /\ home' = [home EXCEPT ![h] = c]
  /\ stage' = [stage EXCEPT ![h] = "begun"]
  /\ UNCHANGED <<service, schema, done, faults>>

(* The processes that end when m does: docker exec does not outlive its    *)
(* container.  PostgreSQL rolls back what they left open.                  *)
EndsWith(m) == {m} \cup {h \in Hand : home[h] = m}

Exit(m) ==
  /\ stage' = [n \in Migrator |-> IF n \in EndsWith(m) THEN "down" ELSE stage[n]]
  /\ done' = [n \in Migrator |-> IF n \in EndsWith(m) THEN 0 ELSE done[n]]

(* `alembic upgrade head` is over, and with success.  A container goes on  *)
(* with uvicorn.                                                           *)
Succeed(m) ==
  /\ stage' = [stage EXCEPT ![m] = IF m \in Container THEN "importing" ELSE "down"]
  /\ done' = [done EXCEPT ![m] = 0]

(* mutant: a shell without `set -e` goes on with uvicorn *)
GoOn(m) == Succeed(m)

(* `alembic upgrade head` is over, and without success. *)
MigrationFails(m) == Exit(m)

(* The transaction begins with a look at the revision. *)
ReadRevision(m) ==
  /\ stage[m] = "begun"
  /\ IF "revision" \in schema
       THEN Succeed(m)
       ELSE stage' = [stage EXCEPT ![m] = "upgrading"] /\ UNCHANGED done
  /\ UNCHANGED <<service, schema, home, faults>>

(* The next statement, unless it is behind another's transaction that made *)
(* the same: then it waits for the end of that one.                        *)
Ready(m) ==
  /\ stage[m] = "upgrading"
  /\ done[m] < Len(Statements)
  /\ \A n \in Migrator \ {m} : Statements[done[m] + 1] \cap Made(n) = {}

(* mutant: each statement commits on its own *)
ExecuteAndCommit(m) ==
  /\ done' = [done EXCEPT ![m] = @ + 1]
  /\ schema' = schema \cup Statements[done[m] + 1]

Execute(m) ==
  /\ done' = [done EXCEPT ![m] = @ + 1]
  /\ UNCHANGED schema

RunStatement(m) ==
  /\ Ready(m)
  /\ Statements[done[m] + 1] \cap schema = {}
  /\ Execute(m)
  /\ UNCHANGED <<service, stage, home, faults>>

(* Another one has committed since this one looked: "already exists". *)
StatementRaises(m) ==
  /\ Ready(m)
  /\ Statements[done[m] + 1] \cap schema # {}
  /\ MigrationFails(m)
  /\ UNCHANGED <<service, schema, home, faults>>

Commit(m) ==
  /\ stage[m] = "upgrading"
  /\ done[m] = Len(Statements)
  /\ schema' = schema \cup Made(m)
  /\ Succeed(m)
  /\ UNCHANGED <<service, home, faults>>

(* The database is not there yet, or goes away; at the commit, alembic     *)
(* cannot know whether it happened.                                        *)
DatabaseFails(m) ==
  /\ stage[m] \in UpgradeStage
  /\ faults < MaxFaults
  /\ \/ UNCHANGED schema
     \/ done[m] = Len(Statements) /\ schema' = schema \cup Made(m)
  /\ MigrationFails(m)
  /\ faults' = faults + 1
  /\ UNCHANGED <<service, home>>

-----------------------------------------------------------------------------
Instrumentor == {"sqlalchemy", "httpx", "pika", "redis"}

(* mutant: only what is not installed is forgiven *)
MissingOnly == {"missing"}

(* How an instrumentor may fail, and tracing go on: a library the service  *)
(* does not have, and anything else.                                       *)
Caught == {"missing", "raised"}

(* The module is imported, and its first line of its own is setup_tracing. *)
(* The exporter connects in a thread of its own, and later.                *)
SetupTracing(c) ==
  /\ stage[c] = "importing"
  /\ \E outcome \in [Instrumentor -> {"enabled", "missing", "raised"}] :
       IF \A i \in Instrumentor : outcome[i] \in {"enabled"} \cup Caught
         THEN stage' = [stage EXCEPT ![c] = "building"] /\ UNCHANGED done
         ELSE Exit(c)
  /\ UNCHANGED <<service, schema, home, faults>>

(* Whatever comes of it is logged. *)
InstrumentApp(c) ==
  /\ stage[c] = "building"
  /\ stage' = [stage EXCEPT ![c] = "starting"]
  /\ UNCHANGED <<service, schema, done, home, faults>>

(* uvicorn runs the lifespan and listens.  In the event services the       *)
(* consumer thread begins here (module Consumer).                          *)
Lifespan(c) ==
  /\ stage[c] = "starting"
  /\ stage' = [stage EXCEPT ![c] = "serving"]
  /\ UNCHANGED <<service, schema, done, home, faults>>

Crash(c) ==
  /\ stage[c] # "down"
  /\ faults < MaxFaults
  /\ Exit(c)
  /\ faults' = faults + 1
  /\ UNCHANGED <<service, schema, home>>

MigrationStep(m) == ReadRevision(m) \/ RunStatement(m) \/ StatementRaises(m) \/ Commit(m)

ApplicationStep(c) == SetupTracing(c) \/ InstrumentApp(c) \/ Lifespan(c)

StartupNext ==
  \/ \E c \in Container : Start(c) \/ ApplicationStep(c) \/ Crash(c)
  \/ \E h \in Hand : StartByHand(h)
  \/ \E m \in Migrator : MigrationStep(m) \/ DatabaseFails(m)

StartupSpec == StartupInit /\ [][StartupNext]_startupVars

(* Processes go on, and a statement returns, or waits for a transaction    *)
(* that does.  Nobody has to start anything.                               *)
FairStartupSpec ==
  /\ StartupSpec
  /\ \A m \in Migrator : WF_startupVars(MigrationStep(m))
  /\ \A c \in Container : WF_startupVars(ApplicationStep(c))

-----------------------------------------------------------------------------
(* The database holds all of an upgrade, its revision included, or nothing *)
(* of it, wherever upgrades fail, die or meet: the revision never tells    *)
(* the next start to leave out what is not there, nor to make again what   *)
(* is.                                                                     *)
MigrationIsAtomic ==
  schema # {} => schema = UNION {Statements[i] : i \in DOMAIN Statements}

(* No application is imported, and so none answers a request or consumes   *)
(* an event, before its database has every table, index and constraint its *)
(* models declare: a consumer without its table would nack, and so lose,   *)
(* every event.                                                            *)
ServesWholeSchema ==
  \A c \in Container :
    stage[c] \notin UpgradeStage \cup {"down"} => Declared[service] \subseteq schema

(* A start that fails leaves nothing that has to be repaired: if somebody  *)
(* starts each container whenever it is down, all serve in the end,        *)
(* however many upgrades run at once.                                      *)
StartingAgainIsEnough ==
  (\A c \in Container : []<>(stage[c] # "down")) =>
    \A c \in Container : <>[](stage[c] = "serving")
=============================================================================
