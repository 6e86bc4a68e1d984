# A TLA+ verification of mjira

mjira is a multi-tenant issue tracker made of FastAPI services behind an nginx
gateway, with one PostgreSQL database per service, a RabbitMQ topic exchange
for domain events and a Redis for token revocation and rate limits. This
directory holds TLA+ models of its services, TLC configurations that check
them on small instances, and TLAPS proofs of their safety for every size.

Run `tlc -config <cfg> <module>` for a run of the table below, and
`tlapm` on the modules named `..._proof` for the proofs.

## The system

| Component | State | Operations | Talks to |
|---|---|---|---|
| issues-service (`services/issues/app`) | table `issues` | create, list, get, patch, delete | publishes `issue.*` after its commit |
| event publisher (`shared/events`) | none; a connection per event | `publish_event` | the exchange `mjira.events`; logs and swallows every error |
| audit-service (`services/audit/app`) | table `audit_events`, queue `audit.all` | `_persist` in a daemon thread | consumes `#` |
| notifications-service (`services/notifications/app`) | queue `notifications.issue.events` | `_on_issue_event` in a daemon thread | consumes `issue.*`, sends mail by SMTP |
| tenant-service (`services/tenant/app`) | tables `tenants`, `memberships` | create, list, read, add member, internal lookup | called by auth-service during login |
| auth-service (`services/auth/app`) | table `users` | signup, login, me, logout | calls tenant-service; writes the blocklist |
| sessions (`shared/jwt_utils`, `shared/cache`) | tokens at the clients, blocklist in Redis | mint, check, revoke | used by every HTTP service |
| rate limit (`shared/cache`) | counters in Redis | one middleware | in front of auth, tenant, projects, issues |
| projects-service (`services/projects/app`) | table `projects` | create, list, get, delete | nobody; issues only carry its ids |
| start-up (`entrypoint.sh`, `alembic/`, `shared/observability`) | a database's schema and revision | upgrade, set up tracing, serve | PostgreSQL, before the service listens |
| gateway, tests, CI | none that a handler reads | | |

Handlers are synchronous functions in FastAPI's thread pool, one database
session each at READ COMMITTED, so that any other request can run between a
handler's SELECT, its commit, its refresh and its publication. The consumers
are threads of their own, with a broker that redelivers what was not
acknowledged. Redis is shared by processes that know nothing of each other.

What is hard about each part, and what makes it correct:

* **issues-service.** Races on one issue (two PATCHes, a PATCH and a DELETE),
  failures between commit and publication, and the order of events. Correct
  when no acknowledged change is undone or hidden, a deleted issue stays
  deleted, no issue crosses tenants, and what an event tells has happened (two
  DELETEs that race both announce the one deletion).
* **consumers.** Redelivery, an acknowledgement on a dead connection, two
  replicas at once, poison messages, outages of the database. Correct when an
  event is recorded once and before it is acknowledged, and the queue drains.
* **tenant-service.** A transaction of two inserts, a unique index that makes
  others wait, a role check before an insert. Correct when every tenant has its
  owner and roles are granted only by those who may.
* **auth-service and projects-service.** A login reads another service's tables
  between two steps of its own, and its token is believed ever after. Correct
  when a token says what was so, its claims never exceed what tenant-service
  answered, whoever was given an account or a tenant can enter it, and a project
  is found until its tenant deletes it.
* **sessions.** Rounding of lifetimes, a check that races a logout, a Redis that
  fails open. Correct when a revoked token stays revoked and others are left
  alone.
* **from a change to its audit row.** Two services and a broker that fail apart,
  and no transaction across them. Correct when the trail tells committed changes
  only, each once, in the order a client made them, and when no change is lost in
  a way the code does not know of.
* **start-up.** Several containers, and an operator, upgrade one empty database
  at once and may die in between. Correct when the schema is whole or absent, no
  one serves without it, and a failed start needs no repair.
* **rate limit.** Two Redis commands that are not one, and a clock that moves
  between them. Correct when a window lets at most the limit through, as long as
  Redis answers and keeps its counters, and nobody is refused for another window
  or key.

## The modules

| Module | Models | Extends |
|---|---|---|
| `Consumer` | the consume loop the two event services share, and the broker | |
| `AuditLog` | the abstract promise of audit-service | |
| `Audit` | `_persist` in the loop; the refinement of `AuditLog` | `Consumer` |
| `Notifications` | `_on_issue_event` and the SMTP sender in the loop | `Consumer` |
| `Issues` | the five handlers of issues-service | |
| `Tenancy` | the handlers of tenant-service | |
| `Accounts` | signup and login of auth-service, login's call included | `Tenancy` |
| `Projects` | the handlers of projects-service | |
| `Workspace` | auth-, tenant- and projects-service, joined by tokens | `Accounts`, instance of `Projects` |
| `Sessions` | a token's life and the blocklist | |
| `RateLimit` | the middleware | |
| `Journal` | the abstract promise of issues-service and audit-service together | |
| `System` | the two joined by the exchange; the refinement of `Journal` | `Issues`, instance of `Audit` |
| `Startup` | entrypoint, schema upgrade and application start of any service | |
| `MC...` | instances for TLC: model values, messages and calls | the module of that name |
| `Consumer_proof` | the transport, for any handler: theorems and proofs | `Consumer`, `TLAPS` |
| `Audit_proof`, `Notifications_proof` | the two consumers | `Audit` or `Notifications`, `Consumer_proof` |
| `System_proof` | issues-service alone, then the composition: types and tenants, events, answers, what goes untold, the refinement, the order of the trail | `System`, `TLAPS` |
| `Workspace_proof` | tenant-service alone, then the three services together | `Workspace`, `TLAPS` |
| `Startup_proof`, `Sessions_proof`, `RateLimit_proof` | the module of that name | that module, `TLAPS` |

Operators marked `mutant:` in the modules are not part of the models: each
is a plausible mistake in the operator that follows it, and `PROJECT.json` names
the property that a run with that mistake violates.

### Consumer, Audit, Notifications

`queue` is every message ever routed to the queue and `place[k]` says where
message `k` is: `ready`, at a replica (unacknowledged), `orphaned` (its channel
is gone and the broker has not requeued it yet), `acked` or `dropped`. `link`,
`buffer` and `hand` are a replica's connection, its delivered and unsettled
messages (`basic_qos` bounds them) and the progress of `on_message`. A broken
connection is noticed only at the next use, so a replica goes on handling a
message the broker has given to another one, and its late acknowledgement is
written to nobody (`SettleUnheard`). `on_message` acknowledges what the handler
returned from and drops what it raised on. Publication copies a message to the
queue only if the queue is bound, which the first connecting consumer does.
`_run_forever` catches AMQP errors only: any other one ends the thread
(`ThreadDies`), the container stays up and healthy, and the replica consumes
nothing more until somebody restarts it (`Restart`); a container that dies does
the same to its thread (`Crash`).

`Audit` adds the table. `_persist` skips a message without `event_id`, raises on
a malformed one, and inserts any other with ON CONFLICT DO NOTHING; when the
database fails the handler raises, and the row may be there all the same
(`DatabaseFails`). `Notifications` adds the mails; the sender swallows every
SMTP error, and an error at the end of the dialogue may come after the mail was
taken.

`AuditLog` knows accepted messages, their fate and the log. A message may be
released only if its record is in the log, or it can have none. `Audit`
implements it with `accepted <- queue`, `fate <- Fate`, `log <- rows`. A row may
be written for a message already dropped: the broker gives up a message whose
first handler is still alive behind a dead connection.

### Issues

Each request goes through `sent`, `loaded`, `committed`, `refreshed`, `told`,
`answered`. `copy` is its ORM object. SQLAlchemy writes only the columns that
differ from what was loaded (`Dirty`), raises on the update of a vanished row or
a null in a required column, and only warns on the delete of a vanished one.
`RefreshIssue` reads the row as it is by then, so an answer and an event may
carry another request's columns. A database failure answers 500, with the commit
done or not; a broker failure is swallowed; a crash loses every request in
flight. `born`, `before`, `commits` and `removedBy` are history variables:
`commits` has every writing transaction that committed, also that of a DELETE whose row
was gone, and `removedBy` says which DELETE really took a row away.

Two DELETEs that load one row both commit, answer 204 and publish `issue.deleted`;
the second has removed nothing. `EventTellsWhatHappened` says what such an
event is still worth: the issue was there when its request came and was removed
while it ran, by that request or by one beside it, never by one answered before
it was sent.

Columns are a set: the instance has a required one that events carry (`title`)
and a nullable one that they do not (`assignee`). The row's id and tenant are
apart, because no body can name them. Validation by pydantic happens before the
handler: bodies are those that pass it. `title: null` passes it, and makes the
flush raise.

### System, Journal

`System` is `Issues` and an instance of `Audit`, whose messages are the events
that `Issues` publishes and whose table is `log`. A step of `Issues` that publishes
is `A!Publish` of the same event in the same step: `publish_event` returns when the
broker has it. Each service keeps its own faults, and nothing else is shared. An
event names its request and a request publishes at most once, so that the event
stands for its `event_id`; all of them can be stored.

`Journal` knows the changes done and the changes recorded. A change is a committed
transaction on an issue; each of two DELETEs that race counts as one, and
`EventTellsWhatHappened` says what that means for the issue. A change is recorded
after it was done, once, and its record is final. `System` implements it with
the commits of `issues` as `done` and the rows of `audit_events` as `recorded`:
that takes the commit before the publication in the one service, the unique
`event_id` in the other, and what either tells about tenant, issue and kind.
`AcknowledgedIsRecorded` is the other half of the promise: what is committed and
answered with success is recorded in the end, unless it is `Lost` in one of three
ways the code has: the publication failed and was swallowed, no consumer had
bound the queue, or `_persist` raised.

### Startup

One service, any of the six, with its database, its containers and upgrades that
an operator starts by hand. `schema` is what is committed; `done[m]` counts the
statements that upgrade `m` has executed in its transaction, among them alembic's
own table before and the revision after those of `upgrade()`. A statement that makes what
another open transaction has made waits for its end; if that commits, it raises,
since the revision was read before. `set -e` ends the container then, and
nothing but a start by somebody brings it back. After the upgrade the container
imports the application: each instrumentor of `setup_tracing` may be enabled,
missing or raise. What each model declares (`Declared`) is translated from
`models.py` and apart from what each `upgrade()` makes.

### Tenancy

`flushed[r]` is the tenant a transaction has inserted and not committed; the
unique index makes the flush of the same slug wait until it is gone. A commit
makes tenant and owner visible in one step. New slugs are lower-cased, slugs in
lookups are not. No handler updates or deletes, which the action property
`MembershipIsGranted` states and the rest relies on. Tenants and memberships carry
the request that inserted them (`by`, a history field), so that `ConflictIsReal` can say
that a 409 is due to another request's row, not to one the refused request committed
itself.

### Accounts, Projects, Workspace

`stage[a]` is a post's progress: `sent`, `committed` (signup), `asking` and
`minting` (login). Login reads `users`, then asks tenant-service, whose join over
its two tables (`MembershipsOf`, the same operator `LookupMembership` uses) is
read once in between; or it gets no good answer and ends with 502 or 503. Then
it mints the token. Between the query and the token other requests found
tenants and add members. Addresses are lower-cased by both handlers. `earlier` is
a history variable.

`Projects` has one step per transaction: a creation is its commit and its
refresh, a deletion its query and its commit. The refresh of a row deleted in
between raises. Keys are upper-cased by the schema, and unique per tenant.

`Workspace` puts the three services side by side, each with its own database and
each able to fail or crash. A request to tenant-service or projects-service
carries the user, and to the latter the tenant, of a token that login has
minted. Nothing else connects them: projects-service asks nobody about
membership, so that `OnlyMembersAct` is a property of the three together.
`Projects` has variables of the same names as `Tenancy`; `Workspace` instantiates
it with `progress`, `asked`, `result` and `since` for `pc`, `call`, `answer` and
`before`. A token's expiry and revocation are in `Sessions`.

### Sessions

One clock in ticks, `Tick` to the second. A token's `exp` is a whole second and
python-jose accepts it until that second is over; the TTL that logout computes
is `int(exp - now)`. Checking a token is two steps (signature and expiry, then
blocklist) and so is a logout (compute the TTL, SETEX). Redis may become
unreachable, in which case checks pass and logouts are swallowed, and may
restart and lose keys (`docker-compose.yml` gives it no volume).

### RateLimit

A request reads the clock and forms its key, then INCR, then EXPIRE if it was
the first, then decides. Requests carry a tenant, a user or nothing; all clients
come from the gateway's address. Modelled are a crash between the commands, a Redis
that does not answer INCR (which may have counted all the same) or EXPIRE, and one
that restarts: it loses any of its counters, or has older numbers of them, with or
without TTL (`docker-compose.yml` gives it no volume). A counter that was lost
begins again at 1 inside its window, so that each restart lets the limit pass once
more, and each unanswered command one request; `AtMostLimitPass` says that nothing
else does. Not modelled are health probes, which are exempt, and a snapshot that
brings back a key which had expired by then.

## The runs

| Run | Instance | Shows |
|---|---|---|
| `audit` | 2 replicas, 2 messages of 4 kinds, 2 faults | `AckedIsRecorded`, `ImplementsAuditLog`, and under fairness `EveryMessageSettled` |
| `audit_retried` | 1 fault | violation: an event whose insert failed is dropped, not retried |
| `audit_held` | 1 fault | violation: an event published before the first consumer is discarded |
| `notifications` | 2 replicas, 2 messages of 4 kinds, 2 faults | `CopiesCostFaults`, `SettledWasTried`, `EveryMessageSettled` |
| `issues` | 3 requests of two tenants and of a token without, all kinds, on one issue and a new one, 1 fault | `NothingCrossesTenants`, `NoStaleAnswer`, `GoneIsGone`, `EventsFollowClientOrder`, `EventTellsWhatHappened`, `NoChangeGoesUntold`, `EveryChangeWasAskedFor` |
| `tenancy` | 3 requests, 3 users, one slug in two spellings, 1 fault | `EveryTenantIsOwned`, `ConflictIsReal`, `CreatorFindsTenant`, `OutsidersSeeNothing`, `MembershipIsGranted`, and under fairness `EveryRequestEnds` |
| `workspace` | 2 posts to auth-service, 1 creation of a tenant, 3 requests for projects, 2 users, 1 fault | `TokenTellsTheTruth`, `NobodyIsLockedOut`, `OnlyMembersAct`, `KeyConflictIsReal`, `ProjectLastsUntilDeleted` |
| `sessions_safety` | 3 requests, 2 tokens of one user, 1 fault of Redis | `RevokedUntilTheLastSecond` |
| `sessions_lasts` | 2 requests, Redis healthy | violation: a logged out token is accepted again |
| `ratelimit_safety` | 3 requests, 2 windows, limit 1, 1 fault or restart of Redis | `AtMostLimitPass`, `RefusedOnlyOverLimit` |
| `system` | 2 writing requests of 2 tenants, 1 replica of audit-service, 1 fault of each service | `TrailFollowsClientOrder`, `ImplementsJournal`, and under fairness `AcknowledgedIsRecorded` |
| `startup` | each service in turn, 2 containers, 1 upgrade by hand at a time, 2 faults | `MigrationIsAtomic`, `ServesWholeSchema`, and under fairness `StartingAgainIsEnough` |

Every passing run but `system` and `startup` also checks its module's type
invariant. Deadlock checking is off in all of them: the instances have finitely
many requests, messages or ticks, and rest when these are used up. `OneRowPerEvent`,
`BufferedIsUnacked` and `SettledIsFinal` of the audit service are proved, and part
of what `ImplementsAuditLog` says, so that no run lists them.

**Why the bounds are enough.** The races at stake have two actors, and some an
observer: three requests give each of them a part (two writers and a reader, a
creator, a rival and a lookup, a logout and two uses). The consumer's hazards
need a message, its copy and a second holder: two messages, which may carry one
`event_id`, two replicas, and two faults, one to orphan a message and one more
for its second handler. Two and a half seconds of two ticks each reach a
token's last second. Two windows are enough for a count that leaks from one to
the next. In `system` two requests are a change and its successor, on one
issue or on an issue the first created, or two racing ones; the races of three
are in `issues` and those of two replicas in `audit`. In `startup` a container
meets another one and an operator, which makes three upgrades at once; two faults are
one for each of two of them. In `workspace` two posts to auth-service are a
signup and its rival or its login, or, with two users who signed up before, the
login that founds the tenant and the login that enters it or is kept out. Its
constraint `MCProjectsLast` explores requests to projects-service only while the
other requests rest: what projects-service reads of the others is tokens,
which never change once minted. Who was added to a tenant is left to `tenancy`.
The instance has one tenant, and its signups spell the address alike: that another
tenant's token shows nothing and that signups in two spellings race for one account
are covered by `OnlyMembersEverAct` and `WorkspaceIsTyped` only.
The faults are bounded by `MaxFaults`, publications by `MaxPublished`,
time by `MaxNow`; each is a named constant, tested in a guard. The proofs below
hold for any value of them.

**Fairness.** `AuditFairness` and `NotificationsFairness` assume that the loop's
thread goes on: `_run_forever` reconnects after each AMQP error, a handler's
database calls return or raise, the SMTP client has a timeout of 5 seconds, and
that the broker requeues what a closed channel held. No fairness is assumed of
publications or faults; that faults are bounded in number stands for their
ending. Nobody is assumed to restart a container (`Restart` has no fairness), so
`EveryMessageSettled` and `AcknowledgedIsRecorded` have a premise instead: that
from some time on a consumer thread is alive. `FairSystemSpec` assumes the
same of audit-service and nothing of issues-service, whose clients and handlers
may stop anywhere. `FairStartupSpec` assumes that started processes
go on and a statement returns or waits for a transaction that ends; that
somebody starts containers is the premise of `StartingAgainIsEnough`. `FairTenancySpec` assumes that each request's thread goes on and
its statements return; a wait for a slug is not a step until the slug is free,
so `EveryRequestEnds` depends on the other transaction's end. Safety needs no
fairness.

## What the code does that its documentation does not say

1. `services/notifications/README.md:144` says RabbitMQ "retries until a consumer
   acks". The consumers nack with `requeue=False` and there is no dead-letter
   exchange: a moment without database loses audit events (`audit_retried`). The
   same document describes the nack at line 112.
2. `services/notifications/README.md:68` says producer and consumer "can come up
   in any order". The publisher declares the exchange only, so what is published
   before the consumer's first connection is discarded (`audit_held`).
3. `services/auth/app/routes.py:81` says the blocklist entry "expires when the JWT
   would have anyway". It expires up to two seconds earlier, and a logout in the
   last second stores nothing (`sessions_lasts`).

Two more consequences are modelled but not checked as violations. A logout made
while Redis is unreachable is answered 204 and never stored, so that the
token is honoured after the outage too. Behind the gateway the peer address is
the gateway's, so that all clients without a token share one bucket of the rate
limit, although `shared/cache/redis_client.py:73` speaks of the client's address.

## What is proved

For every value of the constants (any number of replicas, requests, messages,
tenants, issues, columns and faults), from the assumptions on the constants that
each module names (`ConsumerAssumption`, `AuditAssumption`, `IssuesAssumption`,
`NotificationsAssumption`, `TenancyAssumption`, `AccountsAssumption`,
`WorkspaceAssumption`, `SystemAssumption`, `StartupAssumption`, `SessionsAssumption`,
`RateLimitAssumption`), which TLC evaluates in the runs. Besides types they say that
`Lower`, `LowerAddress` and `Upper`, which stand for Python's `lower()` and
`upper()`, change nothing the second time, and, where something is counted, that
requests (and the replicas of `System`) are finitely many:

| Theorem | Statement |
|---|---|
| `AuditTypeCorrect` | `AuditSpec => []AuditTypeOK` |
| `AuditOneRow` | `AuditSpec => []OneRowPerEvent` |
| `AuditAckedRecorded` | `AuditSpec => []AckedIsRecorded` |
| `AuditBuffers` | `AuditSpec => []BufferedIsUnacked` |
| `AuditSettledIsFinal` | `AuditSpec => SettledIsFinal` |
| `AuditRefinesLog` | `AuditSpec => ImplementsAuditLog` |
| `IssuesTypeCorrect` | `IssuesSpec => []IssuesTypeOK` |
| `TenantsAreIsolated` | `IssuesSpec => []NothingCrossesTenants` |
| `ChangesAreAskedFor` | `IssuesSpec => EveryChangeWasAskedFor` |
| `EventsAreTrue` | `IssuesSpec => []EventTellsWhatHappened` |
| `EventsAreInOrder` | `IssuesSpec => []EventsFollowClientOrder` |
| `DeletedStaysGone` | `IssuesSpec => []GoneIsGone` |
| `AnswersAreFresh` | `IssuesSpec => []NoStaleAnswer` |
| `NothingGoesUntold` | `IssuesSpec => []NoChangeGoesUntold` |
| `SystemRunsIssues` | `SystemSpec => IssuesSpec` |
| `SystemRunsAudit` | `SystemSpec => A!AuditSpec` |
| `SystemKeepsTheJournal` | `SystemSpec => ImplementsJournal` |
| `TrailIsInClientOrder` | `SystemSpec => []TrailFollowsClientOrder` |
| `NotificationsAreTyped` | `NotificationsSpec => []NotificationsTypeOK` |
| `SettledMailsWereTried` | `NotificationsSpec => []SettledWasTried` |
| `CopiesAreCostly` | `NotificationsSpec => []CopiesCostFaults` |
| `TenancyTypeCorrect` | `TenancySpec => []TenancyTypeOK` |
| `TenantsAreOwned` | `TenancySpec => []EveryTenantIsOwned` |
| `MembershipsAreGranted` | `TenancySpec => MembershipIsGranted` |
| `OutsidersAreShownNothing` | `TenancySpec => []OutsidersSeeNothing` |
| `ConflictsAreReal` | `TenancySpec => []ConflictIsReal` |
| `CreatorsFindTheirTenants` | `TenancySpec => []CreatorFindsTenant` |
| `WorkspaceIsTyped` | `WorkspaceSpec => []WorkspaceTypeOK` |
| `TokensTellTheTruth` | `WorkspaceSpec => []TokenTellsTheTruth` |
| `NobodyIsEverLockedOut` | `WorkspaceSpec => []NobodyIsLockedOut` |
| `OnlyMembersEverAct` | `WorkspaceSpec => []OnlyMembersAct` |
| `KeyConflictsAreReal` | `WorkspaceSpec => []KeyConflictIsReal` |
| `ProjectsLastUntilDeleted` | `WorkspaceSpec => []ProjectLastsUntilDeleted` |
| `MigrationsAreAtomic` | `StartupSpec => []MigrationIsAtomic` |
| `SchemaComesFirst` | `StartupSpec => []ServesWholeSchema` |
| `SessionsTypeCorrect` | `SessionsSpec => []SessionsTypeOK` |
| `LogoutLasts` | `SessionsSpec => RevokedUntilTheLastSecond` |
| `RateLimitIsTyped` | `RateLimitSpec => []RateLimitTypeOK` |
| `NoMoreThanLimitPass` | `RateLimitSpec => []AtMostLimitPass` |
| `OnlyExcessIsRefused` | `RateLimitSpec => []RefusedOnlyOverLimit` |

The bounds `MaxFaults`, `MaxPublished` and the like are constants too: the
theorems hold for each of their values. Every inductive invariant named below was
model-checked on the instance of its run before it was proved.

**Audit.** All follow from the inductive invariant `AuditInv`. `AckedIsRecorded` alone is
not inductive: the step that acknowledges knows only that the handler returned.
`AuditInv` adds that a replica whose handler has returned from a storable message
has the row of that message, that a replica that is handling anything holds it at
the head of its buffer (`HandIsBuffered`), and `BufferedIsUnacked`, so that an
acknowledgement on an open connection settles the very message that was handled.
`Consumer_proof` proves the transport's part once, for any handler:
`TransportKeepsInv` (one lemma per action), `HandlerKeepsInv`, and
`TransportKeepsMessages`, which lists how a transport step may change a message:
a message is settled only by a replica that had it in hand. `Audit_proof` adds
the rows. The refinement maps a publication to `Accept`, an insert to `Record`,
an acknowledgement to `Release`, a nack to `GiveUp`, and every other step to a
stutter.

**Notifications.** A mail leaves no trace in a database, so that its copies have to
be counted. Each message has chances of being mailed still: every replica that has it
unhandled in its buffer, on a live connection or a dead one, and the queue,
if it is there (`Chances`). `ChancesCostFaults` says that mails sent and chances left
are together at most one more than the faults. Handling and delivery turn one
chance into another or spend it; only a fault, which makes the broker requeue what a
replica goes on handling, adds one. `HandlerHasTried` is the other half: a handler
that returned from a mailable event has sent its mail or logged that it failed.
The transport's part is `Consumer_proof`'s.

**Issues.** `NothingCrossesTenants` speaks of answers and events; what makes it
inductive is what a handler holds on its way there. `IssuesInv` adds that a row
keeps the id and the tenant it was created with (`RowsKeepTenant`) and that the
object a request holds, from its SELECT or INSERT to its answer, is one its
call names, of its caller's tenant (`HoldsOwn`): the refresh, which reads the
row again without the tenant filter, is safe only because of both. The table's
part is proved once for each kind of write (`CreateRowKeeps`, `UpdateRowKeeps`,
`DeleteRowKeeps`) and used by the handler's step and by the failure in which the
commit happened all the same; the request's part once for answers and once for
moves inside the handler. `ChangesAreAskedFor` rests on `DirtyProperties`: what
an UPDATE writes is what the body names.

**Events.** `NextTells` says once, action by action, what a step of
issues-service does to the table, the commits and the events (`ToldStep`), and
`NextIsLater` what it does to what is held and answered (`LaterStep`); the
invariants are kept by any step of that shape. `ToldInv` says that the table
holds what was committed last (`TableIsLast`), so that the row a refresh reads was
committed by its own request or later; that a handler past its commit made it, or
updated nothing of an issue that is gone, in which case the refresh fails; and
that no request publishes twice. `LaterInv` says that the issue of a DELETE past
its commit is born and has no row, and that a request sent after that DELETE was
answered holds another issue; since ids are never drawn twice and only a row in
the table is ever loaded, nothing brings the issue back. `RemovalInv` adds who removed
what: exactly the issues that are gone have a DELETE in `removedBy`, and whoever
holds or has announced such an issue ran beside it (`RemovedWhile`), because the one
that removes a row has not been answered, nor has anyone who still holds it.

**Answers.** `NoStaleAnswer` compares an answer with PATCHes that were answered
before; what carries it there is that the table itself is fresh. `FreshInv`
says that each column of a row is as it was created and no PATCH that counts
asked for it, or was written by a PATCH after whose answer none that counts was
sent. The hard case is the PATCH that writes nothing: SQLAlchemy leaves out a
column that is, as loaded, what the body asks for, and another request may
change it before the commit. Such a PATCH `Counts` from the moment that the column
changed after it was loaded, since whoever changed it had not been answered when
the PATCH was sent. Copies (`IsFresh`) inherit that from the table at the refresh, and
answers from copies.

**Untold.** Without faults a request that has committed goes on to its event, unless
its issue is deleted under it. `UntoldInv` says, for each issue, who has yet to tell:
a deleted issue is announced or held by its DELETE before its event, a
created one likewise, and a changed row is to be refreshed once more by one who
committed, or is in the hands of one whose refresh read it as it is, or in
an event. `RowIsTold` is kept by a commit because the one who commits
has its refresh before it, and a refresh reads everybody's columns.

**System.** Every step of `System` is a step of issues-service, of audit-service
or of both (the publication), which gives `SystemRunsIssues` and, because what is
published is an event, `SystemRunsAudit`. `SystemInv` adds to `ToldInv` that the
queue and the table of audit-service hold only messages that were sent
(`QueueInv`). A commit maps to `Do`. An insert maps to `Record`: the message is
of a committed change, which has no record yet because a request publishes at
most once and the message has no row yet. Every other step is a stutter.

**Trail.** Rows follow the events only as far as the queue keeps their order.
`QueueInOrder` always holds: publications append. With one replica and no fault of a consumer,
`InTurn` says that the queue is settled, then buffered, then ready, from its head on,
and `LogInOrder` that the rows are in the order of the events; a row belongs to a message
that is settled or in hand, so that the next insert comes after all of them.
`EventsAreInOrder` does the rest. With two replicas or a redelivery the trail
need not be in order, and the property's premise says so.

**Sessions.** `SessionsInv` speaks of seconds and ticks: a TTL that was computed
still reaches beyond the last second before the token's expiry when it is stored,
however late that is (`Covers`; `TtlCovers` is the arithmetic of the rounding
down), and while Redis has not failed, a token whose logout was answered is in
that last second or has an entry that reaches beyond it (`Revoked`); a second
logout of the same token overwrites the entry by one that reaches as far.

**Tenancy.** `TenancyInv` adds what the unique index and the flush give: open
inserts have ids and slugs of their own that no tenant has (`FlushedIsFresh`), a
tenant's creator has been sent, every membership is of a tenant there is, and
the role check still holds when its request acts on it (`CheckStillHolds`),
which is true only because memberships are never withdrawn. `AnswersInv` adds
for the answers that a create past its commit finds its tenant under the slug it
lower-cased (`CommitsAreOwn`), and that a tenant's creator is past every point at
which it could be refused (`CreatorsAreThrough`), so that whose slug is taken lost it to
another request.

**Workspace.** `WorkspaceInv` has a part for each service. Tenant-service goes on as if
it were alone: the steps of the others leave its state as it is (`TenancyRests`), so
that its invariants are used again as they stand. `AccountsInv` says that a login on its way
holds the account whose password was given and a membership tenant-service
has (`LoginsAreRight`); it stays true while others found tenants and add members because
no membership or account is ever withdrawn, and a user has one role in a
tenant (`MembersAreUnique`), so that the founder is told no other than owner.
`ProjectsInv` says that a row bears the tenant and the user of the request that
created it, which can no longer be refused (`RowsAreOwn`), that a row that is gone was asked to be deleted by its tenant (`GoneWasDeleted`), and that
whoever asks carries the claims of a true token (`AskersAreMembers`), from which
`OnlyMembersAct` follows.

**RateLimit.** A counter counts as long as it lives, which has to be as long as its
window, unless Redis restarts. `life[r]` is the number of restarts before the INCR of
`r`, and the invariant speaks of each life of Redis by itself. `KeysOutliveWindows`
says that no key expires before its window ends: EXPIRE comes after the window began
and gives it a window's length, and a key to which EXPIRE has not come, or never
comes after a crash, has no TTL; a restart only takes keys and TTLs away. Hence a
request counted in time finds, while that life lasts, the counter that has counted all
before it (`CounterIsThere`), no count is returned twice inside a window and a life
(`CountsAreUnique`), and at most `Limit` requests of each of the `1 + restarts` lives
have counts up to the limit: count and life together tell them apart. Who passed with
a higher count passed because Redis did not answer, one request for each such fault
(`ExcusesCostFaults`). `CountersCount` is for the refusals: a
count is never more than the requests that were counted under its key.

**Startup.** `StartupInv` says that the schema is empty or whole, that an
application is imported only when it is whole (`UpgradedFirst`), and that statements are executed only in an open transaction
(`OpenTransactions`). A transaction with all its statements executed has made
everything (`AllIsWhole`), so that a commit, one that nobody heard of included,
makes the schema whole; every other way an upgrade ends leaves it as it was.
That each `upgrade()` makes what the models declare is `StatementsProperties`.

Only model-checked: the five liveness properties, `EveryMessageSettled` of both
consumers, `EveryRequestEnds`, `AcknowledgedIsRecorded` and `StartingAgainIsEnough`.
They rest on fairness, that is on when an action is enabled, which the proof
system cannot reason about. Every safety property that a passing run checks is a theorem.

## Assumed and not modelled

* The broker keeps a message it has accepted and routed; its own loss of data is
  not modelled (publications are persistent, without publisher confirms).
* PostgreSQL: atomic commits, unique indexes, READ COMMITTED. An error in the
  reply to a commit leaves it open whether the commit happened.
* The gateway forwards nothing under `/internal`; tokens cannot be forged.
* Passwords are compared for equality; bcrypt's cut at 72 bytes is not modelled.
* Bodies are those that pass validation; `/auth/me` is the handler that uses a
  token in `Sessions`.
* PostgreSQL's DDL is transactional; a process that ends leaves its transaction
  rolled back.
* Issues and projects are not composed: `issues.project_id` is no foreign key,
  issues-service asks projects-service nothing, and neither code, tests nor
  documentation promise anything about an issue whose project is gone.
* `downgrade()` and alembic's offline mode, which nothing in the repository runs;
  spans, health endpoints and API documentation, which have no state that a
  property could be about. The gateway is an nginx configuration without state.

## Plan

1. `Workspace` with the tokens of `Sessions`: a session through its whole life.
2. `Notifications` as a second queue of `System`.
3. Proofs: `AuditLog`'s promise, one record each and none lost, stated of the
   composed system; the safety half of `EveryMessageSettled`: what has to hold of queue,
   buffers and channels for a step to be possible.
