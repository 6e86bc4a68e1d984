------------------------------- MODULE Issues -------------------------------
(***************************************************************************)
(* issues-service: the handlers of services/issues/app/routes.py, run      *)
(* concurrently by FastAPI's thread pool, one database session each, on    *)
(* the table "issues" and the event exchange.                              *)
(*                                                                         *)
(* The SELECT, the COMMIT, the refresh and the publication of one handler  *)
(* are separate steps, and other requests run between them.  SQLAlchemy    *)
(* and PostgreSQL (READ COMMITTED, no row locked by a SELECT) are modelled *)
(* from how the handlers use them: an UPDATE names only the columns whose  *)
(* value differs from the loaded one; an UPDATE of a vanished row raises;  *)
(* a DELETE of a vanished row only warns; the refresh of one raises.       *)
(*                                                                         *)
(* An issue is its tenant and its columns.  project_id, created_by and     *)
(* created_at are columns no request body of PATCH can name.               *)
(***************************************************************************)
EXTENDS Naturals, Sequences, FiniteSets, Functions

CONSTANTS
  Request,    \* HTTP requests, each handled once
  IssueId,    \* the UUIDs that may be drawn
  Tenant,
  Field,      \* columns
  Required,   \* the columns declared NOT NULL
  Told,       \* the columns an event carries
  Value,
  None,       \* SQL NULL, a token without tenant, nothing loaded
  Tables,     \* the tables there may be when the first request comes
  Calls,      \* the calls clients make
  MaxFaults   \* bound: database and broker failures, and crashes

Op == {"create", "list", "get", "update", "delete"}

(* A request body: some columns and a value, or null, for each. *)
Body == UNION {[F -> Value \cup {None}] : F \in SUBSET Field}

Call == [op : Op, tenant : Tenant \cup {None}, id : IssueId \cup {None}, body : Body]

Data == {d \in [Field -> Value \cup {None}] : \A f \in Required : d[f] # None}

Row == [id : IssueId, tenant : Tenant, data : Data]

Table == UNION {[I -> Row] : I \in SUBSET IssueId}

Removals == UNION {[I -> Request] : I \in SUBSET IssueId}

ASSUME IssuesAssumption ==
  /\ None \notin Tenant \cup IssueId \cup Value \cup Row
  /\ Required \subseteq Field
  /\ Told \subseteq Field
  /\ Calls \subseteq Call
  /\ \A q \in Calls :
       /\ q.op = "create" => q.body \in Data
       /\ q.op \in {"create", "list"} => q.id = None
       /\ q.op \in {"get", "update", "delete"} => q.id \in IssueId
  /\ Tables \subseteq {t \in Table : \A i \in DOMAIN t : t[i].id = i}
  /\ MaxFaults \in Nat

VARIABLES
  rows,     \* the table: a row for each issue there is
  born,     \* the ids drawn so far, each with the row it was created as
  pc,       \* progress of each request
  call,     \* what it asks
  copy,     \* its ORM object, or the snapshot of it
  answer,   \* the status code and the issues in the response
  events,   \* the events the exchange accepted, oldest first
  faults,
  before,   \* (history) the requests answered before this one was sent
  commits,  \* (history) the writing transactions committed, oldest first
  removedBy \* (history) for each issue gone, the DELETE that took its row away

issuesVars ==
  <<rows, born, pc, call, copy, answer, events, faults, before, commits, removedBy>>

InFlight == {"sent", "loaded", "committed", "refreshed", "told"}

EventName == [create |-> "issue.created", update |-> "issue.updated",
              delete |-> "issue.deleted"]

Event == [event : {"issue.created", "issue.updated", "issue.deleted"},
          id : IssueId, tenant : Tenant,
          data : [Told -> Value \cup {None}] \cup {None},
          fields : SUBSET Field, by : Request]

IssuesTypeOK ==
  /\ rows \in Table
  /\ born \in Table
  /\ pc \in [Request -> {"new", "answered", "lost"} \cup InFlight]
  /\ call \in [Request -> Calls \cup {None}]
  /\ copy \in [Request -> Row \cup {None}]
  /\ answer \in [Request -> [code : {0, 200, 201, 204, 403, 404, 500}, shown : SUBSET Row]]
  /\ events \in Seq(Event)
  /\ faults \in 0 .. MaxFaults
  /\ before \in [Request -> SUBSET Request]
  /\ commits \in Seq([by : Request, id : IssueId, row : Row \cup {None}])
  /\ removedBy \in Removals
  /\ DOMAIN rows \subseteq DOMAIN born

IssuesInit ==
  /\ rows \in Tables
  /\ born = rows
  /\ pc = [r \in Request |-> "new"]
  /\ call = [r \in Request |-> None]
  /\ copy = [r \in Request |-> None]
  /\ answer = [r \in Request |-> [code |-> 0, shown |-> {}]]
  /\ events = <<>>
  /\ faults = 0
  /\ before = [r \in Request |-> {}]
  /\ commits = <<>>
  /\ removedBy = <<>>

-----------------------------------------------------------------------------
(* Helpers. *)

(* The rows a query with the filter tenant_id == current.tenant_id sees. *)
VisibleToAll(t) == DOMAIN rows   \* mutant: the filter is forgotten

VisibleTo(t) == {i \in DOMAIN rows : rows[i].tenant = t}

(* model_dump(exclude_unset=True): a null that was sent is kept. *)
ExcludeNone(r) ==   \* mutant: exclude_none=True
  LET b == call[r].body IN [f \in {g \in DOMAIN b : b[g] # None} |-> b[f]]

ChangedFields(r) == call[r].body

(* The columns the session will UPDATE: those set to something else than   *)
(* what was loaded.                                                        *)
EveryColumn(r) ==   \* mutant: the whole row is written back
  [f \in Field |-> IF f \in DOMAIN ChangedFields(r) THEN ChangedFields(r)[f] ELSE copy[r].data[f]]

Dirty(r) ==
  LET c == ChangedFields(r)
  IN  [f \in {g \in DOMAIN c : c[g] # copy[r].data[g]} |-> c[f]]

Patched(row, patch) ==
  [row EXCEPT !.data = [f \in Field |-> IF f \in DOMAIN patch THEN patch[f] ELSE @[f]]]

Stored(i, row) == [j \in DOMAIN rows \cup {i} |-> IF j = i THEN row ELSE rows[j]]

Step(r, from, to) == pc[r] = from /\ pc' = [pc EXCEPT ![r] = to]

Respond(r, from, code, shown) ==
  /\ Step(r, from, "answered")
  /\ answer' = [answer EXCEPT ![r] = [code |-> code, shown |-> shown]]

Logged(r, i, row) == commits' = Append(commits, [by |-> r, id |-> i, row |-> row])

Asks(r, op) == call[r].op = op /\ call[r].tenant # None

-----------------------------------------------------------------------------
(* Requests come in and are authorised. *)

Send(r) ==
  /\ Step(r, "new", "sent")
  /\ \E q \in Calls : call' = [call EXCEPT ![r] = q]
  /\ before' = [before EXCEPT ![r] = {q \in Request : pc[q] = "answered"}]
  /\ UNCHANGED <<rows, born, copy, answer, events, faults, commits, removedBy>>

(* require_tenant: the token has no tenant context. *)
Forbid(r) ==
  /\ Respond(r, "sent", 403, {})
  /\ call[r].tenant = None
  /\ UNCHANGED <<rows, born, call, copy, events, faults, before, commits, removedBy>>

-----------------------------------------------------------------------------
(* The reading handlers. *)

ListIssues(r) ==
  /\ pc[r] = "sent"
  /\ Asks(r, "list")
  /\ LET filter == call[r].body
         found == {i \in VisibleTo(call[r].tenant) :
                     \A f \in DOMAIN filter : rows[i].data[f] = filter[f]}
     IN  Respond(r, "sent", 200, {rows[i] : i \in found})
  /\ UNCHANGED <<rows, born, call, copy, events, faults, before, commits, removedBy>>

GetIssue(r) ==
  /\ pc[r] = "sent"
  /\ Asks(r, "get")
  /\ IF call[r].id \in VisibleTo(call[r].tenant)
       THEN Respond(r, "sent", 200, {rows[call[r].id]})
       ELSE Respond(r, "sent", 404, {})
  /\ UNCHANGED <<rows, born, call, copy, events, faults, before, commits, removedBy>>

-----------------------------------------------------------------------------
(* The writing handlers, up to their commit. *)

CreateRow(r, i) ==
  /\ Asks(r, "create")
  /\ i \notin DOMAIN born
  /\ LET row == [id |-> i, tenant |-> call[r].tenant, data |-> call[r].body]
     IN  /\ rows' = Stored(i, row)
         /\ born' = [j \in DOMAIN born \cup {i} |-> IF j = i THEN row ELSE born[j]]
         /\ copy' = [copy EXCEPT ![r] = row]
         /\ Logged(r, i, row)
  /\ UNCHANGED removedBy

CreateIssue(r) ==
  /\ Step(r, "sent", "committed")
  /\ \E i \in IssueId : CreateRow(r, i)
  /\ UNCHANGED <<call, answer, events, faults, before>>

LoadAnyDeleted(r) ==   \* mutant: DELETE of an issue already gone succeeds again
  /\ pc[r] = "sent"
  /\ Asks(r, "update") \/ Asks(r, "delete")
  /\ IF \/ call[r].id \in VisibleTo(call[r].tenant)
        \/ call[r].op = "delete" /\ call[r].id \in DOMAIN born
       THEN /\ Step(r, "sent", "loaded")
            /\ copy' = [copy EXCEPT ![r] = IF call[r].id \in DOMAIN rows
                                            THEN rows[call[r].id] ELSE born[call[r].id]]
            /\ UNCHANGED answer
       ELSE /\ Respond(r, "sent", 404, {})
            /\ UNCHANGED copy
  /\ UNCHANGED <<rows, born, call, events, faults, before, commits, removedBy>>

(* update_issue and delete_issue begin with the same SELECT. *)
LoadIssue(r) ==
  /\ pc[r] = "sent"
  /\ Asks(r, "update") \/ Asks(r, "delete")
  /\ IF call[r].id \in VisibleTo(call[r].tenant)
       THEN /\ Step(r, "sent", "loaded")
            /\ copy' = [copy EXCEPT ![r] = rows[call[r].id]]
            /\ UNCHANGED answer
       ELSE /\ Respond(r, "sent", 404, {})
            /\ UNCHANGED copy
  /\ UNCHANGED <<rows, born, call, events, faults, before, commits, removedBy>>

RaisesIfGone(r) ==   \* mutant: no column is declared NOT NULL
  Dirty(r) # <<>> /\ copy[r].id \notin DOMAIN rows

(* The flush raises: the row has vanished, or a required column is null. *)
FlushRaises(r) ==
  /\ Dirty(r) # <<>>
  /\ \/ copy[r].id \notin DOMAIN rows
     \/ \E f \in Required \cap DOMAIN Dirty(r) : Dirty(r)[f] = None

UpdateOrInsert(r) ==   \* mutant: session.merge brings a vanished row back
  LET i == copy[r].id
      row == Patched(IF i \in DOMAIN rows THEN rows[i] ELSE copy[r], Dirty(r))
  IN  /\ Asks(r, "update")
      /\ rows' = Stored(i, row)
      /\ Logged(r, i, row)
      /\ UNCHANGED removedBy

UpdateRow(r) ==
  LET i == copy[r].id
  IN  /\ Asks(r, "update")
      /\ ~ FlushRaises(r)
      /\ IF i \in DOMAIN rows
           THEN /\ rows' = Stored(i, Patched(rows[i], Dirty(r)))
                /\ Logged(r, i, rows'[i])
           ELSE UNCHANGED <<rows, commits>>
      /\ UNCHANGED removedBy

UpdateIssue(r) ==
  /\ pc[r] = "loaded"
  /\ UpdateRow(r)
  /\ Step(r, "loaded", "committed")
  /\ UNCHANGED <<born, call, copy, answer, events, faults, before>>

UpdateRaises(r) ==
  /\ pc[r] = "loaded"
  /\ Asks(r, "update")
  /\ FlushRaises(r)
  /\ Respond(r, "loaded", 500, {})
  /\ UNCHANGED <<rows, born, call, copy, events, faults, before, commits, removedBy>>

DeleteRow(r) ==
  /\ Asks(r, "delete")
  /\ rows' = Restrict(rows, DOMAIN rows \ {copy[r].id})
  /\ Logged(r, copy[r].id, None)
  /\ removedBy' = IF copy[r].id \in DOMAIN rows
                     THEN [i \in DOMAIN removedBy \cup {copy[r].id} |->
                             IF i = copy[r].id THEN r ELSE removedBy[i]]
                     ELSE removedBy

DeleteThenRefresh(r) ==   \* mutant: delete_issue refreshes like the others
  /\ pc[r] = "loaded"
  /\ DeleteRow(r)
  /\ Step(r, "loaded", "committed")
  /\ UNCHANGED <<born, call, copy, answer, events, faults, before>>

DeleteIssue(r) ==
  /\ pc[r] = "loaded"
  /\ DeleteRow(r)
  /\ Step(r, "loaded", "refreshed")
  /\ UNCHANGED <<born, call, copy, answer, events, faults, before>>

-----------------------------------------------------------------------------
(* After the commit. *)

KeepSnapshot(r) ==   \* mutant: the event is built from what was loaded
  /\ Step(r, "committed", "refreshed")
  /\ UNCHANGED <<rows, born, call, copy, answer, events, faults, before, commits, removedBy>>

(* db.refresh reads the row as it is now, or raises if it is gone. *)
RefreshIssue(r) ==
  /\ pc[r] = "committed"
  /\ IF copy[r].id \in DOMAIN rows
       THEN /\ Step(r, "committed", "refreshed")
            /\ copy' = [copy EXCEPT ![r] = rows[copy[r].id]]
            /\ UNCHANGED answer
       ELSE /\ Respond(r, "committed", 500, {})
            /\ UNCHANGED copy
  /\ UNCHANGED <<rows, born, call, events, faults, before, commits, removedBy>>

EventOf(r) ==
  [event |-> EventName[call[r].op], id |-> copy[r].id, tenant |-> copy[r].tenant,
   data |-> IF call[r].op = "delete" THEN None ELSE Restrict(copy[r].data, Told),
   fields |-> IF call[r].op = "update" THEN DOMAIN ChangedFields(r) ELSE {},
   by |-> r]

SuccessCode(r) ==
  CASE call[r].op = "create" -> 201 [] call[r].op = "update" -> 200 [] OTHER -> 204

SuccessBody(r) == IF call[r].op = "delete" THEN {} ELSE {copy[r]}

PublishLater(r) ==   \* mutant: the event is published by a background task
  /\ \/ /\ Respond(r, "refreshed", SuccessCode(r), SuccessBody(r))
        /\ UNCHANGED events
     \/ /\ pc[r] = "answered"
        /\ answer[r].code \in {200, 201, 204}
        /\ call[r].op \in DOMAIN EventName
        /\ \A k \in DOMAIN events : events[k].by # r
        /\ events' = Append(events, EventOf(r))
        /\ UNCHANGED <<pc, answer>>
  /\ UNCHANGED <<rows, born, call, copy, faults, before, commits, removedBy>>

PublishEvent(r) ==
  /\ Step(r, "refreshed", "told")
  /\ events' = Append(events, EventOf(r))
  /\ UNCHANGED <<rows, born, call, copy, answer, faults, before, commits, removedBy>>

(* publish_event logs the exception and returns. *)
PublishFails(r) ==
  /\ faults < MaxFaults
  /\ Step(r, "refreshed", "told")
  /\ faults' = faults + 1
  /\ UNCHANGED <<rows, born, call, copy, answer, events, before, commits, removedBy>>

Finish(r) ==
  /\ Respond(r, "told", SuccessCode(r), SuccessBody(r))
  /\ UNCHANGED <<rows, born, call, copy, events, faults, before, commits, removedBy>>

-----------------------------------------------------------------------------
(* Failures. *)

(* A statement or the commit raises an OperationalError; when the reply to *)
(* the COMMIT is what was lost, the database has committed all the same.   *)
DatabaseFails(r) ==
  /\ faults < MaxFaults
  /\ \E from \in {"sent", "loaded", "committed"} : Respond(r, from, 500, {})
  /\ call[r].tenant # None
  /\ faults' = faults + 1
  /\ \/ UNCHANGED <<rows, born, copy, commits, removedBy>>
     \/ pc[r] = "sent" /\ \E i \in IssueId : CreateRow(r, i)
     \/ pc[r] = "loaded" /\ UpdateRow(r) /\ UNCHANGED <<born, copy>>
     \/ pc[r] = "loaded" /\ DeleteRow(r) /\ UNCHANGED <<born, copy>>
  /\ UNCHANGED <<call, events, before>>

(* The process dies with every request it was handling. *)
Crash ==
  /\ faults < MaxFaults
  /\ \E r \in Request : pc[r] \in InFlight
  /\ pc' = [r \in Request |-> IF pc[r] \in InFlight THEN "lost" ELSE pc[r]]
  /\ faults' = faults + 1
  /\ UNCHANGED <<rows, born, call, copy, answer, events, before, commits, removedBy>>

IssuesNext ==
  \/ \E r \in Request :
       \/ Send(r) \/ Forbid(r) \/ ListIssues(r) \/ GetIssue(r)
       \/ CreateIssue(r) \/ LoadIssue(r) \/ UpdateIssue(r) \/ UpdateRaises(r)
       \/ DeleteIssue(r) \/ RefreshIssue(r) \/ PublishEvent(r) \/ PublishFails(r)
       \/ Finish(r) \/ DatabaseFails(r)
  \/ Crash

IssuesSpec == IssuesInit /\ [][IssuesNext]_issuesVars

-----------------------------------------------------------------------------
(* Tenant isolation (issues/README.md, "404, never 403"): an answer shows, *)
(* and an event names, only issues of the tenant in the caller's token,    *)
(* whatever other requests did between its SELECT, its commit and its      *)
(* refresh; and a caller that names an issue of another tenant is answered *)
(* like one that names no issue at all.                                    *)
NothingCrossesTenants ==
  /\ \A r \in Request : \A row \in answer[r].shown : row.tenant = call[r].tenant
  /\ \A k \in DOMAIN events :
       /\ events[k].tenant = call[events[k].by].tenant
       /\ events[k].tenant = born[events[k].id].tenant
  /\ \A r \in Request :
       /\ pc[r] = "answered"
       /\ call[r].tenant # None
       /\ call[r].id \in DOMAIN born
       /\ born[call[r].id].tenant # call[r].tenant
       => answer[r].code \in {404, 500}

(* The request r is at the commit of a call that asks for op on issue i.   *)
Committing(r, op, i) ==
  /\ pc[r] \in {"sent", "loaded"}
  /\ pc'[r] # pc[r]
  /\ Asks(r, op)
  /\ op = "create" \/ call[r].id = i

(* Every change of the table is one that a request asked for and was       *)
(* allowed to make: a row appears under an id never used before, with the  *)
(* creator's tenant and columns; it disappears for a DELETE by its tenant; *)
(* and a column changes only to the value a PATCH by its tenant names for  *)
(* it, so that two PATCHes of different columns never undo one another     *)
(* however their SELECTs and commits interleave.                           *)
EveryChangeWasAskedFor ==
  [][ /\ \A i \in DOMAIN rows' \ DOMAIN rows :
           /\ i \notin DOMAIN born
           /\ \E r \in Request :
                /\ Committing(r, "create", i)
                /\ rows'[i].tenant = call[r].tenant
                /\ rows'[i].data = call[r].body
      /\ \A i \in DOMAIN rows \ DOMAIN rows' :
           \E r \in Request :
             /\ Committing(r, "delete", i)
             /\ call[r].tenant = rows[i].tenant
      /\ \A i \in DOMAIN rows \cap DOMAIN rows' :
           /\ rows'[i].tenant = rows[i].tenant
           /\ \A f \in Field : rows'[i].data[f] # rows[i].data[f] =>
                \E r \in Request :
                  /\ Committing(r, "update", i)
                  /\ call[r].tenant = rows[i].tenant
                  /\ f \in DOMAIN call[r].body
                  /\ rows'[i].data[f] = call[r].body[f]
    ]_issuesVars

(* p asks to set column f of issue i and has not been turned away. *)
Sets(p, i, f) ==
  /\ pc[p] # "new"
  /\ call[p].op = "update"
  /\ call[p].id = i
  /\ f \in DOMAIN call[p].body
  /\ answer[p].code \notin {403, 404}

HasSet(p, i, f) == Sets(p, i, f) /\ answer[p].code = 200

(* What a successful PATCH set before r was sent, or set by r itself.      *)
SetFor(r, i, f) == {q \in before[r] \cup {r} : HasSet(q, i, f)}

(* No answer is stale, and no acknowledged PATCH is lost: the value of a   *)
(* column in an answer was not overwritten, by a PATCH that was sent after *)
(* that value's own PATCH was answered, before the answering request was   *)
(* sent; the answer to a PATCH counts its own values as set.               *)
NoStaleAnswer ==
  \A r \in Request : \A row \in answer[r].shown : \A f \in Field :
    LET later == SetFor(r, row.id, f)
    IN  \/ later = {} /\ row.data[f] = born[row.id].data[f]
        \/ \E p \in Request :
             /\ Sets(p, row.id, f)
             /\ call[p].body[f] = row.data[f]
             /\ r \notin before[p]
             /\ \A q \in later : p \notin before[q]

(* Once a DELETE has been answered 204, the issue is gone for every later  *)
(* request: not shown, not found, and not brought back by a PATCH that had *)
(* loaded it before.                                                       *)
GoneIsGone ==
  \A d, r \in Request :
    d \in before[r] /\ call[d].op = "delete" /\ answer[d].code = 204 =>
      /\ \A row \in answer[r].shown : row.id # call[d].id
      /\ call[r].id = call[d].id => answer[r].code \notin {200, 204}

(* A client that sends a second request after its first was answered finds *)
(* the two events in that order in the exchange: the event is published    *)
(* before the answer, not in the background.                               *)
EventsFollowClientOrder ==
  \A j, k \in DOMAIN events : events[j].by \in before[events[k].by] => j < k

(* p and r ran beside one another: neither was answered when the other was *)
(* sent.                                                                   *)
Beside(p, r) == p \notin before[r] /\ r \notin before[p]

(* The issue was there when the request r came, and is gone: its row was   *)
(* taken away by r, or by a DELETE that ran beside r.                      *)
RemovedWhile(r, i) == i \in DOMAIN removedBy /\ Beside(removedBy[i], r)

(* What an event tells has happened by then.  It follows a commit of its   *)
(* own request on that issue; issue.created and issue.updated carry column *)
(* values the row really had at that commit or later; and an issue.deleted *)
(* is of an issue whose row was removed while its request ran.  That need  *)
(* not be by its own DELETE: of two that race both commit, only the first  *)
(* finds the row, and both announce the one deletion.                      *)
EventTellsWhatHappened ==
  \A k \in DOMAIN events :
    LET e == events[k]
    IN  \E j \in DOMAIN commits :
          /\ commits[j].by = e.by
          /\ commits[j].id = e.id
          /\ IF e.event = "issue.deleted"
               THEN commits[j].row = None /\ RemovedWhile(e.by, e.id)
               ELSE \E m \in j .. Len(commits) :
                      /\ commits[m].id = e.id
                      /\ commits[m].row # None
                      /\ Restrict(commits[m].row.data, Told) = e.data

(* When nothing failed and nothing is in flight, the events tell the table *)
(* to a consumer that reads them as a set: exactly the issues created and  *)
(* not deleted are there, and the current columns of each issue that was   *)
(* committed to are in one of its events.  (Not always in the last one:    *)
(* two requests may publish in the order opposite to their commits.)       *)
Created == {commits[j].id : j \in {k \in DOMAIN commits : call[commits[k].by].op = "create"}}

ToldAs(name) == {events[k].id : k \in {j \in DOMAIN events : events[j].event = name}}

NoChangeGoesUntold ==
  (faults = 0 /\ \A r \in Request : pc[r] \in {"new", "answered"}) =>
    /\ DOMAIN rows = ((DOMAIN born \ Created) \cup ToldAs("issue.created")) \ ToldAs("issue.deleted")
    /\ \A j \in DOMAIN commits :
         LET i == commits[j].id
         IN  i \in DOMAIN rows =>
               \E k \in DOMAIN events :
                 events[k].id = i /\ events[k].data = Restrict(rows[i].data, Told)
=============================================================================
