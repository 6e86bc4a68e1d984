------------------------------- MODULE System -------------------------------
(***************************************************************************)
(* issues-service and audit-service joined by the exchange: an event that  *)
(* a handler of module Issues publishes is a message in the queue of       *)
(* module Audit, if that is bound by then.  The two have nothing else in   *)
(* common, and each fails on its own.                                      *)
(*                                                                         *)
(* Every event that issues-service publishes can be stored: publish_event  *)
(* gives each an event_id of its own, and its tenant is a UUID.  A request *)
(* publishes at most once, so that the event itself, which names its       *)
(* request, serves for its event_id.                                       *)
(***************************************************************************)
EXTENDS Issues

CONSTANTS
  Replica,        \* consumer processes of audit-service
  Prefetch,
  MaxAuditFaults  \* bound: link losses, crashes and ended threads there

VARIABLES
  bound, unrouted, queue, place, link, buffer, hand,   \* as in Consumer
  auditFaults,   \* its faults
  log            \* the table audit_events

trailVars == <<bound, unrouted, queue, place, link, buffer, hand, auditFaults, log>>

systemVars == <<issuesVars, trailVars>>

(* The message that carries an event. *)
Envelope(e) == [id |-> e, form |-> "event"]

A == INSTANCE Audit WITH
       rows <- log,
       faults <- auditFaults,
       MaxFaults <- MaxAuditFaults,
       EventId <- Event,
       Message <- {Envelope(e) : e \in Event},
       MaxPublished <- Cardinality(Request)

(* What modules Consumer and Audit assume of their constants, said of these. *)
ASSUME SystemAssumption ==
  /\ IsFiniteSet(Request) /\ IsFiniteSet(Replica)
  /\ Prefetch \in Nat \ {0}
  /\ MaxAuditFaults \in Nat
  /\ Replica \cap A!Resting = {}

SystemInit == IssuesInit /\ A!AuditInit

-----------------------------------------------------------------------------
(* A step of issues-service; the event it publishes, if it does, reaches   *)
(* the exchange and the queue in the same step.                            *)
IssuesStep ==
  /\ IssuesNext
  /\ IF events' = events
       THEN UNCHANGED trailVars
       ELSE A!Publish(Envelope(events'[Len(events')])) /\ UNCHANGED log

(* A step of the broker or of audit-service. *)
Requeue(k) == A!Requeue(k) /\ UNCHANGED <<issuesVars, log>>

ThreadStep(c) == A!ThreadStep(c) /\ UNCHANGED <<issuesVars, log>>

Handle(c) == A!Handler(c) /\ UNCHANGED issuesVars

ConsumerFails(c) == A!Fault(c) /\ UNCHANGED <<issuesVars, log>>

Restart(c) == A!Restart(c) /\ UNCHANGED <<issuesVars, log>>

SystemNext ==
  \/ IssuesStep
  \/ \E k \in DOMAIN queue : Requeue(k)
  \/ \E c \in Replica :
       ThreadStep(c) \/ Handle(c) \/ ConsumerFails(c) \/ Restart(c)

SystemSpec == SystemInit /\ [][SystemNext]_systemVars

(* The fairness of audit-service (module Audit).  Clients and handlers of  *)
(* issues-service may stop anywhere.                                       *)
FairSystemSpec ==
  /\ SystemSpec
  /\ \A k \in 1 .. Cardinality(Request) : WF_systemVars(Requeue(k))
  /\ \A c \in Replica : WF_systemVars(ThreadStep(c)) /\ WF_systemVars(Handle(c))

-----------------------------------------------------------------------------
(* What a request did to which issue of which tenant. *)
Change == [by : Request, event : {"issue.created", "issue.updated", "issue.deleted"},
           id : IssueId, tenant : Tenant]

Committed == {[by |-> commits[j].by, event |-> EventName[call[commits[j].by].op],
               id |-> commits[j].id, tenant |-> call[commits[j].by].tenant] :
                 j \in DOMAIN commits}

ChangeOf(e) == [by |-> e.by, event |-> e.event, id |-> e.id, tenant |-> e.tenant]

(* The audit trail is true from end to end: each of its rows tells a       *)
(* change that was committed before, under the tenant of the token that    *)
(* asked for it, and no change has two rows, whatever fails, is redelivered *)
(* or runs at once in the two services.  Rows are never changed.           *)
(* (A DELETE that commits after another took its row away is a change of   *)
(* its own here; EventTellsWhatHappened says what its event means.)        *)
J == INSTANCE Journal WITH
       done <- Committed,
       recorded <- [i \in DOMAIN log |-> ChangeOf(log[i].id)]

ImplementsJournal == J!JournalSpec

(* The client of r was told that its change is made. *)
Acknowledged(r) ==
  /\ pc[r] = "answered"
  /\ answer[r].code \in {200, 201, 204}
  /\ call[r].op \in DOMAIN EventName

Recorded(r) == \E i \in DOMAIN log : log[i].id.by = r

(* The ways the code has to lose the event of an acknowledged change:      *)
(* publish_event failed, no consumer had bound the queue yet, or _persist  *)
(* raised and the message was dropped.                                     *)
Lost(r) ==
  LET sent == {k \in DOMAIN events : events[k].by = r}
      queued == {k \in DOMAIN queue : queue[k].id.by = r}
  IN  \/ sent = {} /\ faults > 0
      \/ sent # {} /\ queued = {} /\ unrouted > 0
      \/ \E k \in queued : place[k] = "dropped"

(* There is no other way to lose one: as long as a consumer thread lives   *)
(* on, every change a client was told of is recorded in the end.           *)
AcknowledgedIsRecorded ==
  <>[](\E c \in Replica : link[c] # "dead") =>
    \A r \in Request : Acknowledged(r) ~> (Recorded(r) \/ Lost(r))

(* While no consumer failed, and with the one replica docker-compose starts,   *)
(* the audit trail tells a client's changes in the order it made them in.  *)
TrailFollowsClientOrder ==
  auditFaults = 0 /\ Cardinality(Replica) = 1 =>
    \A i, j \in DOMAIN log : log[i].id.by \in before[log[j].id.by] => i < j
=============================================================================
