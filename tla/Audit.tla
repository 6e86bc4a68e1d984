------------------------------- MODULE Audit -------------------------------
(***************************************************************************)
(* audit-service: the consumer loop of module Consumer around _persist     *)
(* (services/audit/app/consumer.py), which writes one row per event_id     *)
(* into the table audit_events.                                            *)
(*                                                                         *)
(* A message is its event_id and its form: "event" can be stored, "no_id"  *)
(* carries no event_id, "malformed" makes _persist raise before it reaches *)
(* the database (no JSON, an event_id or tenant_id that is no UUID).       *)
(***************************************************************************)
EXTENDS Consumer

CONSTANT EventId

Form == {"event", "no_id", "malformed"}

Storable == {m \in Message : m.form = "event"}

ASSUME AuditAssumption == Message \subseteq [id : EventId, form : Form]

VARIABLE rows   \* the table audit_events, in insertion order

auditVars == <<bound, unrouted, queue, place, link, buffer, hand, faults, rows>>

HasRow(id) == \E i \in 1 .. Len(rows) : rows[i].id = id

AuditTypeOK ==
  /\ ConsumerTypeOK
  /\ rows \in Seq(Storable)

AuditInit == ConsumerInit /\ rows = <<>>

-----------------------------------------------------------------------------
(* INSERT ... ON CONFLICT (event_id) DO NOTHING. *)
InsertBlindly(m) == Append(rows, m)   \* mutant: a plain INSERT

InsertOnConflictDoNothing(m) == IF HasRow(m.id) THEN rows ELSE Append(rows, m)

(* A message without event_id is skipped: _persist returns at once. *)
StoreAnyway(c) ==   \* mutant: the early return is dropped
  /\ HandlerEnds(c, "returned")
  /\ InHand(c).form = "no_id"
  /\ rows' = InsertOnConflictDoNothing(InHand(c))

Skip(c) ==
  /\ HandlerEnds(c, "returned")
  /\ InHand(c).form = "no_id"
  /\ UNCHANGED rows

(* The insert commits and _persist returns. *)
Persist(c) ==
  /\ HandlerEnds(c, "returned")
  /\ InHand(c).form = "event"
  /\ rows' = InsertOnConflictDoNothing(InHand(c))

(* _persist raises on a malformed body. *)
RejectBody(c) ==
  /\ HandlerEnds(c, "raised")
  /\ InHand(c).form = "malformed"
  /\ UNCHANGED rows

(* _persist raises because the database is unreachable or the connection   *)
(* is lost; when it is lost during the commit the row may be there anyway. *)
DatabaseFails(c) ==
  /\ HandlerEnds(c, "raised")
  /\ InHand(c).form = "event"
  /\ \/ UNCHANGED rows
     \/ rows' = InsertOnConflictDoNothing(InHand(c))

Handler(c) == Skip(c) \/ Persist(c) \/ RejectBody(c) \/ DatabaseFails(c)

AuditNext ==
  \/ TransportStep /\ UNCHANGED rows
  \/ \E c \in Replica : Handler(c)

(* The consumer thread never stops: _run_forever reconnects after every    *)
(* AMQP error and the handler's database calls return or raise.  The       *)
(* broker requeues what a dead channel held.  Publishing and faults are    *)
(* the environment's and need not happen.                                  *)
AuditFairness ==
  /\ \A k \in 1 .. MaxPublished : WF_auditVars(Requeue(k) /\ UNCHANGED rows)
  /\ \A c \in Replica :
       /\ WF_auditVars(ThreadStep(c) /\ UNCHANGED rows)
       /\ WF_auditVars(Handler(c))

AuditSpec == AuditInit /\ [][AuditNext]_auditVars

FairAuditSpec == AuditSpec /\ AuditFairness

-----------------------------------------------------------------------------
(* Redelivery, two replicas handling copies of one message, a republished  *)
(* event_id and an insert whose outcome is unknown never make two rows of  *)
(* one event (audit README, "Idempotency").                                *)
OneRowPerEvent ==
  \A i, j \in 1 .. Len(rows) : rows[i].id = rows[j].id => i = j

(* The broker forgets a storable event as handled only once its row is     *)
(* committed: on_message acknowledges after _persist, never before.        *)
AckedIsRecorded ==
  \A k \in Position :
    place[k] = "acked" /\ queue[k].form = "event" => HasRow(queue[k].id)

(* The service implements the abstract log of module AuditLog.             *)
Fate == [k \in Position |->
           IF place[k] = "acked" THEN "released"
           ELSE IF place[k] = "dropped" THEN "lost" ELSE "held"]

Log == INSTANCE AuditLog WITH accepted <- queue, fate <- Fate, log <- rows

ImplementsAuditLog == Log!AuditLogSpec

(* The documentation's stronger claims, which the code does not keep.      *)
(* services/notifications/README.md:144 "once a message is in the          *)
(* exchange, RabbitMQ retries until a consumer acks it": a message leaves  *)
(* the queue only when it was handled, so every storable one has its row.  *)
RetriedUntilAcked ==
  \A k \in Position :
    Settled(k) /\ queue[k].form = "event" => HasRow(queue[k].id)

(* services/notifications/README.md:68 "A producer and consumer can come   *)
(* up in any order ... If no consumer is running when a message arrives,   *)
(* RabbitMQ holds it in the queue until one shows up."                     *)
HeldUntilConsumerShowsUp == unrouted = 0
=============================================================================
