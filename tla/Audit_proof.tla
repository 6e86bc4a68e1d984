----------------------------- MODULE Audit_proof -----------------------------
(***************************************************************************)
(* The safety of audit-service for any number of replicas, messages and    *)
(* faults: the inductive invariant AuditInv, the invariants and the action *)
(* property that follow, and that the service implements module AuditLog.  *)
(***************************************************************************)
EXTENDS Audit, Consumer_proof

(* The link between the row and the acknowledgement, while the message is  *)
(* still in a replica's hand: a handler that returned on an event has made *)
(* sure of its row, and never returns on a malformed body; it never raises *)
(* on a body without event_id.                                             *)
HandlerDidItsWork ==
  \A c \in Replica :
    /\ hand[c] = "returned" => InHand(c).form # "malformed"
    /\ hand[c] = "returned" /\ InHand(c).form = "event" => HasRow(InHand(c).id)
    /\ hand[c] = "raised" => InHand(c).form # "no_id"

AuditInv ==
  /\ ConsumerInv
  /\ rows \in Seq(Storable)
  /\ OneRowPerEvent
  /\ AckedIsRecorded
  /\ HandlerDidItsWork

(* What INSERT ... ON CONFLICT DO NOTHING leaves behind.                   *)
LEMMA InsertProperties ==
  ASSUME rows \in Seq(Storable), OneRowPerEvent,
         NEW m \in Storable, rows' = InsertOnConflictDoNothing(m)
  PROVE  /\ rows' \in Seq(Storable)
         /\ OneRowPerEvent'
         /\ HasRow(m.id)'
         /\ \A id : HasRow(id) => HasRow(id)'
<1>1. CASE HasRow(m.id)
  BY <1>1 DEF InsertOnConflictDoNothing, OneRowPerEvent, HasRow
<1>2. CASE ~ HasRow(m.id)
  <2>1. rows' = Append(rows, m)
    BY <1>2 DEF InsertOnConflictDoNothing
  <2>2. /\ rows' \in Seq(Storable) /\ Len(rows) \in Nat /\ Len(rows') = Len(rows) + 1
        /\ \A i \in 1 .. Len(rows) : rows'[i] = rows[i]
        /\ rows'[Len(rows) + 1] = m
    BY <2>1, AppendProperties, LenProperties
  <2>3. \A i \in 1 .. Len(rows') : i \in 1 .. Len(rows) \/ i = Len(rows) + 1
    BY <2>2
  <2>4. \A i \in 1 .. Len(rows) : rows'[i].id # m.id
    BY <1>2, <2>2 DEF HasRow
  <2>5. OneRowPerEvent'
    BY <2>2, <2>3, <2>4 DEF OneRowPerEvent
  <2>6. HasRow(m.id)'
    BY <2>2 DEF HasRow
  <2>7. \A id : HasRow(id) => HasRow(id)'
    BY <2>2 DEF HasRow
  <2>. QED
    BY <2>2, <2>5, <2>6, <2>7
<1>. QED
  BY <1>1, <1>2

(* The invariant of audit-service holds before its thread first connects.  *)
THEOREM AuditInvInit ==
  ASSUME AuditInit
  PROVE  AuditInv
<1>1. ConsumerInv
  BY ConsumerInvInit DEF AuditInit
<1>2. rows = <<>> /\ Len(rows) = 0 /\ rows \in Seq(Storable)
  BY EmptySeq DEF AuditInit
<1>3. Position = {}
  BY EmptySeq DEF AuditInit, ConsumerInit, Position
<1>4. HandlerDidItsWork
  BY DEF AuditInit, ConsumerInit, HandlerDidItsWork
<1>. QED
  BY <1>1, <1>2, <1>3, <1>4 DEF AuditInv, OneRowPerEvent, AckedIsRecorded

(* A step of the loop that leaves the table alone.                         *)
LEMMA TransportKeepsAuditInv ==
  ASSUME AuditInv, TransportStep, UNCHANGED rows
  PROVE  AuditInv'
<1>. USE DEF AuditInv
<1>1. ConsumerInv'
  BY TransportKeepsInv
<1>2. QueueKept /\ SettledByItsHandler /\ HandKept
  BY TransportKeepsMessages
<1>3. \A id : HasRow(id)' <=> HasRow(id)
  BY DEF HasRow
<1>4. HandlerDidItsWork'
  BY <1>2, <1>3 DEF HandlerDidItsWork, HandKept, InHand
<1>5. AckedIsRecorded'
  <2>1. SUFFICES ASSUME NEW k \in Position', place'[k] = "acked", queue'[k].form = "event"
                 PROVE  HasRow(queue'[k].id)
    BY <1>3 DEF AckedIsRecorded
  <2>2. CASE Settled(k)
    <3>1. k \in Position /\ queue'[k] = queue[k] /\ place[k] = "acked"
      BY <1>2, <2>1, <2>2 DEF QueueKept, Settled
    <3>. QED
      BY <2>1, <3>1 DEF AckedIsRecorded
  <2>3. CASE ~ Settled(k)
    <3>1. Settled(k)'
      BY <2>1 DEF Settled
    <3>2. PICK c \in Replica : k \in Position /\ k = Head(buffer[c]) /\ hand[c] = "returned"
      BY <1>2, <2>1, <2>3, <3>1 DEF SettledByItsHandler
    <3>3. queue'[k] = queue[k]
      BY <1>2, <3>2 DEF QueueKept
    <3>. QED
      BY <2>1, <3>2, <3>3 DEF HandlerDidItsWork, InHand
  <2>. QED
    BY <2>2, <2>3
<1>6. OneRowPerEvent' /\ rows' \in Seq(Storable)
  BY DEF OneRowPerEvent
<1>. QED
  BY <1>1, <1>4, <1>5, <1>6

(* The end of a handler, whatever it did to the table, if it did its work. *)
LEMMA HandlerEndKeepsAuditInv ==
  ASSUME AuditInv, NEW c \in Replica, NEW how \in {"returned", "raised"},
         HandlerEnds(c, how),
         rows' \in Seq(Storable), OneRowPerEvent',
         \A id : HasRow(id) => HasRow(id)',
         how = "returned" => InHand(c).form # "malformed",
         how = "returned" /\ InHand(c).form = "event" => HasRow(InHand(c).id)',
         how = "raised" => InHand(c).form # "no_id"
  PROVE  AuditInv'
<1>. USE DEF AuditInv
<1>1. ConsumerInv'
  BY HandlerKeepsInv
<1>2. hand' = [hand EXCEPT ![c] = how] /\ UNCHANGED <<queue, place, buffer>>
  BY DEF HandlerEnds
<1>3. AckedIsRecorded'
  BY <1>2 DEF AckedIsRecorded, Position
<1>4. HandlerDidItsWork'
  <2>1. \A d \in Replica : InHand(d)' = InHand(d)
    BY <1>2 DEF InHand
  <2>2. hand'[c] = how /\ \A d \in Replica \ {c} : hand'[d] = hand[d]
    BY <1>2 DEF ConsumerInv, ConsumerTypeOK
  <2>. QED
    BY <2>1, <2>2 DEF HandlerDidItsWork
<1>. QED
  BY <1>1, <1>3, <1>4

LEMMA HandlerKeepsAuditInv ==
  ASSUME AuditInv, NEW c \in Replica, Handler(c)
  PROVE  AuditInv'
<1>. USE DEF AuditInv
<1>1. UNCHANGED rows =>
        /\ rows' \in Seq(Storable) /\ OneRowPerEvent'
        /\ \A id : HasRow(id) => HasRow(id)'
  BY DEF OneRowPerEvent, HasRow
<1>2. CASE Skip(c)
  BY <1>1, <1>2, HandlerEndKeepsAuditInv DEF Skip
<1>3. CASE RejectBody(c)
  BY <1>1, <1>3, HandlerEndKeepsAuditInv DEF RejectBody
<1>4. ASSUME InHand(c).form = "event", hand[c] = "handling"
      PROVE  InHand(c) \in Storable
  <2>1. Head(buffer[c]) \in Position
    BY <1>4, HeadInPosition
  <2>2. queue[Head(buffer[c])] \in Message
    BY <2>1, ElementOfSeq DEF ConsumerInv, ConsumerTypeOK, Position
  <2>. QED
    BY <1>4, <2>2 DEF InHand, Storable
<1>5. CASE Persist(c)
  <2>1. InHand(c) \in Storable /\ rows' = InsertOnConflictDoNothing(InHand(c))
    BY <1>4, <1>5 DEF Persist, HandlerEnds
  <2>2. /\ rows' \in Seq(Storable) /\ OneRowPerEvent' /\ HasRow(InHand(c).id)'
        /\ \A id : HasRow(id) => HasRow(id)'
    <3>. DEFINE m == InHand(c)
    <3>1. m \in Storable /\ rows' = InsertOnConflictDoNothing(m) /\ m' = m
      BY <1>5, <2>1 DEF Persist, HandlerEnds, InHand
    <3>. HIDE DEF m
    <3>2. /\ rows' \in Seq(Storable) /\ OneRowPerEvent'
          /\ \E i \in 1 .. Len(rows') : rows'[i].id = m.id
          /\ \A id : HasRow(id) => HasRow(id)'
      BY <3>1, InsertProperties DEF HasRow
    <3>. QED
      BY <3>1, <3>2 DEF HasRow, m
  <2>. QED
    BY <1>5, <2>2, HandlerEndKeepsAuditInv DEF Persist
<1>6. CASE DatabaseFails(c)
  <2>1. InHand(c) \in Storable /\ HandlerEnds(c, "raised") /\ InHand(c).form = "event"
    BY <1>4, <1>6 DEF DatabaseFails, HandlerEnds
  <2>2. rows' \in Seq(Storable) /\ OneRowPerEvent' /\ \A id : HasRow(id) => HasRow(id)'
    <3>1. UNCHANGED rows \/ rows' = InsertOnConflictDoNothing(InHand(c))
      BY <1>6 DEF DatabaseFails
    <3>. QED
      BY <1>1, <2>1, <3>1, InsertProperties
  <2>. QED
    BY <2>1, <2>2, HandlerEndKeepsAuditInv
<1>. QED
  BY <1>2, <1>3, <1>5, <1>6 DEF Handler

(* Every step of the broker, the loop and _persist keeps the invariant.    *)
THEOREM AuditInvNext ==
  ASSUME AuditInv, [AuditNext]_auditVars
  PROVE  AuditInv'
<1>1. CASE TransportStep /\ UNCHANGED rows
  BY <1>1, TransportKeepsAuditInv
<1>2. CASE \E c \in Replica : Handler(c)
  BY <1>2, HandlerKeepsAuditInv
<1>3. CASE UNCHANGED auditVars
  BY <1>3 DEF auditVars, AuditInv, ConsumerInv, ConsumerTypeOK, HandIsBuffered,
     BufferedIsUnacked, OneRowPerEvent, AckedIsRecorded, HandlerDidItsWork, HasRow,
     InHand, Position
<1>. QED
  BY <1>1, <1>2, <1>3 DEF AuditNext

-----------------------------------------------------------------------------
(* The inductive invariant holds in every reachable state.                 *)
THEOREM AuditInvariant == AuditSpec => []AuditInv
<1>1. AuditInit => AuditInv
  BY AuditInvInit
<1>2. AuditInv /\ [AuditNext]_auditVars => AuditInv'
  BY AuditInvNext
<1>. QED
  BY <1>1, <1>2, PTL DEF AuditSpec

(* The state of the service is always well typed, with rows for storable   *)
(* messages only (audit/app/consumer.py and models.py).                    *)
THEOREM AuditTypeCorrect == AuditSpec => []AuditTypeOK
<1>1. AuditInv => AuditTypeOK
  BY DEF AuditInv, ConsumerInv, AuditTypeOK
<1>. QED
  BY <1>1, AuditInvariant, PTL

(* No event ever gets two rows, however often it is delivered or published *)
(* and whatever replicas handle it at once.                                *)
THEOREM AuditOneRow == AuditSpec => []OneRowPerEvent
<1>1. AuditInv => OneRowPerEvent
  BY DEF AuditInv
<1>. QED
  BY <1>1, AuditInvariant, PTL

(* An acknowledged event has its row: nothing is acknowledged early.       *)
THEOREM AuditAckedRecorded == AuditSpec => []AckedIsRecorded
<1>1. AuditInv => AckedIsRecorded
  BY DEF AuditInv
<1>. QED
  BY <1>1, AuditInvariant, PTL

(* A live replica's buffer holds its own unacknowledged messages only.     *)
THEOREM AuditBuffers == AuditSpec => []BufferedIsUnacked
<1>1. AuditInv => BufferedIsUnacked
  BY DEF AuditInv, ConsumerInv
<1>. QED
  BY <1>1, AuditInvariant, PTL

(* A settled message stays as it was settled: no late ack or nack of a     *)
(* replica that lost its link reaches it.                                  *)
THEOREM AuditSettledIsFinal == AuditSpec => SettledIsFinal
<1>. DEFINE Final == \A k \in Position : Settled(k) => place'[k] = place[k]
<1>1. AuditInv /\ [AuditNext]_auditVars => [Final]_consumerVars
  <2>. SUFFICES ASSUME AuditInv, [AuditNext]_auditVars
                PROVE  [Final]_consumerVars
    OBVIOUS
  <2>1. CASE TransportStep
    BY <2>1, TransportKeepsMessages DEF AuditInv, QueueKept
  <2>2. ASSUME NEW c \in Replica, Handler(c)
        PROVE  Final
    BY <2>2 DEF Handler, Skip, Persist, RejectBody, DatabaseFails, HandlerEnds
  <2>3. CASE UNCHANGED auditVars
    BY <2>3 DEF auditVars, consumerVars
  <2>. QED
    BY <2>1, <2>2, <2>3 DEF AuditNext
<1>. QED
  BY <1>1, AuditInvariant, PTL DEF AuditSpec, SettledIsFinal

-----------------------------------------------------------------------------
(* The service implements the abstract log.                                *)

(* The fate of the messages is a function on their positions.              *)
LEMMA FateType ==
  ASSUME ConsumerInv
  PROVE  /\ Fate \in [1 .. Len(queue) -> {"held", "released", "lost"}]
         /\ Len(queue) \in Nat
BY LenProperties DEF Fate, Position, ConsumerInv, ConsumerTypeOK

(* Two functions on one domain with the same values are equal.             *)
LEMMA SameFunction ==
  ASSUME NEW D, NEW S, NEW f \in [D -> S], NEW g \in [D -> S],
         \A x \in D : f[x] = g[x]
  PROVE  f = g
OBVIOUS

LEMMA PublishRefines ==
  ASSUME AuditInv, NEW m \in Message, Publish(m), UNCHANGED rows
  PROVE  Log!AuditLogNext \/ UNCHANGED <<queue, Fate, rows>>
<1>. USE DEF AuditInv
<1>1. CASE bound = FALSE
  <2>1. UNCHANGED <<queue, place>>
    BY <1>1 DEF Publish
  <2>. QED
    BY <2>1 DEF Fate, Position
<1>2. CASE bound = TRUE
  <2>. DEFINE n == Len(queue)
              F == {"held", "released", "lost"}
              P == Resting \cup Replica
  <2>1. queue' = Append(queue, m) /\ place' = Append(place, "ready")
    BY <1>2 DEF Publish
  <2>2. n \in Nat /\ Fate \in [1 .. n -> F] /\ "held" \in F
    BY FateType
  <2>3. Len(queue') = n + 1
    BY <2>1, AppendProperties DEF ConsumerInv, ConsumerTypeOK
  <2>4. Position = 1 .. n /\ Position' = 1 .. n + 1
    BY <2>3 DEF Position
  <2>5. place \in [1 .. n -> P] /\ "ready" \in P
    BY <2>4 DEF ConsumerInv, ConsumerTypeOK, Resting
  <2>6. place'[n + 1] = "ready" /\ \A k \in 1 .. n : place'[k] = place[k]
    <3>. HIDE DEF n, P
    <3>. QED
      BY <2>1, <2>2, <2>5, AppendToFunction, SMT
  <2>7. \A k \in 1 .. n : Fate'[k] = Fate[k]
    BY <2>2, <2>4, <2>6 DEF Fate
  <2>8. Fate'[n + 1] = "held"
    BY <2>2, <2>4, <2>6 DEF Fate
  <2>9. /\ Append(Fate, "held")[n + 1] = "held"
        /\ \A k \in 1 .. n : Append(Fate, "held")[k] = Fate[k]
    <3>. HIDE DEF n, F
    <3>. QED
      BY <2>2, AppendToFunction, SMT
  <2>10. Append(Fate, "held") \in [1 .. n + 1 -> F]
    <3>. HIDE DEF n, F
    <3>1. n \in Nat
      BY <2>2
    <3>2. Fate \in [1 .. n -> F]
      BY <2>2
    <3>3. "held" \in F
      BY <2>2
    <3>. QED
      BY <3>1, <3>2, <3>3, AppendToFunction, Zenon
  <2>11. Fate' \in [1 .. n + 1 -> F]
    BY <2>4 DEF Fate
  <2>12. Fate' = Append(Fate, "held")
    <3>1. \A k \in 1 .. n + 1 : k \in 1 .. n \/ k = n + 1
      BY <2>2
    <3>. HIDE DEF n, F
    <3>2. \A k \in 1 .. n + 1 : Fate'[k] = Append(Fate, "held")[k]
      BY <2>7, <2>8, <2>9, <3>1
    <3>. DEFINE D == 1 .. n + 1
                g == Append(Fate, "held")
    <3>3. Fate' \in [D -> F]
      BY <2>11
    <3>4. g \in [D -> F]
      BY <2>10
    <3>5. \A k \in D : Fate'[k] = g[k]
      BY <3>2
    <3>. HIDE DEF D, g
    <3>6. Fate' = g
      BY <3>3, <3>4, <3>5, SameFunction
    <3>. QED
      BY <3>6 DEF g
  <2>. QED
    BY <2>1, <2>12 DEF Log!AuditLogNext, Log!Accept
<1>. QED
  BY <1>1, <1>2 DEF ConsumerInv, ConsumerTypeOK

(* Settling the message in hand changes the fate of that message alone.    *)
LEMMA SettleFate ==
  ASSUME AuditInv, NEW c \in Replica, NEW as \in {"acked", "dropped"},
         hand[c] # "idle", Settle(c, as)
  PROVE  LET k == Head(buffer[c])
         IN  /\ k \in 1 .. Len(queue) /\ Fate[k] = "held" /\ UNCHANGED queue
             /\ Fate' = [Fate EXCEPT ![k] = IF as = "acked" THEN "released" ELSE "lost"]
<1>. DEFINE k == Head(buffer[c])
<1>1. link[c] = "open" /\ place' = [place EXCEPT ![k] = as] /\ queue' = queue
  BY DEF Settle
<1>2. k \in Position /\ place[k] = c /\ Position' = Position
  BY <1>1, SettlesOwn DEF AuditInv, Position
<1>3. c \notin {"acked", "dropped"}
  BY ConsumerAssumption DEF Resting
<1>4. Fate[k] = "held"
  BY <1>2, <1>3 DEF Fate
<1>5. Fate' = [Fate EXCEPT ![k] = IF as = "acked" THEN "released" ELSE "lost"]
  <2>. HIDE DEF k
  <2>. QED
    BY <1>1, <1>2 DEF Fate, AuditInv, ConsumerInv, ConsumerTypeOK
<1>. QED
  BY <1>1, <1>2, <1>4, <1>5 DEF Position

LEMMA AckRefines ==
  ASSUME AuditInv, NEW c \in Replica, Ack(c), UNCHANGED rows
  PROVE  Log!AuditLogNext
<1>1. hand[c] = "returned" /\ Settle(c, "acked")
  BY DEF Ack
<1>. DEFINE k == Head(buffer[c])
<1>2. /\ k \in 1 .. Len(queue) /\ Fate[k] = "held" /\ UNCHANGED queue
      /\ Fate' = [Fate EXCEPT ![k] = "released"]
  BY <1>1, SettleFate
<1>3. /\ queue[k].form # "malformed"
      /\ queue[k].form = "event" => HasRow(queue[k].id)
  BY <1>1 DEF AuditInv, HandlerDidItsWork, InHand
<1>. HIDE DEF k
<1>4. Log!Release
  BY <1>2, <1>3 DEF Log!Release, Log!Logged, HasRow
<1>. QED
  BY <1>4 DEF Log!AuditLogNext

LEMMA NackRefines ==
  ASSUME AuditInv, NEW c \in Replica, Nack(c), UNCHANGED rows
  PROVE  Log!AuditLogNext
<1>1. hand[c] = "raised" /\ Settle(c, "dropped")
  BY DEF Nack
<1>. DEFINE k == Head(buffer[c])
<1>2. /\ k \in 1 .. Len(queue) /\ Fate[k] = "held" /\ UNCHANGED queue
      /\ Fate' = [Fate EXCEPT ![k] = "lost"]
  BY <1>1, SettleFate
<1>3. queue[k].form # "no_id"
  BY <1>1 DEF AuditInv, HandlerDidItsWork, InHand
<1>. HIDE DEF k
<1>4. Log!GiveUp
  BY <1>2, <1>3 DEF Log!GiveUp
<1>. QED
  BY <1>4 DEF Log!AuditLogNext

(* Moving a message that is not settled, without settling it, is invisible. *)
LEMMA OtherStepsRefine ==
  ASSUME AuditInv, UNCHANGED rows,
         \/ \E k \in Position : Requeue(k)
         \/ \E c \in Replica : \/ Deliver(c) \/ Connect(c) \/ Take(c)
                               \/ SettleUnheard(c) \/ LinkClosed(c) \/ Fault(c)
                               \/ Restart(c)
  PROVE  UNCHANGED <<queue, Fate, rows>>
<1>1. queue' = queue /\ Position' = Position
  BY DEF Requeue, Deliver, Connect, Take, SettleUnheard, LinkClosed, Fault, LinkLost,
     Crash, ThreadDies, Restart, Position
<1>2. \A c \in Replica : c \notin {"acked", "dropped"}
  BY ConsumerAssumption DEF Resting
<1>3. \A j \in Position :
        \/ place'[j] = place[j]
        \/ {place[j], place'[j]} \cap {"acked", "dropped"} = {}
  <2>1. CASE \E k \in Position : Requeue(k)
    BY <2>1 DEF Requeue, AuditInv, ConsumerInv, ConsumerTypeOK
  <2>2. CASE \E c \in Replica : Deliver(c)
    BY <1>2, <2>2 DEF Deliver, AuditInv, ConsumerInv, ConsumerTypeOK
  <2>3. CASE \E c \in Replica : Connect(c) \/ Take(c) \/ SettleUnheard(c) \/ LinkClosed(c)
    BY <2>3 DEF Connect, Take, SettleUnheard, LinkClosed
  <2>4. CASE \E c \in Replica : Fault(c) \/ Restart(c)
    BY <1>2, <2>4 DEF Fault, LinkLost, Crash, ThreadDies, Restart, Orphan
  <2>. QED
    BY <2>1, <2>2, <2>3, <2>4
<1>4. \A j \in Position : (place'[j] = "acked" <=> place[j] = "acked")
                          /\ (place'[j] = "dropped" <=> place[j] = "dropped")
  BY <1>3
<1>. QED
  BY <1>1, <1>4 DEF Fate

LEMMA HandlerRefines ==
  ASSUME AuditInv, NEW c \in Replica, Handler(c)
  PROVE  Log!AuditLogNext \/ UNCHANGED <<queue, Fate, rows>>
<1>1. hand[c] = "handling" /\ UNCHANGED <<queue, place>>
  BY DEF Handler, Skip, Persist, RejectBody, DatabaseFails, HandlerEnds
<1>2. UNCHANGED <<queue, Fate>>
  BY <1>1 DEF Fate, Position
<1>3. \/ UNCHANGED rows
      \/ InHand(c).form = "event" /\ rows' = InsertOnConflictDoNothing(InHand(c))
  BY DEF Handler, Skip, Persist, RejectBody, DatabaseFails
<1>4. Head(buffer[c]) \in 1 .. Len(queue)
  BY <1>1, HeadInPosition DEF AuditInv, Position
<1>5. ASSUME InHand(c).form = "event", ~ HasRow(InHand(c).id),
             rows' = Append(rows, InHand(c))
      PROVE  Log!Record
  BY <1>2, <1>4, <1>5 DEF Log!Record, Log!Logged, HasRow, InHand
<1>. QED
  BY <1>2, <1>3, <1>5 DEF InsertOnConflictDoNothing, Log!AuditLogNext

(* audit-service implements AuditLog: seen through the queue, the fate of  *)
(* its messages and the table, every step is a step of the abstract log or *)
(* leaves it alone.                                                        *)
THEOREM AuditRefinesLog == AuditSpec => ImplementsAuditLog
<1>1. AuditInit => Log!AuditLogInit
  <2>. SUFFICES ASSUME AuditInit PROVE Log!AuditLogInit
    OBVIOUS
  <2>1. queue = <<>> /\ rows = <<>> /\ Position = {}
    BY EmptySeq DEF AuditInit, ConsumerInit, Position
  <2>2. Fate = <<>>
    BY <2>1 DEF Fate
  <2>. QED
    BY <2>1, <2>2 DEF Log!AuditLogInit
<1>2. AuditInv /\ [AuditNext]_auditVars => [Log!AuditLogNext]_<<queue, Fate, rows>>
  <2>. SUFFICES ASSUME AuditInv, [AuditNext]_auditVars
                PROVE  Log!AuditLogNext \/ UNCHANGED <<queue, Fate, rows>>
    OBVIOUS
  <2>1. CASE TransportStep /\ UNCHANGED rows
    BY <2>1, PublishRefines, AckRefines, NackRefines, OtherStepsRefine
       DEF TransportStep, ThreadStep
  <2>2. CASE \E c \in Replica : Handler(c)
    BY <2>2, HandlerRefines
  <2>3. CASE UNCHANGED auditVars
    BY <2>3 DEF auditVars, Fate, Position
  <2>. QED
    BY <2>1, <2>2, <2>3 DEF AuditNext
<1>. QED
  BY <1>1, <1>2, AuditInvariant, PTL DEF AuditSpec, ImplementsAuditLog, Log!AuditLogSpec
=============================================================================
