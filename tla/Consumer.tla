------------------------------ MODULE Consumer ------------------------------
(***************************************************************************)
(* A durable RabbitMQ queue bound to the topic exchange mjira.events, and  *)
(* the pika consumers that drain it.  audit-service and notifications-     *)
(* service run the same loop (services/audit/app/consumer.py lines 60-96,  *)
(* services/notifications/app/consumer.py lines 53-89) around different    *)
(* message handlers; this module is that loop and the broker behind it.    *)
(* Modules Audit and Notifications extend it with their handler.           *)
(*                                                                         *)
(* A replica is one container of the service: a daemon thread with its own *)
(* connection.  Everything the broker does is external to the repository   *)
(* and modelled from how the loop uses it.                                 *)
(***************************************************************************)
EXTENDS Naturals, Sequences, FiniteSets

CONSTANTS
  Message,       \* what can be published to the exchange
  Replica,       \* consumer processes of the service
  Prefetch,      \* basic_qos(prefetch_count=...)
  MaxPublished,  \* bound: messages accepted by the exchange
  MaxFaults      \* bound: link losses, process crashes and ended threads

Resting == {"ready", "orphaned", "acked", "dropped"}

ASSUME ConsumerAssumption ==
  /\ Prefetch \in Nat \ {0}
  /\ MaxPublished \in Nat
  /\ MaxFaults \in Nat
  /\ Replica \cap Resting = {}

VARIABLES
  bound,     \* the queue is declared and bound to the exchange
  unrouted,  \* how many messages the exchange accepted with no queue bound
  queue,     \* every message ever routed to the queue, oldest first
  place,     \* place[k]: where queue[k] is; a replica means "unacked at it"
  link,      \* the AMQP connection of each replica; "dead" is no thread at all
  buffer,    \* positions delivered to a replica and not yet settled by it
  hand,      \* progress of on_message for Head(buffer[c])
  faults     \* link losses, crashes and ended threads so far

consumerVars == <<bound, unrouted, queue, place, link, buffer, hand, faults>>

Position == 1 .. Len(queue)

(* The message replica c is handling. *)
InHand(c) == queue[Head(buffer[c])]

ConsumerTypeOK ==
  /\ bound \in BOOLEAN
  /\ unrouted \in 0 .. MaxPublished
  /\ queue \in Seq(Message)
  /\ place \in [Position -> Resting \cup Replica]
  /\ link \in [Replica -> {"dead", "closed", "open", "broken"}]
  /\ buffer \in [Replica -> Seq(Position)]
  /\ hand \in [Replica -> {"idle", "handling", "returned", "raised"}]
  /\ faults \in 0 .. MaxFaults

ConsumerInit ==
  /\ bound = FALSE
  /\ unrouted = 0
  /\ queue = <<>>
  /\ place = <<>>
  /\ link = [c \in Replica |-> "closed"]
  /\ buffer = [c \in Replica |-> <<>>]
  /\ hand = [c \in Replica |-> "idle"]
  /\ faults = 0

-----------------------------------------------------------------------------
(* The broker. *)

(* basic_publish to the exchange: the message is copied to the queue if    *)
(* the queue is already bound, and thrown away otherwise, because the      *)
(* publisher declares the exchange only and does not publish as mandatory. *)
Publish(m) ==
  /\ Len(queue) + unrouted < MaxPublished
  /\ IF bound
       THEN /\ queue' = Append(queue, m)
            /\ place' = Append(place, "ready")
            /\ UNCHANGED unrouted
       ELSE /\ unrouted' = unrouted + 1
            /\ UNCHANGED <<queue, place>>
  /\ UNCHANGED <<bound, link, buffer, hand, faults>>

(* The broker pushes its oldest ready message to a consumer that has fewer *)
(* than Prefetch unacknowledged ones.                                      *)
Deliver(c) ==
  /\ link[c] = "open"
  /\ Cardinality({k \in Position : place[k] = c}) < Prefetch
  /\ \E k \in Position :
       /\ place[k] = "ready"
       /\ \A j \in 1 .. k - 1 : place[j] # "ready"
       /\ place' = [place EXCEPT ![k] = c]
       /\ buffer' = [buffer EXCEPT ![c] = Append(@, k)]
  /\ UNCHANGED <<bound, unrouted, queue, link, hand, faults>>

(* The broker has noticed that the channel holding message k is gone. *)
Requeue(k) ==
  /\ k \in Position
  /\ place[k] = "orphaned"
  /\ place' = [place EXCEPT ![k] = "ready"]
  /\ UNCHANGED <<bound, unrouted, queue, link, buffer, hand, faults>>

(* What the broker did not hear settled on the channel of c is orphaned. *)
Orphan(c) == place' = [k \in Position |-> IF place[k] = c THEN "orphaned" ELSE place[k]]

-----------------------------------------------------------------------------
(* The consumer thread. *)

(* _consume_once up to start_consuming: declare the exchange and the queue, *)
(* bind it, set the prefetch, subscribe.  Failing to connect is not a step: *)
(* _run_forever sleeps and tries again.                                     *)
ConnectOnce(c) ==   \* mutant: no while loop around _consume_once
  /\ link[c] = "closed"
  /\ faults = 0
  /\ link' = [link EXCEPT ![c] = "open"]
  /\ bound' = TRUE
  /\ UNCHANGED <<unrouted, queue, place, buffer, hand, faults>>

Connect(c) ==
  /\ link[c] = "closed"
  /\ link' = [link EXCEPT ![c] = "open"]
  /\ bound' = TRUE
  /\ UNCHANGED <<unrouted, queue, place, buffer, hand, faults>>

TakeAutoAck(c) ==   \* mutant: the broker may forget it on delivery
  /\ link[c] \in {"open", "broken"}
  /\ hand[c] = "idle"
  /\ buffer[c] # <<>>
  /\ hand' = [hand EXCEPT ![c] = "handling"]
  /\ place' = [place EXCEPT ![Head(buffer[c])] = "acked"]
  /\ UNCHANGED <<bound, unrouted, queue, link, buffer, faults>>

(* start_consuming dispatches the next buffered message to on_message; a   *)
(* dead connection is only noticed at the next read or write on it.        *)
Take(c) ==
  /\ link[c] \in {"open", "broken"}
  /\ hand[c] = "idle"
  /\ buffer[c] # <<>>
  /\ hand' = [hand EXCEPT ![c] = "handling"]
  /\ UNCHANGED <<bound, unrouted, queue, place, link, buffer, faults>>

(* The handler ends, normally or with an exception. *)
HandlerEnds(c, how) ==
  /\ hand[c] = "handling"
  /\ hand' = [hand EXCEPT ![c] = how]
  /\ UNCHANGED <<bound, unrouted, queue, place, link, buffer, faults>>

(* on_message settles the message on a live channel. *)
Settle(c, as) ==
  /\ link[c] = "open"
  /\ place' = [place EXCEPT ![Head(buffer[c])] = as]
  /\ buffer' = [buffer EXCEPT ![c] = Tail(@)]
  /\ hand' = [hand EXCEPT ![c] = "idle"]
  /\ UNCHANGED <<bound, unrouted, queue, link, faults>>

(* The handler returned: basic_ack. *)
AckAlways(c) ==     \* mutant: basic_ack in a finally clause
  hand[c] \in {"returned", "raised"} /\ Settle(c, "acked")

AckMultiple(c) ==   \* mutant: basic_ack(multiple=True)
  /\ hand[c] = "returned"
  /\ link[c] = "open"
  /\ place' = [k \in Position |-> IF place[k] = c THEN "acked" ELSE place[k]]
  /\ buffer' = [buffer EXCEPT ![c] = <<>>]
  /\ hand' = [hand EXCEPT ![c] = "idle"]
  /\ UNCHANGED <<bound, unrouted, queue, link, faults>>

Ack(c) == hand[c] = "returned" /\ Settle(c, "acked")

NackRequeue(c) ==   \* mutant: basic_nack(requeue=True)
  hand[c] = "raised" /\ Settle(c, "ready")

(* The handler raised: basic_nack(requeue=False), and there is no dead-    *)
(* letter exchange, so the message is gone.                                *)
Nack(c) == hand[c] = "raised" /\ Settle(c, "dropped")

(* The ack or nack is written to a connection that is already dead. *)
SettleUnheard(c) ==
  /\ link[c] = "broken"
  /\ hand[c] \in {"returned", "raised"}
  /\ buffer' = [buffer EXCEPT ![c] = Tail(@)]
  /\ hand' = [hand EXCEPT ![c] = "idle"]
  /\ UNCHANGED <<bound, unrouted, queue, place, link, faults>>

(* The broker restarts or the connection drops under the consumer. *)
LinkLost(c) ==
  /\ faults < MaxFaults
  /\ link[c] = "open"
  /\ link' = [link EXCEPT ![c] = "broken"]
  /\ faults' = faults + 1
  /\ Orphan(c)
  /\ UNCHANGED <<bound, unrouted, queue, buffer, hand>>

(* pika raises AMQPError outside the handler; _run_forever logs it, sleeps *)
(* three seconds and will connect again.  Buffered messages are forgotten. *)
LinkClosed(c) ==
  /\ link[c] = "broken"
  /\ hand[c] # "handling"
  /\ link' = [link EXCEPT ![c] = "closed"]
  /\ buffer' = [buffer EXCEPT ![c] = <<>>]
  /\ hand' = [hand EXCEPT ![c] = "idle"]
  /\ UNCHANGED <<bound, unrouted, queue, place, faults>>

(* The process dies, and its daemon thread with it, wherever it was.       *)
Crash(c) ==
  /\ faults < MaxFaults
  /\ link[c] # "dead"
  /\ link' = [link EXCEPT ![c] = "dead"]
  /\ buffer' = [buffer EXCEPT ![c] = <<>>]
  /\ hand' = [hand EXCEPT ![c] = "idle"]
  /\ faults' = faults + 1
  /\ Orphan(c)
  /\ UNCHANGED <<bound, unrouted, queue>>

(* _run_forever catches AMQPError and nothing else: what connecting raises *)
(* besides (a KeyError for RABBITMQ_URL, an OSError when the broker's name *)
(* does not resolve) ends the thread alone.  Its process stays, healthy.   *)
ThreadDies(c) ==
  /\ faults < MaxFaults
  /\ link[c] = "closed"
  /\ link' = [link EXCEPT ![c] = "dead"]
  /\ faults' = faults + 1
  /\ UNCHANGED <<bound, unrouted, queue, place, buffer, hand>>

(* An operator starts the process again: nothing else does, because        *)
(* docker-compose gives no service a restart policy.                       *)
Restart(c) ==
  /\ link[c] = "dead"
  /\ link' = [link EXCEPT ![c] = "closed"]
  /\ UNCHANGED <<bound, unrouted, queue, place, buffer, hand, faults>>

(* Every step that is not a handler's. *)
ThreadStep(c) ==
  \/ Deliver(c)
  \/ Connect(c)
  \/ Take(c)
  \/ Ack(c)
  \/ Nack(c)
  \/ SettleUnheard(c)
  \/ LinkClosed(c)

Fault(c) == LinkLost(c) \/ Crash(c) \/ ThreadDies(c)

TransportStep ==
  \/ \E m \in Message : Publish(m)
  \/ \E k \in Position : Requeue(k)
  \/ \E c \in Replica : ThreadStep(c) \/ Fault(c) \/ Restart(c)

-----------------------------------------------------------------------------
(* What the loop guarantees whatever its handler does. *)

(* While a connection is open, what its consumer has buffered is what the  *)
(* broker holds unacknowledged for that channel: no message is at two live *)
(* replicas, and an ack can only settle the acking replica's own message.  *)
BufferedIsUnacked ==
  \A c \in Replica : link[c] = "open" =>
    /\ \A j \in 1 .. Len(buffer[c]) : place[buffer[c][j]] = c
    /\ \A i, j \in 1 .. Len(buffer[c]) : buffer[c][i] = buffer[c][j] => i = j

(* A settled message stays settled the way it was: no stale replica acks   *)
(* what was dropped, drops what was acked, or brings it back to the queue. *)
Settled(k) == k \in Position /\ place[k] \in {"acked", "dropped"}

SettledIsFinal == [][\A k \in Position : Settled(k) => place'[k] = place[k]]_consumerVars

(* Once faults stop, as long as one consumer thread is left or is started  *)
(* again, every message routed to the queue is settled: nothing stays      *)
(* unacked at a dead channel, with a thread that is gone or in a stuck     *)
(* buffer.                                                                 *)
EveryMessageSettled ==
  <>[](\E c \in Replica : link[c] # "dead") =>
    \A k \in 1 .. MaxPublished : k \in Position ~> Settled(k)
=============================================================================
