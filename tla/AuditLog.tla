------------------------------ MODULE AuditLog ------------------------------
(***************************************************************************)
(* What the audit service promises about the events the broker accepts for *)
(* it, without queues, redelivery, replicas or crashes: each accepted      *)
(* message is released or given up at most once, a release of an event     *)
(* happens only after its record is in the log, and the log never gets a   *)
(* second record of one event_id and never loses one.  A record may be     *)
(* written late, after the message was given up: an insert can be slow.    *)
(* Stated from services/audit/README.md and the code of audit/app.         *)
(***************************************************************************)
EXTENDS Naturals, Sequences

CONSTANT Message   \* what the broker may accept: records with id and form

VARIABLES
  accepted,  \* the messages accepted for the log, oldest first
  fate,      \* fate[k]: "held", "released" (acknowledged) or "lost"
  log        \* the records written, oldest first

Logged(id) == \E i \in 1 .. Len(log) : log[i].id = id

AuditLogInit ==
  /\ accepted = <<>>
  /\ fate = <<>>
  /\ log = <<>>

Accept ==
  \E m \in Message :
    /\ accepted' = Append(accepted, m)
    /\ fate' = Append(fate, "held")
    /\ UNCHANGED log

Record ==
  \E k \in 1 .. Len(accepted) :
    /\ accepted[k].form = "event"
    /\ ~ Logged(accepted[k].id)
    /\ log' = Append(log, accepted[k])
    /\ UNCHANGED <<accepted, fate>>

Release ==
  \E k \in 1 .. Len(accepted) :
    /\ fate[k] = "held"
    /\ accepted[k].form = "event" => Logged(accepted[k].id)
    /\ accepted[k].form # "malformed"
    /\ fate' = [fate EXCEPT ![k] = "released"]
    /\ UNCHANGED <<accepted, log>>

GiveUp ==
  \E k \in 1 .. Len(accepted) :
    /\ fate[k] = "held"
    /\ accepted[k].form # "no_id"
    /\ fate' = [fate EXCEPT ![k] = "lost"]
    /\ UNCHANGED <<accepted, log>>

AuditLogNext == Accept \/ Record \/ Release \/ GiveUp

AuditLogSpec == AuditLogInit /\ [][AuditLogNext]_<<accepted, fate, log>>

=============================================================================
