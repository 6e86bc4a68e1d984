--------------------------- MODULE Notifications ---------------------------
(***************************************************************************)
(* notifications-service: the consumer loop of module Consumer around      *)
(* _on_issue_event (services/notifications/app/consumer.py), which mails   *)
(* every issue.created event through app/email.py.                         *)
(*                                                                         *)
(* What a message's body can be: "created" and "other" are issue events;   *)
(* "malformed" is no JSON, which the handler catches itself; "unsendable"  *)
(* makes it raise before it talks to the SMTP server (a line break in the  *)
(* title makes an illegal Subject header; a JSON array has no get).        *)
(***************************************************************************)
EXTENDS Consumer

ASSUME NotificationsAssumption ==
  Message \subseteq {"created", "other", "malformed", "unsendable"}

VARIABLES
  mails,    \* positions of the messages mailed, in the order of the mails
  failed    \* positions whose mail the SMTP client logged as failed

notificationsVars ==
  <<bound, unrouted, queue, place, link, buffer, hand, faults, mails, failed>>

Mailable == {k \in Position : queue[k] = "created"}

NotificationsTypeOK ==
  /\ ConsumerTypeOK
  /\ mails \in Seq(Mailable)
  /\ failed \subseteq Mailable

NotificationsInit == ConsumerInit /\ mails = <<>> /\ failed = {}

-----------------------------------------------------------------------------
(* An issue.created event is mailed. *)
Mail(c) ==
  /\ HandlerEnds(c, "returned")
  /\ InHand(c) = "created"
  /\ mails' = Append(mails, Head(buffer[c]))
  /\ UNCHANGED failed

RetryMail(c) ==   \* mutant: send tries once more when it has failed
  /\ HandlerEnds(c, "returned")
  /\ InHand(c) = "created"
  /\ mails' = mails \o <<Head(buffer[c]), Head(buffer[c])>>
  /\ UNCHANGED failed

(* mailer.send logs every exception of smtplib and returns; when it is the *)
(* end of the dialogue that fails, the server has the mail all the same.   *)
MailFails(c) ==
  /\ HandlerEnds(c, "returned")
  /\ InHand(c) = "created"
  /\ failed' = failed \cup {Head(buffer[c])}
  /\ mails' \in {mails, Append(mails, Head(buffer[c]))}

MailAnything(c) ==   \* mutant: the event type is not looked at
  /\ HandlerEnds(c, "returned")
  /\ InHand(c) \in {"other", "malformed"}
  /\ mails' = Append(mails, Head(buffer[c]))
  /\ UNCHANGED failed

(* Another event, or no JSON: logged, and the handler returns. *)
Ignore(c) ==
  /\ HandlerEnds(c, "returned")
  /\ InHand(c) \in {"other", "malformed"}
  /\ UNCHANGED <<mails, failed>>

Reject(c) ==
  /\ HandlerEnds(c, "raised")
  /\ InHand(c) = "unsendable"
  /\ UNCHANGED <<mails, failed>>

Handler(c) == Mail(c) \/ MailFails(c) \/ Ignore(c) \/ Reject(c)

NotificationsNext ==
  \/ TransportStep /\ UNCHANGED <<mails, failed>>
  \/ \E c \in Replica : Handler(c)

NotificationsSpec == NotificationsInit /\ [][NotificationsNext]_notificationsVars

(* As for audit-service: the loop and the broker go on; the SMTP client    *)
(* has a timeout of 5 seconds, so the handler ends.                        *)
NotificationsFairness ==
  /\ \A k \in 1 .. MaxPublished :
       WF_notificationsVars(Requeue(k) /\ UNCHANGED <<mails, failed>>)
  /\ \A c \in Replica :
       /\ WF_notificationsVars(ThreadStep(c) /\ UNCHANGED <<mails, failed>>)
       /\ WF_notificationsVars(Handler(c))

FairNotificationsSpec == NotificationsSpec /\ NotificationsFairness

-----------------------------------------------------------------------------
(* "The user could get the email twice" (notifications/README.md:109), but *)
(* only for a crash or a lost link between sending and acknowledging: each *)
(* further copy of one event's mail is paid for by a fault of its own.     *)
Copies(k) == Cardinality({i \in DOMAIN mails : mails[i] = k})

CopiesCostFaults == \A k \in Position : Copies(k) <= 1 + faults

(* An issue.created event leaves the queue only after its mail was sent or *)
(* its failure logged: it is never dropped, and manual acknowledgement     *)
(* does not forget it while a handler is still on it.                      *)
SettledWasTried ==
  \A k \in Mailable : Settled(k) =>
    /\ place[k] = "acked"
    /\ Copies(k) > 0 \/ k \in failed
=============================================================================
