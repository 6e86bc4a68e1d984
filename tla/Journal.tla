------------------------------ MODULE Journal ------------------------------
(***************************************************************************)
(* What issues-service and audit-service promise together, without         *)
(* requests, an exchange or a queue: the record of a change is written     *)
(* after the change was committed, once, and never taken back.  Not every  *)
(* change gets its record: an event can be lost on the way.                *)
(***************************************************************************)
EXTENDS Naturals, Sequences

(* A change is a request's committed transaction on an issue.  Each of two *)
(* DELETEs that race is one, though only the first finds the row.          *)
CONSTANT Change   \* who did what to which issue of which tenant

VARIABLES
  done,      \* the changes committed
  recorded   \* the changes recorded, oldest first

IsRecorded(c) == \E i \in 1 .. Len(recorded) : recorded[i] = c

JournalInit == done = {} /\ recorded = <<>>

Do ==
  /\ \E c \in Change \ done : done' = done \cup {c}
  /\ UNCHANGED recorded

Record ==
  /\ \E c \in done :
       /\ ~ IsRecorded(c)
       /\ recorded' = Append(recorded, c)
  /\ UNCHANGED done

JournalSpec == JournalInit /\ [][Do \/ Record]_<<done, recorded>>
=============================================================================
