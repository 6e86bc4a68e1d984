------------------------ MODULE Notifications_proof ------------------------
(***************************************************************************)
(* The safety of notifications-service, for any number of replicas,        *)
(* messages and faults: no mail is forgotten, and each further copy of a   *)
(* mail has cost a fault.                                                  *)
(***************************************************************************)
EXTENDS Notifications, Consumer_proof, FiniteSetTheorems

-----------------------------------------------------------------------------
(* The inductive invariant. *)

Done(c) == hand[c] \in {"returned", "raised"}

(* The messages in c's buffer that it has yet to handle.                   *)
Unhandled(c) == IF Done(c) THEN 2 .. Len(buffer[c]) ELSE 1 .. Len(buffer[c])

ToMail(c) == {buffer[c][i] : i \in Unhandled(c)}

(* No replica has a message twice, though its connection may be gone. *)
NothingTwice ==
  \A c \in Replica : \A i, j \in 1 .. Len(buffer[c]) : buffer[c][i] = buffer[c][j] => i = j

(* The chances message k still has of being mailed: by every replica that  *)
(* has it before it, and from the queue, if it is there.                   *)
Chances(k) ==
  {c \in Replica : k \in ToMail(c)} \cup ({place[k]} \cap {"ready", "orphaned"})

MailsOf(k) == {i \in DOMAIN mails : mails[i] = k}

(* Mails sent and mails to come are paid for by faults, but for one. *)
ChancesCostFaults ==
  \A k \in Position :
    /\ IsFiniteSet(Chances(k))
    /\ Copies(k) + Cardinality(Chances(k)) <= 1 + faults

Tried(k) == Copies(k) > 0 \/ k \in failed

(* A handler that returned has tried, one that raised had no mail to send. *)
HandlerHasTried ==
  \A c \in Replica :
    /\ hand[c] = "returned" /\ InHand(c) = "created" =>
         \E k \in Position : k = Head(buffer[c]) /\ Tried(k)
    /\ hand[c] = "raised" => InHand(c) = "unsendable"

NotificationsInv ==
  /\ ConsumerInv
  /\ NotificationsTypeOK
  /\ NothingTwice
  /\ ChancesCostFaults
  /\ HandlerHasTried
  /\ SettledWasTried

-----------------------------------------------------------------------------
(* Counting chances and copies. *)

LEMMA SwappedChance ==
  ASSUME NEW S, NEW T, NEW x \in S, NEW y, IsFiniteSet(S), T \subseteq (S \ {x}) \cup {y}
  PROVE  IsFiniteSet(T) /\ Cardinality(T) <= Cardinality(S)
<1>1. IsFiniteSet(S \ {x}) /\ Cardinality(S \ {x}) = Cardinality(S) - 1
  BY FS_RemoveElement
<1>2. /\ IsFiniteSet((S \ {x}) \cup {y})
      /\ Cardinality((S \ {x}) \cup {y}) <= Cardinality(S \ {x}) + 1
  BY <1>1, FS_AddElement, FS_CardinalityType
<1>3. IsFiniteSet(T) /\ Cardinality(T) <= Cardinality((S \ {x}) \cup {y})
  BY <1>2, FS_Subset
<1>4. /\ Cardinality(S) \in Nat /\ Cardinality(T) \in Nat
      /\ Cardinality((S \ {x}) \cup {y}) \in Nat
  BY <1>2, <1>3, FS_CardinalityType
<1>. QED
  BY <1>1, <1>2, <1>3, <1>4

LEMMA AddedChance ==
  ASSUME NEW S, NEW T, NEW y, IsFiniteSet(S), T \subseteq S \cup {y}
  PROVE  IsFiniteSet(T) /\ Cardinality(T) <= Cardinality(S) + 1
<1>0. Cardinality(S) \in Nat
  BY FS_CardinalityType
<1>1. /\ IsFiniteSet(S \cup {y})
      /\ Cardinality(S \cup {y}) = IF y \in S THEN Cardinality(S) ELSE Cardinality(S) + 1
  BY FS_AddElement
<1>2. IsFiniteSet(T) /\ Cardinality(T) <= Cardinality(S \cup {y})
  BY <1>1, FS_Subset
<1>3. Cardinality(S) \in Nat /\ Cardinality(T) \in Nat /\ Cardinality(S \cup {y}) \in Nat
  BY <1>1, <1>2, FS_CardinalityType
<1>. QED
  BY <1>0, <1>1, <1>2, <1>3

LEMMA TakenChance ==
  ASSUME NEW S, NEW T, NEW x \in S, IsFiniteSet(S), T \subseteq S \ {x}
  PROVE  IsFiniteSet(T) /\ Cardinality(T) + 1 <= Cardinality(S)
<1>1. IsFiniteSet(S \ {x}) /\ Cardinality(S \ {x}) = Cardinality(S) - 1
  BY FS_RemoveElement
<1>2. IsFiniteSet(T) /\ Cardinality(T) <= Cardinality(S \ {x})
  BY <1>1, FS_Subset
<1>3. Cardinality(S) \in Nat /\ Cardinality(T) \in Nat /\ Cardinality(S \ {x}) \in Nat
  BY <1>1, <1>2, FS_CardinalityType
<1>. QED
  BY <1>1, <1>2, <1>3

LEMMA CopiesAreCounted ==
  ASSUME NotificationsTypeOK, NEW k
  PROVE  IsFiniteSet(MailsOf(k)) /\ Copies(k) = Cardinality(MailsOf(k)) /\ Copies(k) \in Nat
<1>1. mails \in Seq(Mailable) /\ Len(mails) \in Nat /\ DOMAIN mails = 1 .. Len(mails)
  BY DEF NotificationsTypeOK
<1>2. IsFiniteSet(1 .. Len(mails))
  BY <1>1, FS_Interval
<1>3. MailsOf(k) \subseteq 1 .. Len(mails)
  BY <1>1 DEF MailsOf
<1>4. IsFiniteSet(MailsOf(k))
  BY <1>2, <1>3, FS_Subset
<1>. QED
  BY <1>4, FS_CardinalityType DEF Copies, MailsOf

(* One more mail is one more copy of its message, and of no other.         *)
LEMMA MailAddsCopy ==
  ASSUME NotificationsTypeOK, NEW e, mails' = Append(mails, e), NEW k
  PROVE  Copies(k)' = IF k = e THEN Copies(k) + 1 ELSE Copies(k)
<1>. DEFINE n == Len(mails)
<1>1. /\ n \in Nat /\ DOMAIN mails = 1 .. n /\ DOMAIN mails' = 1 .. n + 1
      /\ \A i \in 1 .. n : mails'[i] = mails[i]
      /\ mails'[n + 1] = e
  BY DEF NotificationsTypeOK
<1>2. MailsOf(k)' = IF k = e THEN MailsOf(k) \cup {n + 1} ELSE MailsOf(k)
  <2>1. \A i : i \in 1 .. n + 1 <=> i \in 1 .. n \/ i = n + 1
    BY <1>1
  <2>. QED
    BY <1>1, <2>1 DEF MailsOf
<1>3. n + 1 \notin MailsOf(k)
  BY <1>1 DEF MailsOf
<1>4. IsFiniteSet(MailsOf(k))
  BY CopiesAreCounted
<1>5. Cardinality(MailsOf(k) \cup {n + 1}) = Cardinality(MailsOf(k)) + 1
  BY <1>3, <1>4, FS_AddElement
<1>6. Copies(k) = Cardinality(MailsOf(k)) /\ Copies(k)' = Cardinality(MailsOf(k)')
  BY DEF Copies, MailsOf
<1>. HIDE DEF n
<1>. QED
  BY <1>2, <1>5, <1>6

LEMMA SameCopies ==
  ASSUME UNCHANGED mails, NEW k
  PROVE  Copies(k)' = Copies(k)
BY DEF Copies

-----------------------------------------------------------------------------
(* What a step of the loop does to the chances of a message.               *)
ChancesStep(k) ==
  \/ Chances(k)' \subseteq Chances(k)
  \/ faults' = faults + 1 /\ Chances(k)' \subseteq Chances(k) \cup {"orphaned"}
  \/ \E x \in Chances(k) : \E y : Chances(k)' \subseteq (Chances(k) \ {x}) \cup {y}

(* A replica that goes on with the messages it has gets no more to mail.   *)
LEMMA SameBufferSameMail ==
  ASSUME NEW c, buffer'[c] = buffer[c], Done(c)' <=> Done(c)
  PROVE  ToMail(c)' = ToMail(c)
BY DEF ToMail, Unhandled, Done

LEMMA TailSameMail ==
  ASSUME ConsumerInv, NEW c \in Replica, Done(c), buffer'[c] = Tail(buffer[c]),
         hand'[c] = "idle"
  PROVE  ToMail(c)' = ToMail(c)
<1>1. buffer[c] # <<>> /\ buffer[c] \in Seq(Position)
  BY DEF Done, ConsumerInv, HandIsBuffered, ConsumerTypeOK
<1>. DEFINE b == buffer[c]
<1>2. /\ Len(b) \in Nat \ {0} /\ Len(Tail(b)) = Len(b) - 1
      /\ \A i \in 1 .. Len(Tail(b)) : Tail(b)[i] = b[i + 1]
  BY <1>1, HeadAndTail
<1>3. Unhandled(c)' = 1 .. Len(b) - 1 /\ Unhandled(c) = 2 .. Len(b)
  BY <1>2 DEF Unhandled, Done
<1>4. \A i \in 1 .. Len(b) - 1 : i + 1 \in 2 .. Len(b) /\ buffer'[c][i] = b[i + 1]
  BY <1>2
<1>5. \A j \in 2 .. Len(b) : j - 1 \in 1 .. Len(b) - 1 /\ buffer'[c][j - 1] = b[j]
  <2>1. \A j \in 2 .. Len(b) : j - 1 \in 1 .. Len(b) - 1 /\ j - 1 + 1 = j
    BY <1>2
  <2>. QED
    BY <1>4, <2>1
<1>. HIDE DEF b
<1>6. ToMail(c)' = {buffer'[c][i] : i \in 1 .. Len(b) - 1}
  BY <1>3 DEF ToMail
<1>7. ToMail(c) = {b[i] : i \in 2 .. Len(b)}
  BY <1>3 DEF ToMail, b
<1>8. ToMail(c)' \subseteq ToMail(c)
  BY <1>4, <1>6, <1>7
<1>9. ToMail(c) \subseteq ToMail(c)'
  BY <1>5, <1>6, <1>7
<1>. QED
  BY <1>8, <1>9

LEMMA EmptyNothingToMail ==
  ASSUME NEW c, buffer'[c] = <<>>
  PROVE  ToMail(c)' = {}
<1>1. Len(buffer'[c]) = 0
  BY EmptySeq
<1>. QED
  BY <1>1 DEF ToMail, Unhandled, Done

LEMMA DeliveredIsToMail ==
  ASSUME ConsumerInv, NEW c \in Replica, NEW k \in Position,
         buffer'[c] = Append(buffer[c], k), hand' = hand
  PROVE  ToMail(c)' \subseteq ToMail(c) \cup {k}
<1>. DEFINE n == Len(buffer[c])
<1>1. /\ n \in Nat /\ Len(buffer'[c]) = n + 1 /\ buffer'[c][n + 1] = k
      /\ \A i \in 1 .. n : buffer'[c][i] = buffer[c][i]
  BY DEF ConsumerInv, ConsumerTypeOK
<1>2. Done(c)' <=> Done(c)
  BY DEF Done
<1>3. \A i \in Unhandled(c)' : i \in Unhandled(c) \/ i = n + 1
  BY <1>1, <1>2 DEF Unhandled
<1>4. Unhandled(c) \subseteq 1 .. n
  BY <1>1 DEF Unhandled
<1>. HIDE DEF n
<1>. QED
  BY <1>1, <1>3, <1>4 DEF ToMail
LEMMA FewerChances ==
  ASSUME NEW k, \A c \in Replica : ToMail(c)' \subseteq ToMail(c),
         place'[k] = place[k] \/ place'[k] \notin {"ready", "orphaned"}
  PROVE  Chances(k)' \subseteq Chances(k)
BY DEF Chances

LEMMA OrphanedChances ==
  ASSUME NEW k, \A c \in Replica : ToMail(c)' \subseteq ToMail(c),
         place'[k] \in {place[k], "orphaned"}
  PROVE  Chances(k)' \subseteq Chances(k) \cup {"orphaned"}
BY DEF Chances

LEMMA PublishKeepsChances ==
  ASSUME ConsumerInv, NEW m \in Message, Publish(m)
  PROVE  /\ \A k \in Position : ChancesStep(k)
         /\ \A k \in Position' \ Position : Chances(k)' \subseteq {"ready"}
<1>. USE DEF ConsumerInv, ConsumerTypeOK
<1>1. \A c \in Replica : ToMail(c)' = ToMail(c)
  BY SameBufferSameMail DEF Publish, Done
<1>2. CASE UNCHANGED <<queue, place>>
  BY <1>1, <1>2, FewerChances DEF ChancesStep, Position
<1>3. CASE queue' = Append(queue, m) /\ place' = Append(place, "ready")
  <2>. DEFINE n == Len(queue)
              S == Resting \cup Replica
  <2>1. n \in Nat /\ Len(queue') = n + 1 /\ Position = 1 .. n /\ Position' = 1 .. n + 1
    BY <1>3 DEF Position
  <2>2. place \in [1 .. n -> S] /\ "ready" \in S
    BY DEF Position, Resting
  <2>3. \A k \in 1 .. n : place'[k] = place[k]
    <3>. HIDE DEF n, S
    <3>. QED
      BY <1>3, <2>1, <2>2, AppendToFunction
  <2>4. place'[n + 1] = "ready"
    <3>. HIDE DEF n, S
    <3>. QED
      BY <1>3, <2>1, <2>2, AppendToFunction
  <2>5. \A c \in Replica : ToMail(c) \subseteq Position
    <3>1. \A c \in Replica : Unhandled(c) \subseteq 1 .. Len(buffer[c])
      BY DEF Unhandled
    <3>. QED
      BY <3>1 DEF ToMail
  <2>6. \A k \in Position' \ Position : k = n + 1
    BY <2>1
  <2>7. \A k \in Position' \ Position : Chances(k)' \subseteq {"ready"}
    <3>. HIDE DEF n
    <3>. QED
      BY <1>1, <2>4, <2>5, <2>6 DEF Chances
  <2>8. \A k \in Position : Chances(k)' \subseteq Chances(k)
    <3>1. \A k \in Position : place'[k] = place[k]
      BY <2>1, <2>3
    <3>. QED
      BY <1>1, <3>1, FewerChances
  <2>. QED
    BY <2>7, <2>8 DEF ChancesStep
<1>. QED
  BY <1>2, <1>3 DEF Publish

LEMMA RequeueKeepsChances ==
  ASSUME ConsumerInv, NEW j \in Position, Requeue(j)
  PROVE  \A k \in Position : ChancesStep(k)
<1>1. /\ place[j] = "orphaned" /\ place' = [place EXCEPT ![j] = "ready"]
      /\ UNCHANGED <<queue, buffer, hand>>
  BY DEF Requeue
<1>2. \A c \in Replica : ToMail(c)' = ToMail(c)
  BY <1>1, SameBufferSameMail DEF Done
<1>3. place'[j] = "ready" /\ \A k \in Position : k # j => place'[k] = place[k]
  BY <1>1 DEF ConsumerInv, ConsumerTypeOK
<1>4. "orphaned" \in Chances(j) /\ "orphaned" \notin Replica
  BY <1>1, ConsumerAssumption DEF Chances, Resting
<1>5. Chances(j)' \subseteq (Chances(j) \ {"orphaned"}) \cup {"ready"}
  BY <1>2, <1>3, <1>4 DEF Chances
<1>6. ChancesStep(j)
  BY <1>4, <1>5 DEF ChancesStep
<1>7. \A k \in Position : k # j => ChancesStep(k)
  BY <1>2, <1>3, FewerChances DEF ChancesStep
<1>. QED
  BY <1>6, <1>7

LEMMA DeliverKeepsChances ==
  ASSUME ConsumerInv, NEW c \in Replica, Deliver(c)
  PROVE  \A k \in Position : ChancesStep(k)
<1>1. PICK j \in Position :
        /\ place[j] = "ready"
        /\ place' = [place EXCEPT ![j] = c]
        /\ buffer' = [buffer EXCEPT ![c] = Append(@, j)]
        /\ UNCHANGED <<queue, hand>>
  BY DEF Deliver
<1>. USE DEF ConsumerInv, ConsumerTypeOK
<1>2. \A d \in Replica \ {c} : ToMail(d)' = ToMail(d)
  BY <1>1, SameBufferSameMail DEF Done
<1>3. ToMail(c)' \subseteq ToMail(c) \cup {j}
  BY <1>1, DeliveredIsToMail
<1>4. place'[j] = c /\ \A k \in Position : k # j => place'[k] = place[k]
  BY <1>1
<1>5. "ready" \in Chances(j) /\ "ready" \notin Replica /\ "orphaned" \notin Replica
  BY <1>1, ConsumerAssumption DEF Chances, Resting
<1>6. Chances(j)' \subseteq (Chances(j) \ {"ready"}) \cup {c}
  BY <1>2, <1>3, <1>4, <1>5 DEF Chances
<1>7. ChancesStep(j)
  BY <1>5, <1>6 DEF ChancesStep
<1>8. ASSUME NEW k \in Position, k # j PROVE Chances(k)' \subseteq Chances(k)
  BY <1>2, <1>3, <1>4, <1>8 DEF Chances
<1>9. \A k \in Position : k # j => ChancesStep(k)
  BY <1>8 DEF ChancesStep
<1>. QED
  BY <1>7, <1>9

LEMMA SettleKeepsChances ==
  ASSUME ConsumerInv, NEW c \in Replica, Ack(c) \/ Nack(c) \/ SettleUnheard(c)
  PROVE  \A k \in Position : ChancesStep(k)
<1>. USE DEF ConsumerInv, ConsumerTypeOK
<1>1. /\ Done(c) /\ buffer' = [buffer EXCEPT ![c] = Tail(@)]
      /\ hand' = [hand EXCEPT ![c] = "idle"]
      /\ \/ UNCHANGED place
         \/ \E as \in {"acked", "dropped"} : place' = [place EXCEPT ![Head(buffer[c])] = as]
  BY DEF Ack, Nack, SettleUnheard, Settle, Done
<1>2. \A d \in Replica \ {c} : ToMail(d)' = ToMail(d)
  BY <1>1, SameBufferSameMail DEF Done
<1>3. ToMail(c)' = ToMail(c)
  BY <1>1, TailSameMail
<1>4. \A k \in Position : place'[k] = place[k] \/ place'[k] \notin {"ready", "orphaned"}
  BY <1>1
<1>. QED
  BY <1>2, <1>3, <1>4, FewerChances DEF ChancesStep

LEMMA OthersKeepChances ==
  ASSUME ConsumerInv, NEW c \in Replica,
         Connect(c) \/ Take(c) \/ LinkClosed(c) \/ Fault(c) \/ Restart(c)
  PROVE  \A k \in Position : ChancesStep(k)
<1>. USE DEF ConsumerInv, ConsumerTypeOK
<1>1. \A d \in Replica : ToMail(d)' \subseteq ToMail(d)
  <2>1. \A d \in Replica : \/ buffer'[d] = buffer[d] /\ (Done(d)' <=> Done(d))
                           \/ buffer'[d] = <<>>
    BY DEF Connect, Take, LinkClosed, Fault, LinkLost, Crash, ThreadDies, Restart, Done
  <2>. QED
    BY <2>1, SameBufferSameMail, EmptyNothingToMail
<1>2. \/ UNCHANGED place
      \/ faults' = faults + 1 /\ Orphan(c)
  BY DEF Connect, Take, LinkClosed, Fault, LinkLost, Crash, ThreadDies, Restart
<1>3. CASE UNCHANGED place
  BY <1>1, <1>3, FewerChances DEF ChancesStep
<1>4. CASE faults' = faults + 1 /\ Orphan(c)
  <2>1. \A k \in Position : place'[k] \in {place[k], "orphaned"}
    BY <1>4 DEF Orphan
  <2>. QED
    BY <1>1, <1>4, <2>1, OrphanedChances DEF ChancesStep
<1>. QED
  BY <1>2, <1>3, <1>4

LEMMA TransportKeepsChances ==
  ASSUME ConsumerInv, TransportStep
  PROVE  /\ \A k \in Position : ChancesStep(k)
         /\ \A k \in Position' \ Position : Chances(k)' \subseteq {"ready"}
<1>1. ASSUME NEW m \in Message, Publish(m)
      PROVE  /\ \A k \in Position : ChancesStep(k)
             /\ \A k \in Position' \ Position : Chances(k)' \subseteq {"ready"}
  BY <1>1, PublishKeepsChances
<1>2. ASSUME NEW j \in Position, Requeue(j)
      PROVE  Position' = Position /\ \A k \in Position : ChancesStep(k)
  BY <1>2, RequeueKeepsChances DEF Requeue, Position
<1>3. ASSUME NEW c \in Replica, ThreadStep(c) \/ Fault(c) \/ Restart(c)
      PROVE  Position' = Position /\ \A k \in Position : ChancesStep(k)
  <2>1. queue' = queue
    BY <1>3 DEF ThreadStep, Fault, Deliver, Connect, Take, Ack, Nack, Settle, SettleUnheard,
       LinkClosed, LinkLost, Crash, ThreadDies, Restart
  <2>2. \A k \in Position : ChancesStep(k)
    BY <1>3, DeliverKeepsChances, SettleKeepsChances, OthersKeepChances DEF ThreadStep
  <2>. QED
    BY <2>1, <2>2 DEF Position
<1>. QED
  BY <1>1, <1>2, <1>3 DEF TransportStep

-----------------------------------------------------------------------------
(* No step of the loop puts a message into a buffer twice. *)
LEMMA TailNothingTwice ==
  ASSUME NEW S, NEW s \in Seq(S), s # <<>>,
         \A i, j \in 1 .. Len(s) : s[i] = s[j] => i = j
  PROVE  \A i, j \in 1 .. Len(Tail(s)) : Tail(s)[i] = Tail(s)[j] => i = j
<1>1. /\ Len(s) \in Nat \ {0} /\ Len(Tail(s)) = Len(s) - 1
      /\ \A i \in 1 .. Len(Tail(s)) : Tail(s)[i] = s[i + 1]
  BY HeadAndTail
<1>. SUFFICES ASSUME NEW i \in 1 .. Len(Tail(s)), NEW j \in 1 .. Len(Tail(s)),
                     s[i + 1] = s[j + 1]
              PROVE  i = j
  BY <1>1
<1>2. i + 1 \in 1 .. Len(s) /\ j + 1 \in 1 .. Len(s)
  BY <1>1
<1>3. i + 1 = j + 1
  BY <1>2
<1>. QED
  BY <1>1, <1>3

LEMMA TransportNothingTwice ==
  ASSUME ConsumerInv, NothingTwice, TransportStep
  PROVE  NothingTwice'
<1>. USE DEF ConsumerInv, ConsumerTypeOK
<1>0. BufferedIsUnacked'
  BY TransportKeepsInv
<1>1. \A d \in Replica : \/ link'[d] = "open"
                         \/ buffer'[d] = buffer[d]
                         \/ buffer'[d] = <<>>
                         \/ buffer[d] # <<>> /\ buffer'[d] = Tail(buffer[d])
  <2>1. ASSUME NEW m \in Message, Publish(m) PROVE UNCHANGED buffer
    BY <2>1 DEF Publish
  <2>2. ASSUME NEW k \in Position, Requeue(k) PROVE UNCHANGED buffer
    BY <2>2 DEF Requeue
  <2>3. ASSUME NEW c \in Replica, Deliver(c)
        PROVE  link'[c] = "open" /\ \A d \in Replica \ {c} : buffer'[d] = buffer[d]
    BY <2>3 DEF Deliver
  <2>4. ASSUME NEW c \in Replica, Connect(c) \/ Take(c) \/ LinkClosed(c) \/ Fault(c) \/ Restart(c)
        PROVE  \A d \in Replica : buffer'[d] \in {buffer[d], <<>>}
    BY <2>4 DEF Connect, Take, LinkClosed, Fault, LinkLost, Crash, ThreadDies, Restart
  <2>5. ASSUME NEW c \in Replica, Ack(c) \/ Nack(c) \/ SettleUnheard(c)
        PROVE  \A d \in Replica : \/ buffer'[d] = buffer[d]
                                  \/ buffer[d] # <<>> /\ buffer'[d] = Tail(buffer[d])
    <3>1. buffer[c] # <<>> /\ buffer' = [buffer EXCEPT ![c] = Tail(@)]
      BY <2>5 DEF Ack, Nack, SettleUnheard, Settle, HandIsBuffered
    <3>. QED
      BY <3>1
  <2>. QED
    BY <2>1, <2>2, <2>3, <2>4, <2>5 DEF TransportStep, ThreadStep
<1>2. \A d \in Replica : buffer[d] \in Seq(Position)
  OBVIOUS
<1>3. Len(<<>>) = 0
  BY EmptySeq
<1>. SUFFICES ASSUME NEW d \in Replica
              PROVE  \A i, j \in 1 .. Len(buffer'[d]) : buffer'[d][i] = buffer'[d][j] => i = j
  BY DEF NothingTwice
<1>4. CASE link'[d] = "open"
  BY <1>0, <1>4 DEF BufferedIsUnacked
<1>5. CASE buffer'[d] = buffer[d]
  BY <1>5 DEF NothingTwice
<1>6. CASE buffer'[d] = <<>>
  BY <1>3, <1>6
<1>7. CASE buffer[d] # <<>> /\ buffer'[d] = Tail(buffer[d])
  BY <1>2, <1>7, TailNothingTwice DEF NothingTwice
<1>. QED
  BY <1>1, <1>4, <1>5, <1>6, <1>7
-----------------------------------------------------------------------------
(* The steps of the loop keep the invariant. *)
LEMMA FaultsOnlyGrow ==
  ASSUME ConsumerInv, TransportStep
  PROVE  faults' \in Nat /\ faults' >= faults
<1>. USE ConsumerAssumption DEF ConsumerInv, ConsumerTypeOK
<1>1. ASSUME NEW m \in Message, Publish(m) PROVE faults' = faults
  BY <1>1 DEF Publish
<1>2. ASSUME NEW k \in Position, Requeue(k) PROVE faults' = faults
  BY <1>2 DEF Requeue
<1>3. ASSUME NEW c \in Replica, ThreadStep(c) \/ Restart(c) PROVE faults' = faults
  BY <1>3 DEF ThreadStep, Restart, Deliver, Connect, Take, Ack, Nack, Settle, SettleUnheard,
     LinkClosed
<1>4. ASSUME NEW c \in Replica, Fault(c) PROVE faults' = faults + 1
  BY <1>4 DEF Fault, LinkLost, Crash, ThreadDies
<1>. QED
  BY <1>1, <1>2, <1>3, <1>4 DEF TransportStep

LEMMA ChancesStepIsPaid ==
  ASSUME NEW k, ChancesStep(k), IsFiniteSet(Chances(k)), faults \in Nat, faults' \in Nat,
         faults' >= faults
  PROVE  /\ IsFiniteSet(Chances(k)')
         /\ Cardinality(Chances(k)') - faults' <= Cardinality(Chances(k)) - faults
<1>0. Cardinality(Chances(k)) \in Nat
  BY FS_CardinalityType
<1>1. PICK S, T : S = Chances(k) /\ T = Chances(k)'
  OBVIOUS
<1>2. CASE T \subseteq S
  <2>1. IsFiniteSet(T) /\ Cardinality(T) <= Cardinality(S)
    BY <1>1, <1>2, FS_Subset
  <2>2. Cardinality(T) \in Nat
    BY <2>1, FS_CardinalityType
  <2>. QED
    BY <1>0, <1>1, <2>1, <2>2
<1>3. CASE faults' = faults + 1 /\ T \subseteq S \cup {"orphaned"}
  <2>1. IsFiniteSet(T) /\ Cardinality(T) <= Cardinality(S) + 1
    BY <1>1, <1>3, AddedChance
  <2>2. Cardinality(T) \in Nat
    BY <2>1, FS_CardinalityType
  <2>. QED
    BY <1>0, <1>1, <1>3, <2>1, <2>2
<1>4. ASSUME NEW x \in S, NEW y, T \subseteq (S \ {x}) \cup {y}
      PROVE  /\ IsFiniteSet(T)
             /\ Cardinality(T) - faults' <= Cardinality(S) - faults
  <2>1. IsFiniteSet(T) /\ Cardinality(T) <= Cardinality(S)
    BY <1>1, <1>4, SwappedChance
  <2>2. Cardinality(T) \in Nat
    BY <2>1, FS_CardinalityType
  <2>. QED
    BY <1>0, <1>1, <2>1, <2>2
<1>. QED
  BY <1>1, <1>2, <1>3, <1>4 DEF ChancesStep

(* Nothing has been mailed yet of a message that was just published.       *)
LEMMA NewIsUnmailed ==
  ASSUME NotificationsTypeOK, NEW k, k \notin Position
  PROVE  Copies(k) = 0
<1>1. mails \in Seq(Mailable) /\ Mailable \subseteq Position
  BY DEF NotificationsTypeOK, Mailable
<1>2. MailsOf(k) = {}
  BY <1>1 DEF MailsOf
<1>. QED
  BY <1>2, CopiesAreCounted, FS_EmptySet

LEMMA TransportKeepsPaid ==
  ASSUME NotificationsInv, TransportStep, UNCHANGED <<mails, failed>>
  PROVE  ChancesCostFaults'
<1>. USE DEF NotificationsInv
<1>0. /\ faults \in Nat /\ faults' \in Nat /\ faults' >= faults
  BY FaultsOnlyGrow, ConsumerAssumption DEF ConsumerInv, ConsumerTypeOK
<1>1. ASSUME NEW k \in Position
      PROVE  /\ IsFiniteSet(Chances(k)')
             /\ Copies(k)' + Cardinality(Chances(k)') <= 1 + faults'
  <2>1. /\ IsFiniteSet(Chances(k)')
        /\ Cardinality(Chances(k)') - faults' <= Cardinality(Chances(k)) - faults
    BY <1>0, TransportKeepsChances, ChancesStepIsPaid DEF ChancesCostFaults
  <2>2. Cardinality(Chances(k)) \in Nat /\ Cardinality(Chances(k)') \in Nat
    BY <2>1, FS_CardinalityType DEF ChancesCostFaults
  <2>3. Copies(k)' = Copies(k) /\ Copies(k) \in Nat
    BY SameCopies, CopiesAreCounted
  <2>4. Copies(k) + Cardinality(Chances(k)) <= 1 + faults
    BY DEF ChancesCostFaults
  <2>. QED
    BY <1>0, <2>1, <2>2, <2>3, <2>4
<1>2. ASSUME NEW k \in Position' \ Position
      PROVE  /\ IsFiniteSet(Chances(k)')
             /\ Copies(k)' + Cardinality(Chances(k)') <= 1 + faults'
  <2>1. Chances(k)' \subseteq {"ready"}
    BY <1>2, TransportKeepsChances
  <2>2. IsFiniteSet({"ready"}) /\ Cardinality({"ready"}) = 1
    BY FS_Singleton
  <2>3. IsFiniteSet(Chances(k)') /\ Cardinality(Chances(k)') <= 1
    BY <2>1, <2>2, FS_Subset
  <2>4. Cardinality(Chances(k)') \in Nat
    BY <2>3, FS_CardinalityType
  <2>5. Copies(k)' = 0
    BY <1>2, NewIsUnmailed, SameCopies
  <2>. QED
    BY <1>0, <2>3, <2>4, <2>5
<1>. QED
  BY <1>1, <1>2 DEF ChancesCostFaults
LEMMA TransportKeepsTried ==
  ASSUME NotificationsInv, TransportStep, UNCHANGED <<mails, failed>>
  PROVE  HandlerHasTried' /\ SettledWasTried'
<1>. USE DEF NotificationsInv
<1>1. QueueKept /\ SettledByItsHandler /\ HandKept
  BY TransportKeepsMessages
<1>2. \A k : Tried(k)' <=> Tried(k)
  BY SameCopies DEF Tried
<1>3. HandlerHasTried'
  <2>1. ASSUME NEW c \in Replica, hand'[c] = "returned", InHand(c)' = "created"
        PROVE  \E k \in Position' : k = Head(buffer'[c]) /\ Tried(k)'
    <3>1. /\ hand'[c] = hand[c] /\ Head(buffer'[c]) = Head(buffer[c])
          /\ InHand(c)' = InHand(c)
      BY <1>1, <2>1 DEF HandKept
    <3>2. PICK k \in Position : k = Head(buffer[c]) /\ Tried(k)
      BY <2>1, <3>1 DEF HandlerHasTried
    <3>. QED
      BY <1>1, <1>2, <3>1, <3>2 DEF QueueKept
  <2>2. ASSUME NEW c \in Replica, hand'[c] = "raised"
        PROVE  InHand(c)' = "unsendable"
    BY <1>1, <2>2 DEF HandKept, HandlerHasTried
  <2>. QED
    BY <2>1, <2>2 DEF HandlerHasTried
<1>4. ASSUME NEW k \in Mailable', Settled(k)'
      PROVE  place'[k] = "acked" /\ Tried(k)'
  <2>1. k \in Position' /\ queue'[k] = "created"
    BY <1>4 DEF Mailable
  <2>2. CASE Settled(k)
    <3>1. k \in Mailable /\ place'[k] = place[k]
      BY <1>1, <2>1, <2>2 DEF Settled, QueueKept, Mailable
    <3>. QED
      BY <1>2, <2>2, <3>1 DEF SettledWasTried, Tried
  <2>3. ASSUME NEW c \in Replica, k \in Position, k = Head(buffer[c]),
               \/ hand[c] = "returned" /\ place'[k] = "acked"
               \/ hand[c] = "raised" /\ place'[k] = "dropped"
        PROVE  place'[k] = "acked" /\ Tried(k)'
    <3>1. InHand(c) = "created"
      BY <1>1, <2>1, <2>3 DEF InHand, QueueKept
    <3>2. hand[c] = "returned" /\ place'[k] = "acked" /\ Tried(k)
      BY <2>3, <3>1 DEF HandlerHasTried
    <3>. QED
      BY <1>2, <3>2
  <2>. QED
    BY <1>1, <1>4, <2>1, <2>2, <2>3 DEF SettledByItsHandler
<1>. QED
  BY <1>3, <1>4 DEF SettledWasTried, Tried

LEMMA TransportKeepsMailable ==
  ASSUME NotificationsInv, TransportStep, UNCHANGED <<mails, failed>>
  PROVE  NotificationsTypeOK'
<1>1. ConsumerTypeOK'
  BY TransportKeepsInv DEF NotificationsInv, ConsumerInv
<1>2. Mailable \subseteq Mailable'
  BY TransportKeepsMessages DEF NotificationsInv, QueueKept, Mailable
<1>3. mails \in Seq(Mailable')
  BY <1>2, SeqMonotonic DEF NotificationsInv, NotificationsTypeOK
<1>. QED
  BY <1>1, <1>2, <1>3 DEF NotificationsInv, NotificationsTypeOK

-----------------------------------------------------------------------------
(* The handler. *)

(* What it does, whatever the message. *)
Attempts(c) ==
  LET k == Head(buffer[c])
  IN  \/ /\ hand'[c] = "returned" /\ InHand(c) = "created"
         /\ \/ mails' = Append(mails, k) /\ failed' \in {failed, failed \cup {k}}
            \/ mails' = mails /\ failed' = failed \cup {k}
      \/ /\ hand'[c] = "returned" /\ InHand(c) # "created" /\ UNCHANGED <<mails, failed>>
      \/ /\ hand'[c] = "raised" /\ InHand(c) = "unsendable" /\ UNCHANGED <<mails, failed>>

LEMMA EveryHandlerStep ==
  ASSUME ConsumerInv, NEW c \in Replica, Handler(c)
  PROVE  /\ Attempts(c)
         /\ hand[c] = "handling" /\ \A d \in Replica \ {c} : hand'[d] = hand[d]
         /\ UNCHANGED <<queue, place, buffer, faults>>
         /\ ConsumerInv'
<1>1. PICK how \in {"returned", "raised"} : HandlerEnds(c, how)
  BY DEF Handler, Mail, MailFails, Ignore, Reject
<1>2. ConsumerInv'
  BY <1>1, HandlerKeepsInv
<1>3. /\ hand[c] = "handling" /\ hand' = [hand EXCEPT ![c] = how]
      /\ UNCHANGED <<queue, place, buffer, faults>>
  BY <1>1 DEF HandlerEnds
<1>4. Attempts(c)
  <2>. USE DEF ConsumerInv, ConsumerTypeOK, HandlerEnds, Attempts
  <2>1. CASE Mail(c)
    BY <2>1 DEF Mail
  <2>2. CASE MailFails(c)
    BY <2>2 DEF MailFails
  <2>3. CASE Ignore(c)
    BY <2>3 DEF Ignore
  <2>4. CASE Reject(c)
    BY <2>4 DEF Reject
  <2>. QED
    BY <2>1, <2>2, <2>3, <2>4 DEF Handler
<1>. QED
  BY <1>2, <1>3, <1>4 DEF ConsumerInv, ConsumerTypeOK

(* The message in hand has lost the chance it had with this replica.       *)
LEMMA HandlerTakesChance ==
  ASSUME NotificationsInv, NEW c \in Replica, hand[c] = "handling",
         hand'[c] \in {"returned", "raised"}, \A d \in Replica \ {c} : hand'[d] = hand[d],
         UNCHANGED <<place, buffer>>
  PROVE  /\ \E h : /\ h = Head(buffer[c]) /\ c \in Chances(h)
                   /\ Chances(h)' \subseteq Chances(h) \ {c}
         /\ \A k : Chances(k)' \subseteq Chances(k)
<1>. USE DEF NotificationsInv, ConsumerInv
<1>. DEFINE b == buffer[c]
<1>0. PICK h : h = Head(buffer[c])
  OBVIOUS
<1>1. b # <<>> /\ b \in Seq(Position)
  BY HeadInPosition
<1>2. Len(b) \in Nat \ {0} /\ h = b[1]
  BY <1>0, <1>1, HeadAndTail
<1>3. Unhandled(c) = 1 .. Len(b) /\ Unhandled(c)' = 2 .. Len(b)
  BY DEF Unhandled, Done
<1>4. 1 \in 1 .. Len(b) /\ 2 .. Len(b) \subseteq 1 .. Len(b) /\ 1 \notin 2 .. Len(b)
  BY <1>2
<1>5. \A i \in 2 .. Len(b) : b[i] # b[1]
  BY <1>4 DEF NothingTwice
<1>. HIDE DEF b
<1>6. ToMail(c) = {b[i] : i \in 1 .. Len(b)} /\ ToMail(c)' = {b[i] : i \in 2 .. Len(b)}
  BY <1>3 DEF ToMail, b
<1>7. h \in ToMail(c) /\ h \notin ToMail(c)' /\ ToMail(c)' \subseteq ToMail(c)
  BY <1>2, <1>4, <1>5, <1>6
<1>8. \A d \in Replica \ {c} : ToMail(d)' = ToMail(d)
  BY SameBufferSameMail DEF Done
<1>9. c \notin {"ready", "orphaned"}
  BY ConsumerAssumption DEF Resting
<1>10. c \in Chances(h) /\ Chances(h)' \subseteq Chances(h) \ {c}
  BY <1>7, <1>8, <1>9 DEF Chances
<1>11. \A k : Chances(k)' \subseteq Chances(k)
  BY <1>7, <1>8 DEF Chances
<1>. QED
  BY <1>0, <1>10, <1>11

LEMMA HandlerKeepsPaid ==
  ASSUME NotificationsInv, NEW c \in Replica, Handler(c)
  PROVE  ChancesCostFaults'
<1>. USE DEF NotificationsInv
<1>0. faults \in Nat /\ faults' = faults /\ Position' = Position
  BY EveryHandlerStep, ConsumerAssumption DEF ConsumerInv, ConsumerTypeOK, Position
<1>1. hand'[c] \in {"returned", "raised"}
  BY EveryHandlerStep DEF Attempts
<1>2. PICK h : /\ h = Head(buffer[c]) /\ c \in Chances(h)
                /\ Chances(h)' \subseteq Chances(h) \ {c}
  BY <1>1, EveryHandlerStep, HandlerTakesChance
<1>3. \A k : Chances(k)' \subseteq Chances(k)
  BY <1>1, EveryHandlerStep, HandlerTakesChance
<1>4. \/ \A k : Copies(k)' = IF k = h THEN Copies(k) + 1 ELSE Copies(k)
      \/ \A k : Copies(k)' = Copies(k)
  <2>1. mails' = Append(mails, h) \/ UNCHANGED mails
    BY <1>2, EveryHandlerStep DEF Attempts
  <2>. QED
    BY <2>1, MailAddsCopy, SameCopies
<1>. SUFFICES ASSUME NEW k \in Position
              PROVE  /\ IsFiniteSet(Chances(k)')
                     /\ Copies(k)' + Cardinality(Chances(k)') <= 1 + faults'
  BY <1>0 DEF ChancesCostFaults
<1>5. /\ IsFiniteSet(Chances(k)) /\ Copies(k) + Cardinality(Chances(k)) <= 1 + faults
  BY DEF ChancesCostFaults
<1>6. Cardinality(Chances(k)) \in Nat /\ Copies(k) \in Nat
  BY <1>5, FS_CardinalityType, CopiesAreCounted
<1>7. IsFiniteSet(Chances(k)') /\ Cardinality(Chances(k)') <= Cardinality(Chances(k))
  BY <1>3, <1>5, FS_Subset
<1>8. Cardinality(Chances(k)') \in Nat
  BY <1>7, FS_CardinalityType
<1>9. CASE k = h
  <2>1. Cardinality(Chances(k)') + 1 <= Cardinality(Chances(k))
    <3>1. c \in Chances(k) /\ Chances(k)' \subseteq Chances(k) \ {c}
      BY <1>9, <1>2
    <3>. QED
      BY <1>5, <3>1, TakenChance
  <2>2. Copies(k)' = Copies(k) + 1 \/ Copies(k)' = Copies(k)
    BY <1>4, <1>9
  <2>. QED
    BY <1>0, <1>5, <1>6, <1>7, <1>8, <2>1, <2>2
<1>10. CASE k # h
  <2>1. Copies(k)' = Copies(k)
    BY <1>4, <1>10
  <2>. QED
    BY <1>0, <1>5, <1>6, <1>7, <1>8, <2>1
<1>. QED
  BY <1>9, <1>10
LEMMA HandlerKeepsTried ==
  ASSUME NotificationsInv, NEW c \in Replica, Handler(c)
  PROVE  NotificationsTypeOK' /\ NothingTwice' /\ HandlerHasTried' /\ SettledWasTried'
<1>. USE DEF NotificationsInv
<1>1. /\ Attempts(c) /\ hand[c] = "handling" /\ \A d \in Replica \ {c} : hand'[d] = hand[d]
      /\ UNCHANGED <<queue, place, buffer, faults>> /\ ConsumerInv'
  BY EveryHandlerStep
<1>2. Position' = Position /\ Mailable' = Mailable /\ \A d \in Replica : InHand(d)' = InHand(d)
  BY <1>1 DEF Position, Mailable, InHand
<1>3. PICK h \in Position : h = Head(buffer[c])
  BY <1>1, HeadInPosition
<1>4. InHand(c) = "created" => h \in Mailable
  BY <1>3 DEF InHand, Mailable
<1>5. /\ mails' = mails \/ (InHand(c) = "created" /\ mails' = Append(mails, h))
      /\ failed \subseteq failed'
      /\ failed' = failed \/ (InHand(c) = "created" /\ failed' = failed \cup {h})
  BY <1>1, <1>3 DEF Attempts
<1>6. NotificationsTypeOK'
  BY <1>1, <1>2, <1>4, <1>5 DEF NotificationsTypeOK, ConsumerInv
<1>7. \A k : Copies(k)' = (IF k = h THEN Copies(k) + 1 ELSE Copies(k)) \/ Copies(k)' = Copies(k)
  BY <1>5, MailAddsCopy, SameCopies
<1>8. \A k : Tried(k) => Tried(k)'
  BY <1>5, <1>7, CopiesAreCounted DEF Tried
<1>9. hand'[c] = "returned" /\ InHand(c) = "created" => Tried(h)'
  <2>1. CASE mails' = Append(mails, h)
    <3>1. Copies(h)' = Copies(h) + 1 /\ Copies(h) \in Nat
      BY <2>1, MailAddsCopy, CopiesAreCounted
    <3>. QED
      BY <3>1 DEF Tried
  <2>2. CASE failed' = failed \cup {h}
    BY <2>2 DEF Tried
  <2>. QED
    BY <1>1, <1>3, <2>1, <2>2 DEF Attempts
<1>10. HandlerHasTried'
  <2>1. ASSUME NEW d \in Replica, hand'[d] = "returned", InHand(d)' = "created"
        PROVE  \E k \in Position' : k = Head(buffer'[d]) /\ Tried(k)'
    <3>1. CASE d = c
      BY <1>1, <1>2, <1>3, <1>9, <2>1, <3>1
    <3>2. CASE d # c
      <4>1. PICK k \in Position : k = Head(buffer[d]) /\ Tried(k)
        BY <1>1, <1>2, <2>1, <3>2 DEF HandlerHasTried
      <4>. QED
        BY <1>1, <1>2, <1>8, <4>1
    <3>. QED
      BY <3>1, <3>2
  <2>2. ASSUME NEW d \in Replica, hand'[d] = "raised"
        PROVE  InHand(d)' = "unsendable"
    <3>1. CASE d = c
      BY <1>1, <1>2, <2>2, <3>1 DEF Attempts
    <3>2. CASE d # c
      BY <1>1, <1>2, <2>2, <3>2 DEF HandlerHasTried
    <3>. QED
      BY <3>1, <3>2
  <2>. QED
    BY <2>1, <2>2 DEF HandlerHasTried
<1>11. SettledWasTried'
  <2>1. \A k \in Mailable' : Settled(k)' => k \in Mailable /\ Settled(k) /\ place'[k] = place[k]
    BY <1>1, <1>2 DEF Settled
  <2>2. \A k \in Mailable : Settled(k) => place[k] = "acked" /\ Tried(k)
    BY DEF SettledWasTried, Tried
  <2>3. \A k \in Mailable' : Settled(k)' => place'[k] = "acked" /\ Tried(k)'
    BY <1>8, <2>1, <2>2
  <2>. QED
    BY <2>3 DEF SettledWasTried, Tried
<1>12. NothingTwice'
  BY <1>1 DEF NothingTwice
<1>. QED
  BY <1>6, <1>10, <1>11, <1>12

-----------------------------------------------------------------------------
LEMMA NotificationsInvInit == ASSUME NotificationsInit PROVE NotificationsInv
<1>. USE DEF NotificationsInit, ConsumerInit
<1>1. ConsumerInv
  BY ConsumerInvInit
<1>2. Position = {} /\ Mailable = {} /\ mails = <<>> /\ failed = {}
  BY EmptySeq DEF Position, Mailable
<1>3. NotificationsTypeOK
  BY <1>1, <1>2 DEF NotificationsTypeOK, ConsumerInv
<1>4. NothingTwice
  BY EmptySeq DEF NothingTwice
<1>5. ChancesCostFaults /\ HandlerHasTried /\ SettledWasTried
  BY <1>2 DEF ChancesCostFaults, HandlerHasTried, SettledWasTried
<1>. QED
  BY <1>1, <1>3, <1>4, <1>5 DEF NotificationsInv

LEMMA NotificationsInvKept ==
  ASSUME NotificationsInv, [NotificationsNext]_notificationsVars
  PROVE  NotificationsInv'
<1>1. CASE TransportStep /\ UNCHANGED <<mails, failed>>
  <2>1. ConsumerInv' /\ NothingTwice'
    BY <1>1, TransportKeepsInv, TransportNothingTwice DEF NotificationsInv
  <2>. QED
    BY <1>1, <2>1, TransportKeepsMailable, TransportKeepsPaid, TransportKeepsTried
    DEF NotificationsInv
<1>2. ASSUME NEW c \in Replica, Handler(c) PROVE NotificationsInv'
  <2>1. ConsumerInv'
    BY <1>2, EveryHandlerStep DEF NotificationsInv
  <2>. QED
    BY <1>2, <2>1, HandlerKeepsPaid, HandlerKeepsTried DEF NotificationsInv
<1>3. CASE UNCHANGED notificationsVars
  <2>. USE <1>3 DEF notificationsVars, NotificationsInv
  <2>1. Position' = Position /\ Mailable' = Mailable
    BY DEF Position, Mailable
  <2>2. NotificationsTypeOK' /\ ConsumerInv' /\ NothingTwice'
    BY <2>1 DEF NotificationsTypeOK, ConsumerInv, ConsumerTypeOK, HandIsBuffered,
       BufferedIsUnacked, NothingTwice
  <2>3. \A k : Chances(k)' = Chances(k)
    BY DEF Chances, ToMail, Unhandled, Done
  <2>4. \A k : Copies(k)' = Copies(k)
    BY SameCopies
  <2>5. ChancesCostFaults'
    BY <2>1, <2>3, <2>4 DEF ChancesCostFaults
  <2>6. HandlerHasTried' /\ SettledWasTried'
    BY <2>1, <2>4 DEF HandlerHasTried, SettledWasTried, Tried, InHand, Settled
  <2>. QED
    BY <2>2, <2>5, <2>6
<1>. QED
  BY <1>1, <1>2, <1>3 DEF NotificationsNext

(* Whatever the messages, replicas, faults and their order, the consumer   *)
(* loop and the mailer keep the chances of a second mail to the faults.    *)
THEOREM NotificationsInvariant == NotificationsSpec => []NotificationsInv
<1>. QED
  BY NotificationsInvInit, NotificationsInvKept, PTL DEF NotificationsSpec

(* The queue, the buffers, the mails and the failures are of their types:  *)
(* only issue.created events are ever mailed.                              *)
THEOREM NotificationsAreTyped == NotificationsSpec => []NotificationsTypeOK
<1>1. NotificationsInv => NotificationsTypeOK
  BY DEF NotificationsInv
<1>. QED
  BY <1>1, NotificationsInvariant, PTL

(* An issue.created event leaves the queue only after the handler mailed   *)
(* it or logged its failure.                                               *)
THEOREM SettledMailsWereTried == NotificationsSpec => []SettledWasTried
<1>1. NotificationsInv => SettledWasTried
  BY DEF NotificationsInv
<1>. QED
  BY <1>1, NotificationsInvariant, PTL

(* Each mail of an event after the first has cost a fault of its own.      *)
THEOREM CopiesAreCostly == NotificationsSpec => []CopiesCostFaults
<1>1. ASSUME NotificationsInv PROVE CopiesCostFaults
  <2>. USE <1>1 DEF NotificationsInv
  <2>1. faults \in Nat
    BY ConsumerAssumption DEF ConsumerInv, ConsumerTypeOK
  <2>. SUFFICES ASSUME NEW k \in Position PROVE Copies(k) <= 1 + faults
    BY DEF CopiesCostFaults
  <2>2. IsFiniteSet(Chances(k)) /\ Copies(k) + Cardinality(Chances(k)) <= 1 + faults
    BY DEF ChancesCostFaults
  <2>3. Cardinality(Chances(k)) \in Nat /\ Copies(k) \in Nat
    BY <2>2, FS_CardinalityType, CopiesAreCounted
  <2>. QED
    BY <2>1, <2>2, <2>3
<1>. QED
  BY <1>1, NotificationsInvariant, PTL
=============================================================================
