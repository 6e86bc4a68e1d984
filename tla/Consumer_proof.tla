--------------------------- MODULE Consumer_proof ---------------------------
(***************************************************************************)
(* What every step of the consumer loop preserves, for any number of       *)
(* replicas, messages and faults and any prefetch count: the type of its   *)
(* state, and that the buffer of a live replica is what the broker holds   *)
(* unacknowledged for it.  Audit_proof builds on these lemmas.             *)
(***************************************************************************)
EXTENDS Consumer, SequenceTheorems, TLAPS

(* A thread without connection has nothing in hand, and one that handles   *)
(* a message still has it at the head of its buffer.                       *)
HandIsBuffered ==
  \A c \in Replica :
    /\ link[c] \in {"dead", "closed"} => buffer[c] = <<>> /\ hand[c] = "idle"
    /\ hand[c] # "idle" => buffer[c] # <<>>

ConsumerInv == ConsumerTypeOK /\ HandIsBuffered /\ BufferedIsUnacked

(* Appending to a function on 1 .. n gives one on 1 .. n + 1.              *)
LEMMA AppendToFunction ==
  ASSUME NEW S, NEW n \in Nat, NEW f \in [1 .. n -> S], NEW e \in S
  PROVE  /\ Append(f, e) \in [1 .. n + 1 -> S]
         /\ \A i \in 1 .. n : Append(f, e)[i] = f[i]
         /\ Append(f, e)[n + 1] = e
<1>1. f \in Seq(S)
  BY SeqDef
<1>2. Len(f) = n
  BY <1>1, LenProperties
<1>. DEFINE g == Append(f, e)
<1>3. /\ g \in Seq(S)
      /\ Len(g) = n + 1
      /\ \A i \in 1 .. n : g[i] = f[i]
      /\ g[n + 1] = e
  BY <1>1, <1>2, AppendProperties
<1>4. g \in [1 .. n + 1 -> S]
  BY <1>3, LenProperties
<1>. QED
  BY <1>3, <1>4

(* A buffer's positions stay positions when the queue grows.               *)
LEMMA SeqOfPositions ==
  ASSUME NEW m \in Nat, NEW n \in Nat, m <= n, NEW s \in Seq(1 .. m)
  PROVE  s \in Seq(1 .. n)
BY SeqMonotonic

(* The head of a non-empty sequence is its first element, and the tail is  *)
(* the rest shifted by one.                                                *)
LEMMA HeadAndTail ==
  ASSUME NEW S, NEW s \in Seq(S), s # <<>>
  PROVE  /\ Len(s) \in Nat \ {0}
         /\ Head(s) = s[1]
         /\ Head(s) \in S
         /\ Tail(s) \in Seq(S)
         /\ Len(Tail(s)) = Len(s) - 1
         /\ \A i \in 1 .. Len(Tail(s)) : Tail(s)[i] = s[i + 1]
BY HeadTailProperties, EmptySeq

(* The invariant of the loop holds before its thread first connects.       *)
THEOREM ConsumerInvInit ==
  ASSUME ConsumerInit
  PROVE  ConsumerInv
<1>. USE ConsumerAssumption
<1>1. Len(queue) = 0 /\ Position = {}
  BY DEF ConsumerInit, Position
<1>2. ConsumerTypeOK
  <2>1. place \in [Position -> Resting \cup Replica]
    BY <1>1 DEF ConsumerInit
  <2>2. queue \in Seq(Message) /\ buffer \in [Replica -> Seq(Position)]
    BY EmptySeq DEF ConsumerInit
  <2>3. bound \in BOOLEAN
    BY DEF ConsumerInit
  <2>4. unrouted \in 0 .. MaxPublished /\ faults \in 0 .. MaxFaults
    BY DEF ConsumerInit, ConsumerAssumption
  <2>5. /\ link \in [Replica -> {"dead", "closed", "open", "broken"}]
        /\ hand \in [Replica -> {"idle", "handling", "returned", "raised"}]
    BY DEF ConsumerInit
  <2>. QED
    BY <2>1, <2>2, <2>3, <2>4, <2>5 DEF ConsumerTypeOK
<1>3. HandIsBuffered /\ BufferedIsUnacked
  BY DEF ConsumerInit, HandIsBuffered, BufferedIsUnacked
<1>. QED
  BY <1>2, <1>3 DEF ConsumerInv

-----------------------------------------------------------------------------
(* The steps that extend the queue or move one message in it. *)

LEMMA PublishKeepsInv ==
  ASSUME ConsumerInv, NEW m \in Message, Publish(m)
  PROVE  ConsumerInv'
<1>. USE DEF ConsumerInv
<1>1. CASE bound = FALSE
  <2>1. /\ unrouted' = unrouted + 1 /\ Len(queue) + unrouted < MaxPublished
        /\ UNCHANGED <<bound, queue, place, link, buffer, hand, faults>>
    BY <1>1 DEF Publish
  <2>2. Len(queue) \in Nat /\ unrouted \in Nat /\ MaxPublished \in Nat
    BY LenProperties, ConsumerAssumption DEF ConsumerTypeOK
  <2>3. unrouted' \in 0 .. MaxPublished
    BY <2>1, <2>2
  <2>4. ConsumerTypeOK'
    BY <2>1, <2>3 DEF ConsumerTypeOK, Position
  <2>. QED
    BY <2>1, <2>4 DEF HandIsBuffered, BufferedIsUnacked
<1>2. CASE bound = TRUE
  <2>. DEFINE n == Len(queue)
  <2>1. /\ queue' = Append(queue, m) /\ place' = Append(place, "ready")
        /\ UNCHANGED <<bound, unrouted, link, buffer, hand, faults>>
    BY <1>2 DEF Publish
  <2>2. n \in Nat /\ queue' \in Seq(Message) /\ Len(queue') = n + 1
    BY <2>1, LenProperties, AppendProperties DEF ConsumerTypeOK
  <2>3. Position = 1 .. n /\ Position' = 1 .. n + 1
    BY <2>2 DEF Position
  <2>4. /\ place' \in [1 .. n + 1 -> Resting \cup Replica]
        /\ \A k \in 1 .. n : place'[k] = place[k]
    <3>. DEFINE S == Resting \cup Replica
    <3>1. place \in [1 .. n -> S]
      BY <2>3 DEF ConsumerTypeOK
    <3>2. "ready" \in S
      BY DEF Resting
    <3>3. n \in Nat
      BY <2>2
    <3>. HIDE DEF n, S
    <3>4. Append(place, "ready") \in [1 .. n + 1 -> S]
      BY <3>1, <3>2, <3>3, AppendToFunction, Zenon
    <3>5. \A k \in 1 .. n : Append(place, "ready")[k] = place[k]
      BY <3>1, <3>2, <3>3, AppendToFunction, SMT
    <3>. QED
      BY <2>1, <3>4, <3>5 DEF S
  <2>5. buffer' \in [Replica -> Seq(1 .. n + 1)]
    <3>1. \A c \in Replica : buffer[c] \in Seq(1 .. n + 1)
      BY <2>2, <2>3, SeqOfPositions DEF ConsumerTypeOK
    <3>. QED
      BY <2>1, <3>1 DEF ConsumerTypeOK
  <2>6. ConsumerTypeOK'
    BY <2>1, <2>2, <2>3, <2>4, <2>5 DEF ConsumerTypeOK
  <2>7. BufferedIsUnacked'
    <3>1. \A c \in Replica : \A j \in 1 .. Len(buffer[c]) : buffer[c][j] \in 1 .. n
      BY <2>3, ElementOfSeq DEF ConsumerTypeOK
    <3>. QED
      BY <2>1, <2>4, <3>1 DEF BufferedIsUnacked
  <2>. QED
    BY <2>1, <2>6, <2>7 DEF HandIsBuffered
<1>. QED
  BY <1>1, <1>2 DEF ConsumerTypeOK

LEMMA RequeueKeepsInv ==
  ASSUME ConsumerInv, NEW k \in Position, Requeue(k)
  PROVE  ConsumerInv'
<1>. USE DEF ConsumerInv
<1>1. /\ place[k] = "orphaned" /\ place' = [place EXCEPT ![k] = "ready"]
      /\ UNCHANGED <<bound, unrouted, queue, link, buffer, hand, faults>>
  BY DEF Requeue
<1>2. Position' = Position
  BY <1>1 DEF Position
<1>3. ConsumerTypeOK'
  BY <1>1, <1>2 DEF ConsumerTypeOK, Resting
<1>4. BufferedIsUnacked'
  <2>1. \A c \in Replica : c # "orphaned"
    BY ConsumerAssumption DEF Resting
  <2>2. \A c \in Replica : \A j \in 1 .. Len(buffer[c]) : buffer[c][j] \in Position
    BY ElementOfSeq DEF ConsumerTypeOK
  <2>. QED
    BY <1>1, <2>1, <2>2 DEF ConsumerTypeOK, BufferedIsUnacked
<1>. QED
  BY <1>1, <1>3, <1>4 DEF HandIsBuffered

LEMMA DeliverKeepsInv ==
  ASSUME ConsumerInv, NEW c \in Replica, Deliver(c)
  PROVE  ConsumerInv'
<1>. USE DEF ConsumerInv
<1>1. PICK k \in Position :
        /\ place[k] = "ready"
        /\ place' = [place EXCEPT ![k] = c]
        /\ buffer' = [buffer EXCEPT ![c] = Append(@, k)]
  BY DEF Deliver
<1>2. link[c] = "open" /\ UNCHANGED <<bound, unrouted, queue, link, hand, faults>>
  BY DEF Deliver
<1>3. Position' = Position
  BY <1>2 DEF Position
<1>. DEFINE b == buffer[c]
            b2 == buffer'[c]
<1>4. /\ b2 \in Seq(Position) /\ Len(b) \in Nat /\ Len(b2) = Len(b) + 1
      /\ \A j \in 1 .. Len(b) : b2[j] = b[j]
      /\ b2[Len(b) + 1] = k
      /\ b2 # <<>>
  <2>1. b \in Seq(Position) /\ b2 = Append(b, k)
    BY <1>1 DEF ConsumerTypeOK
  <2>. QED
    BY <2>1, AppendProperties, LenProperties
<1>5. \A d \in Replica \ {c} : buffer'[d] = buffer[d]
  BY <1>1 DEF ConsumerTypeOK
<1>6. ConsumerTypeOK'
  <2>1. buffer' \in [Replica -> Seq(Position)]
    BY <1>1, <1>4 DEF ConsumerTypeOK
  <2>. QED
    BY <1>1, <1>2, <1>3, <2>1 DEF ConsumerTypeOK
<1>7. HandIsBuffered'
  BY <1>2, <1>4, <1>5 DEF HandIsBuffered
<1>8. BufferedIsUnacked'
  <2>1. \A d \in Replica : d # "ready"
    BY ConsumerAssumption DEF Resting
  <2>2. \A d \in Replica : \A j \in 1 .. Len(buffer[d]) : buffer[d][j] \in Position
    BY ElementOfSeq DEF ConsumerTypeOK
  <2>3. \A d \in Replica : link[d] = "open" =>
          \A j \in 1 .. Len(buffer[d]) : buffer[d][j] # k /\ place'[buffer[d][j]] = d
    BY <1>1, <2>1, <2>2 DEF BufferedIsUnacked, ConsumerTypeOK
  <2>4. place'[k] = c
    BY <1>1 DEF ConsumerTypeOK
  <2>5. \A j \in 1 .. Len(b2) : j \in 1 .. Len(b) \/ j = Len(b) + 1
    BY <1>4
  <2>6. \A j \in 1 .. Len(b2) : place'[b2[j]] = c
    BY <1>2, <1>4, <2>3, <2>4, <2>5
  <2>7. \A i, j \in 1 .. Len(b2) : b2[i] = b2[j] => i = j
    BY <1>2, <1>4, <2>3, <2>5 DEF BufferedIsUnacked
  <2>8. \A d \in Replica \ {c} : link[d] = "open" =>
          /\ \A j \in 1 .. Len(buffer'[d]) : place'[buffer'[d][j]] = d
          /\ \A i, j \in 1 .. Len(buffer'[d]) : buffer'[d][i] = buffer'[d][j] => i = j
    BY <1>5, <2>3 DEF BufferedIsUnacked
  <2>. QED
    BY <1>2, <2>6, <2>7, <2>8 DEF BufferedIsUnacked
<1>. QED
  BY <1>6, <1>7, <1>8

-----------------------------------------------------------------------------
(* The steps of one replica on its own link and buffer. *)

(* When the broker orphans what c held, the other replicas keep theirs.    *)
LEMMA OrphanKeepsOthers ==
  ASSUME ConsumerInv, NEW c \in Replica, Orphan(c), UNCHANGED queue
  PROVE  /\ place' \in [Position' -> Resting \cup Replica]
         /\ \A d \in Replica \ {c} : link[d] = "open" =>
              \A j \in 1 .. Len(buffer[d]) : place'[buffer[d][j]] = d
<1>. USE DEF ConsumerInv
<1>1. place' = [k \in Position |-> IF place[k] = c THEN "orphaned" ELSE place[k]]
  BY DEF Orphan
<1>2. Position' = Position
  BY DEF Position
<1>3. \A d \in Replica : \A j \in 1 .. Len(buffer[d]) : buffer[d][j] \in Position
  BY ElementOfSeq DEF ConsumerTypeOK
<1>. QED
  BY <1>1, <1>2, <1>3 DEF ConsumerTypeOK, BufferedIsUnacked, Resting

LEMMA ConnectKeepsInv ==
  ASSUME ConsumerInv, NEW c \in Replica, Connect(c)
  PROVE  ConsumerInv'
<1>. USE DEF ConsumerInv
<1>1. /\ link[c] = "closed" /\ link' = [link EXCEPT ![c] = "open"] /\ bound' = TRUE
      /\ UNCHANGED <<unrouted, queue, place, buffer, hand, faults>>
  BY DEF Connect
<1>2. buffer[c] = <<>> /\ Len(buffer[c]) = 0
  BY <1>1, EmptySeq DEF HandIsBuffered
<1>3. ConsumerTypeOK'
  BY <1>1 DEF ConsumerTypeOK, Position
<1>4. HandIsBuffered'
  BY <1>1 DEF HandIsBuffered, ConsumerTypeOK
<1>5. BufferedIsUnacked'
  BY <1>1, <1>2 DEF BufferedIsUnacked, ConsumerTypeOK
<1>. QED
  BY <1>3, <1>4, <1>5

LEMMA HandKeepsInv ==
  ASSUME ConsumerInv, NEW c \in Replica,
         NEW h \in {"handling", "returned", "raised"},
         link[c] \in {"open", "broken"}, buffer[c] # <<>>,
         hand' = [hand EXCEPT ![c] = h],
         UNCHANGED <<bound, unrouted, queue, place, link, buffer, faults>>
  PROVE  ConsumerInv'
<1>. USE DEF ConsumerInv
<1>1. ConsumerTypeOK'
  BY DEF ConsumerTypeOK, Position
<1>2. HandIsBuffered'
  BY DEF HandIsBuffered, ConsumerTypeOK
<1>3. BufferedIsUnacked'
  BY DEF BufferedIsUnacked
<1>. QED
  BY <1>1, <1>2, <1>3

LEMMA TakeKeepsInv ==
  ASSUME ConsumerInv, NEW c \in Replica, Take(c)
  PROVE  ConsumerInv'
BY HandKeepsInv DEF Take

LEMMA HandlerKeepsInv ==
  ASSUME ConsumerInv, NEW c \in Replica, NEW how \in {"returned", "raised"},
         HandlerEnds(c, how)
  PROVE  ConsumerInv'
<1>1. link[c] \in {"open", "broken"} /\ buffer[c] # <<>>
  BY DEF HandlerEnds, ConsumerInv, ConsumerTypeOK, HandIsBuffered
<1>. QED
  BY <1>1, HandKeepsInv DEF HandlerEnds

(* The replica that settles owns the message: the broker held it for it.   *)
LEMMA SettlesOwn ==
  ASSUME ConsumerInv, NEW c \in Replica, link[c] = "open", hand[c] # "idle"
  PROVE  /\ buffer[c] # <<>> /\ buffer[c] \in Seq(Position)
         /\ Head(buffer[c]) \in Position
         /\ place[Head(buffer[c])] = c
<1>. USE DEF ConsumerInv
<1>1. buffer[c] # <<>> /\ buffer[c] \in Seq(Position)
  BY DEF HandIsBuffered, ConsumerTypeOK
<1>. QED
  BY <1>1, HeadAndTail DEF BufferedIsUnacked

LEMMA SettleKeepsInv ==
  ASSUME ConsumerInv, NEW c \in Replica, NEW as \in {"acked", "dropped"},
         hand[c] # "idle", Settle(c, as)
  PROVE  ConsumerInv'
<1>. USE DEF ConsumerInv
<1>. DEFINE b == buffer[c]
            k == Head(b)
<1>1. /\ link[c] = "open"
      /\ place' = [place EXCEPT ![k] = as]
      /\ buffer' = [buffer EXCEPT ![c] = Tail(b)]
      /\ hand' = [hand EXCEPT ![c] = "idle"]
      /\ UNCHANGED <<bound, unrouted, queue, link, faults>>
  BY DEF Settle
<1>2. b # <<>> /\ b \in Seq(Position) /\ k \in Position /\ place[k] = c
  BY <1>1, SettlesOwn
<1>3. /\ Len(b) \in Nat \ {0} /\ k = b[1] /\ Tail(b) \in Seq(Position)
      /\ Len(Tail(b)) = Len(b) - 1
      /\ \A i \in 1 .. Len(Tail(b)) : Tail(b)[i] = b[i + 1]
  BY <1>2, HeadAndTail
<1>4. Position' = Position
  BY <1>1 DEF Position
<1>5. /\ buffer'[c] = Tail(b)
      /\ \A d \in Replica \ {c} : buffer'[d] = buffer[d]
  BY <1>1 DEF ConsumerTypeOK
<1>6. ConsumerTypeOK'
  <2>1. buffer' \in [Replica -> Seq(Position)]
    BY <1>1, <1>3 DEF ConsumerTypeOK
  <2>2. place' \in [Position -> Resting \cup Replica]
    BY <1>1 DEF ConsumerTypeOK, Resting
  <2>. QED
    BY <1>1, <1>4, <2>1, <2>2 DEF ConsumerTypeOK
<1>7. HandIsBuffered'
  BY <1>1, <1>5 DEF HandIsBuffered, ConsumerTypeOK
<1>8. BufferedIsUnacked'
  <2>1. \A d \in Replica : \A j \in 1 .. Len(buffer[d]) : buffer[d][j] \in Position
    BY ElementOfSeq DEF ConsumerTypeOK
  <2>2. \A d \in Replica \ {c} : link[d] = "open" =>
          \A j \in 1 .. Len(buffer[d]) : place'[buffer[d][j]] = d
    BY <1>1, <1>2, <2>1 DEF BufferedIsUnacked, ConsumerTypeOK
  <2>3. \A i \in 1 .. Len(Tail(b)) : i + 1 \in 1 .. Len(b) /\ i + 1 # 1
    BY <1>3
  <2>4. \A i \in 1 .. Len(Tail(b)) : Tail(b)[i] # k /\ place'[Tail(b)[i]] = c
    <3>1. SUFFICES ASSUME NEW i \in 1 .. Len(Tail(b))
                   PROVE  b[i + 1] # b[1] /\ place'[b[i + 1]] = c
      BY <1>3
    <3>2. i + 1 \in 1 .. Len(b) /\ 1 \in 1 .. Len(b) /\ i + 1 # 1
      BY <1>3, <2>3
    <3>3. b[i + 1] # b[1] /\ place[b[i + 1]] = c
      BY <1>1, <3>2 DEF BufferedIsUnacked
    <3>. QED
      BY <1>1, <1>3, <2>1, <3>2, <3>3 DEF ConsumerTypeOK
  <2>5. \A i, j \in 1 .. Len(Tail(b)) : Tail(b)[i] = Tail(b)[j] => i = j
    <3>1. SUFFICES ASSUME NEW i \in 1 .. Len(Tail(b)), NEW j \in 1 .. Len(Tail(b)),
                          b[i + 1] = b[j + 1]
                   PROVE  i = j
      BY <1>3
    <3>2. i + 1 = j + 1
      BY <1>1, <2>3, <3>1 DEF BufferedIsUnacked
    <3>. QED
      BY <3>2
  <2>6. \A d \in Replica \ {c} : link[d] = "open" =>
          \A i, j \in 1 .. Len(buffer[d]) : buffer[d][i] = buffer[d][j] => i = j
    BY DEF BufferedIsUnacked
  <2>7. /\ \A i \in 1 .. Len(buffer'[c]) : place'[buffer'[c][i]] = c
        /\ \A i, j \in 1 .. Len(buffer'[c]) : buffer'[c][i] = buffer'[c][j] => i = j
    BY <1>5, <2>4, <2>5
  <2>8. \A d \in Replica \ {c} : link'[d] = "open" =>
          /\ \A j \in 1 .. Len(buffer'[d]) : place'[buffer'[d][j]] = d
          /\ \A i, j \in 1 .. Len(buffer'[d]) : buffer'[d][i] = buffer'[d][j] => i = j
    <3>1. link' = link
      BY <1>1
    <3>. QED
      BY <1>5, <2>2, <2>6, <3>1
  <2>. HIDE DEF b, k
  <2>. QED
    BY <2>7, <2>8 DEF BufferedIsUnacked
<1>. QED
  BY <1>6, <1>7, <1>8

LEMMA SettleUnheardKeepsInv ==
  ASSUME ConsumerInv, NEW c \in Replica, SettleUnheard(c)
  PROVE  ConsumerInv'
<1>. USE DEF ConsumerInv
<1>1. /\ link[c] = "broken" /\ hand[c] # "idle"
      /\ buffer' = [buffer EXCEPT ![c] = Tail(buffer[c])]
      /\ hand' = [hand EXCEPT ![c] = "idle"]
      /\ UNCHANGED <<bound, unrouted, queue, place, link, faults>>
  BY DEF SettleUnheard
<1>2. Tail(buffer[c]) \in Seq(Position)
  <2>1. buffer[c] # <<>> /\ buffer[c] \in Seq(Position)
    BY <1>1 DEF HandIsBuffered, ConsumerTypeOK
  <2>. QED
    BY <2>1, HeadAndTail
<1>3. ConsumerTypeOK'
  <2>1. buffer' \in [Replica -> Seq(Position)]
    BY <1>1, <1>2 DEF ConsumerTypeOK
  <2>. QED
    BY <1>1, <2>1 DEF ConsumerTypeOK, Position
<1>4. HandIsBuffered'
  BY <1>1 DEF HandIsBuffered, ConsumerTypeOK
<1>5. BufferedIsUnacked'
  <2>1. \A d \in Replica : link[d] = "open" => buffer'[d] = buffer[d]
    BY <1>1 DEF ConsumerTypeOK
  <2>. QED
    BY <1>1, <2>1 DEF BufferedIsUnacked
<1>. QED
  BY <1>3, <1>4, <1>5

LEMMA LinkLostKeepsInv ==
  ASSUME ConsumerInv, NEW c \in Replica, LinkLost(c)
  PROVE  ConsumerInv'
<1>. USE DEF ConsumerInv
<1>1. /\ faults < MaxFaults /\ link[c] = "open" /\ link' = [link EXCEPT ![c] = "broken"]
      /\ faults' = faults + 1 /\ Orphan(c)
      /\ UNCHANGED <<bound, unrouted, queue, buffer, hand>>
  BY DEF LinkLost
<1>2. faults' \in 0 .. MaxFaults
  BY <1>1, ConsumerAssumption DEF ConsumerTypeOK
<1>3. ConsumerTypeOK'
  BY <1>1, <1>2, OrphanKeepsOthers DEF ConsumerTypeOK, Position
<1>4. HandIsBuffered'
  BY <1>1 DEF HandIsBuffered, ConsumerTypeOK
<1>5. BufferedIsUnacked'
  <2>1. \A d \in Replica : link'[d] = "open" => d # c /\ link[d] = "open"
    BY <1>1 DEF ConsumerTypeOK
  <2>. QED
    BY <1>1, <2>1, OrphanKeepsOthers DEF BufferedIsUnacked
<1>. QED
  BY <1>3, <1>4, <1>5

LEMMA LinkClosedKeepsInv ==
  ASSUME ConsumerInv, NEW c \in Replica, LinkClosed(c)
  PROVE  ConsumerInv'
<1>. USE DEF ConsumerInv
<1>1. /\ link[c] = "broken" /\ link' = [link EXCEPT ![c] = "closed"]
      /\ buffer' = [buffer EXCEPT ![c] = <<>>] /\ hand' = [hand EXCEPT ![c] = "idle"]
      /\ UNCHANGED <<bound, unrouted, queue, place, faults>>
  BY DEF LinkClosed
<1>2. ConsumerTypeOK'
  <2>1. buffer' \in [Replica -> Seq(Position)]
    BY <1>1, EmptySeq DEF ConsumerTypeOK
  <2>. QED
    BY <1>1, <2>1 DEF ConsumerTypeOK, Position
<1>3. HandIsBuffered'
  BY <1>1 DEF HandIsBuffered, ConsumerTypeOK
<1>4. BufferedIsUnacked'
  <2>1. \A d \in Replica : link'[d] = "open" => link[d] = "open" /\ buffer'[d] = buffer[d]
    BY <1>1 DEF ConsumerTypeOK
  <2>. QED
    BY <1>1, <2>1 DEF BufferedIsUnacked
<1>. QED
  BY <1>2, <1>3, <1>4

LEMMA CrashKeepsInv ==
  ASSUME ConsumerInv, NEW c \in Replica, Crash(c)
  PROVE  ConsumerInv'
<1>. USE DEF ConsumerInv
<1>1. /\ faults < MaxFaults /\ link' = [link EXCEPT ![c] = "dead"]
      /\ buffer' = [buffer EXCEPT ![c] = <<>>] /\ hand' = [hand EXCEPT ![c] = "idle"]
      /\ faults' = faults + 1 /\ Orphan(c)
      /\ UNCHANGED <<bound, unrouted, queue>>
  BY DEF Crash
<1>2. faults' \in 0 .. MaxFaults
  BY <1>1, ConsumerAssumption DEF ConsumerTypeOK
<1>3. ConsumerTypeOK'
  <2>1. buffer' \in [Replica -> Seq(Position)]
    BY <1>1, EmptySeq DEF ConsumerTypeOK
  <2>. QED
    BY <1>1, <1>2, <2>1, OrphanKeepsOthers DEF ConsumerTypeOK, Position
<1>4. HandIsBuffered'
  BY <1>1 DEF HandIsBuffered, ConsumerTypeOK
<1>5. BufferedIsUnacked'
  <2>1. \A d \in Replica :
          link'[d] = "open" => d # c /\ link[d] = "open" /\ buffer'[d] = buffer[d]
    BY <1>1 DEF ConsumerTypeOK
  <2>. QED
    BY <1>1, <2>1, OrphanKeepsOthers DEF BufferedIsUnacked
<1>. QED
  BY <1>3, <1>4, <1>5

LEMMA ThreadDiesKeepsInv ==
  ASSUME ConsumerInv, NEW c \in Replica, ThreadDies(c)
  PROVE  ConsumerInv'
<1>. USE DEF ConsumerInv
<1>1. /\ faults < MaxFaults /\ link[c] = "closed" /\ link' = [link EXCEPT ![c] = "dead"]
      /\ faults' = faults + 1
      /\ UNCHANGED <<bound, unrouted, queue, place, buffer, hand>>
  BY DEF ThreadDies
<1>2. faults' \in 0 .. MaxFaults
  BY <1>1, ConsumerAssumption DEF ConsumerTypeOK
<1>3. ConsumerTypeOK'
  BY <1>1, <1>2 DEF ConsumerTypeOK, Position
<1>4. HandIsBuffered' /\ BufferedIsUnacked'
  BY <1>1 DEF HandIsBuffered, BufferedIsUnacked, ConsumerTypeOK
<1>. QED
  BY <1>3, <1>4

LEMMA RestartKeepsInv ==
  ASSUME ConsumerInv, NEW c \in Replica, Restart(c)
  PROVE  ConsumerInv'
<1>. USE DEF ConsumerInv
<1>1. /\ link[c] = "dead" /\ link' = [link EXCEPT ![c] = "closed"]
      /\ UNCHANGED <<bound, unrouted, queue, place, buffer, hand, faults>>
  BY DEF Restart
<1>2. ConsumerTypeOK'
  BY <1>1 DEF ConsumerTypeOK, Position
<1>3. HandIsBuffered' /\ BufferedIsUnacked'
  BY <1>1 DEF HandIsBuffered, BufferedIsUnacked, ConsumerTypeOK
<1>. QED
  BY <1>2, <1>3

-----------------------------------------------------------------------------
(* Together: every step of the loop that is not a handler's.               *)
THEOREM TransportKeepsInv ==
  ASSUME ConsumerInv, TransportStep
  PROVE  ConsumerInv'
<1>1. CASE \E m \in Message : Publish(m)
  BY <1>1, PublishKeepsInv
<1>2. CASE \E k \in Position : Requeue(k)
  BY <1>2, RequeueKeepsInv
<1>3. ASSUME NEW c \in Replica, ThreadStep(c)
      PROVE  ConsumerInv'
  <2>1. CASE Deliver(c)
    BY <2>1, DeliverKeepsInv
  <2>2. CASE Connect(c)
    BY <2>2, ConnectKeepsInv
  <2>3. CASE Take(c)
    BY <2>3, TakeKeepsInv
  <2>4. CASE Ack(c)
    BY <2>4, SettleKeepsInv DEF Ack
  <2>5. CASE Nack(c)
    BY <2>5, SettleKeepsInv DEF Nack
  <2>6. CASE SettleUnheard(c)
    BY <2>6, SettleUnheardKeepsInv
  <2>7. CASE LinkClosed(c)
    BY <2>7, LinkClosedKeepsInv
  <2>. QED
    BY <1>3, <2>1, <2>2, <2>3, <2>4, <2>5, <2>6, <2>7 DEF ThreadStep
<1>4. ASSUME NEW c \in Replica, Fault(c) \/ Restart(c)
      PROVE  ConsumerInv'
  BY <1>4, LinkLostKeepsInv, CrashKeepsInv, ThreadDiesKeepsInv, RestartKeepsInv DEF Fault
<1>. QED
  BY <1>1, <1>2, <1>3, <1>4 DEF TransportStep

-----------------------------------------------------------------------------
(* What those steps do to the messages, for the proofs about handlers.     *)

(* A routed message never changes, and a settled one keeps its fate.       *)
QueueKept ==
  \A k \in Position :
    /\ k \in Position'
    /\ queue'[k] = queue[k]
    /\ Settled(k) => place'[k] = place[k]

(* A message is acknowledged only by a replica whose handler returned on   *)
(* it, and dropped only by one whose handler raised.                       *)
SettledByItsHandler ==
  \A k \in Position' : Settled(k)' =>
    \/ Settled(k)
    \/ \E c \in Replica :
         /\ k \in Position
         /\ k = Head(buffer[c])
         /\ \/ hand[c] = "returned" /\ place'[k] = "acked"
            \/ hand[c] = "raised" /\ place'[k] = "dropped"

(* A handler's result stays with the message it was about.                 *)
HandKept ==
  \A c \in Replica : hand'[c] \in {"returned", "raised"} =>
    /\ hand'[c] = hand[c]
    /\ Head(buffer'[c]) = Head(buffer[c])
    /\ InHand(c)' = InHand(c)

LEMMA HeadInPosition ==
  ASSUME ConsumerInv, NEW c \in Replica, hand[c] # "idle"
  PROVE  buffer[c] # <<>> /\ buffer[c] \in Seq(Position) /\ Head(buffer[c]) \in Position
<1>1. buffer[c] # <<>> /\ buffer[c] \in Seq(Position)
  BY DEF ConsumerInv, HandIsBuffered, ConsumerTypeOK
<1>. QED
  BY <1>1, HeadAndTail

LEMMA PublishKeepsMessages ==
  ASSUME ConsumerInv, NEW m \in Message, Publish(m)
  PROVE  QueueKept /\ SettledByItsHandler /\ HandKept
<1>. USE DEF ConsumerInv
<1>1. UNCHANGED <<buffer, hand>>
  BY DEF Publish
<1>2. CASE bound = FALSE
  <2>1. UNCHANGED <<queue, place>>
    BY <1>2 DEF Publish
  <2>. QED
    BY <1>1, <2>1 DEF QueueKept, SettledByItsHandler, HandKept, InHand, Settled, Position
<1>3. CASE bound = TRUE
  <2>. DEFINE n == Len(queue)
              S == Resting \cup Replica
  <2>1. queue' = Append(queue, m) /\ place' = Append(place, "ready")
    BY <1>3 DEF Publish
  <2>2. n \in Nat /\ Len(queue') = n + 1 /\ \A k \in 1 .. n : queue'[k] = queue[k]
    BY <2>1, LenProperties, AppendProperties DEF ConsumerTypeOK
  <2>3. place \in [1 .. n -> S]
    BY DEF ConsumerTypeOK, Position
  <2>4. "ready" \in S
    BY DEF Resting
  <2>5. \A k \in 1 .. n : place'[k] = place[k]
    <3>. HIDE DEF n, S
    <3>. QED
      BY <2>1, <2>2, <2>3, <2>4, AppendToFunction, SMT
  <2>6. place'[n + 1] = "ready"
    <3>. HIDE DEF n, S
    <3>. QED
      BY <2>1, <2>2, <2>3, <2>4, AppendToFunction, SMT
  <2>7. Position = 1 .. n /\ Position' = 1 .. n + 1
    BY <2>2 DEF Position
  <2>8. QueueKept
    BY <2>2, <2>5, <2>7 DEF QueueKept
  <2>9. SettledByItsHandler
    <3>1. \A k \in Position' : k \in Position \/ k = n + 1
      BY <2>2, <2>7
    <3>. HIDE DEF n
    <3>. QED
      BY <2>5, <2>6, <2>7, <3>1 DEF SettledByItsHandler, Settled
  <2>10. HandKept
    <3>1. \A c \in Replica : hand[c] # "idle" => Head(buffer[c]) \in 1 .. n
      BY <2>7, HeadInPosition
    <3>. QED
      BY <1>1, <2>2, <3>1 DEF HandKept, InHand
  <2>. QED
    BY <2>8, <2>9, <2>10
<1>. QED
  BY <1>2, <1>3 DEF ConsumerTypeOK

LEMMA DeliverKeepsMessages ==
  ASSUME ConsumerInv, NEW c \in Replica, Deliver(c)
  PROVE  QueueKept /\ SettledByItsHandler /\ HandKept
<1>. USE DEF ConsumerInv
<1>1. PICK k \in Position :
        /\ place[k] = "ready"
        /\ place' = [place EXCEPT ![k] = c]
        /\ buffer' = [buffer EXCEPT ![c] = Append(@, k)]
  BY DEF Deliver
<1>2. UNCHANGED <<queue, hand>> /\ Position' = Position
  BY DEF Deliver, Position
<1>3. c \notin {"acked", "dropped"}
  BY ConsumerAssumption DEF Resting
<1>4. QueueKept /\ SettledByItsHandler
  BY <1>1, <1>2, <1>3 DEF QueueKept, SettledByItsHandler, Settled, ConsumerTypeOK
<1>5. HandKept
  <2>1. hand[c] # "idle" => Head(buffer'[c]) = Head(buffer[c])
    <3>1. buffer'[c] = Append(buffer[c], k)
      BY <1>1 DEF ConsumerTypeOK
    <3>. QED
      BY <3>1, HeadInPosition, HeadTailAppend
  <2>2. \A d \in Replica \ {c} : buffer'[d] = buffer[d]
    BY <1>1 DEF ConsumerTypeOK
  <2>. QED
    BY <1>2, <2>1, <2>2 DEF HandKept, InHand
<1>. QED
  BY <1>4, <1>5

LEMMA SettleKeepsMessages ==
  ASSUME ConsumerInv, NEW c \in Replica, Ack(c) \/ Nack(c)
  PROVE  QueueKept /\ SettledByItsHandler /\ HandKept
<1>. USE DEF ConsumerInv
<1>1. PICK as \in {"acked", "dropped"} :
        /\ Settle(c, as)
        /\ as = "acked" => hand[c] = "returned"
        /\ as = "dropped" => hand[c] = "raised"
  BY DEF Ack, Nack
<1>. DEFINE k == Head(buffer[c])
<1>2. /\ place' = [place EXCEPT ![k] = as]
      /\ buffer' = [buffer EXCEPT ![c] = Tail(@)]
      /\ hand' = [hand EXCEPT ![c] = "idle"]
      /\ link[c] = "open" /\ queue' = queue /\ Position' = Position
  BY <1>1 DEF Settle, Position
<1>3. k \in Position /\ place[k] = c
  BY <1>1, <1>2, SettlesOwn
<1>4. c \notin {"acked", "dropped"}
  BY ConsumerAssumption DEF Resting
<1>. HIDE DEF k
<1>5. QueueKept
  BY <1>2, <1>3, <1>4 DEF QueueKept, Settled, ConsumerTypeOK
<1>6. SettledByItsHandler
  <2>1. \A j \in Position \ {k} : place'[j] = place[j]
    BY <1>2 DEF ConsumerTypeOK
  <2>2. place'[k] = as
    BY <1>2, <1>3 DEF ConsumerTypeOK
  <2>. QED
    BY <1>1, <1>2, <1>3, <2>1, <2>2 DEF SettledByItsHandler, Settled, k
<1>7. HandKept
  <2>1. \A d \in Replica \ {c} : buffer'[d] = buffer[d] /\ hand'[d] = hand[d]
    BY <1>2 DEF ConsumerTypeOK
  <2>2. hand'[c] = "idle"
    BY <1>2 DEF ConsumerTypeOK
  <2>. QED
    BY <1>2, <2>1, <2>2 DEF HandKept, InHand
<1>. QED
  BY <1>5, <1>6, <1>7

(* The steps that settle nothing and publish nothing.                      *)
LEMMA OtherStepKeepsMessages ==
  ASSUME ConsumerInv, NEW c \in Replica,
         \/ Connect(c) \/ Take(c) \/ SettleUnheard(c) \/ LinkClosed(c) \/ Fault(c)
         \/ Restart(c)
  PROVE  QueueKept /\ SettledByItsHandler /\ HandKept
<1>. USE DEF ConsumerInv
<1>1. queue' = queue /\ Position' = Position
  BY DEF Connect, Take, SettleUnheard, LinkClosed, Fault, LinkLost, Crash, ThreadDies, Restart,
     Position
<1>2. UNCHANGED place \/ Orphan(c)
  BY DEF Connect, Take, SettleUnheard, LinkClosed, Fault, LinkLost, Crash, ThreadDies, Restart
<1>3. c \notin {"acked", "dropped"}
  BY ConsumerAssumption DEF Resting
<1>4. \A k \in Position :
        /\ Settled(k) => place'[k] = place[k]
        /\ place'[k] \in {"acked", "dropped"} => Settled(k)
  BY <1>2, <1>3 DEF Orphan, Settled
<1>5. QueueKept /\ SettledByItsHandler
  BY <1>1, <1>4 DEF QueueKept, SettledByItsHandler, Settled
<1>6. \A d \in Replica : hand'[d] \in {"returned", "raised"} =>
        hand'[d] = hand[d] /\ buffer'[d] = buffer[d]
  BY DEF Connect, Take, SettleUnheard, LinkClosed, Fault, LinkLost, Crash, ThreadDies, Restart,
     ConsumerTypeOK
<1>. QED
  BY <1>1, <1>5, <1>6 DEF HandKept, InHand

(* What a step of the loop or the broker may do to a message: only         *)
(* on_message settles it, at the replica that had it in hand.              *)
THEOREM TransportKeepsMessages ==
  ASSUME ConsumerInv, TransportStep
  PROVE  QueueKept /\ SettledByItsHandler /\ HandKept
<1>1. CASE \E m \in Message : Publish(m)
  BY <1>1, PublishKeepsMessages
<1>2. ASSUME NEW k \in Position, Requeue(k)
      PROVE  QueueKept /\ SettledByItsHandler /\ HandKept
  <2>1. /\ place[k] = "orphaned" /\ place' = [place EXCEPT ![k] = "ready"]
        /\ UNCHANGED <<queue, buffer, hand>> /\ Position' = Position
    BY <1>2 DEF Requeue, Position
  <2>2. QueueKept /\ SettledByItsHandler
    BY <2>1 DEF QueueKept, SettledByItsHandler, Settled, ConsumerInv, ConsumerTypeOK
  <2>. QED
    BY <2>1, <2>2 DEF HandKept, InHand
<1>3. ASSUME NEW c \in Replica, ThreadStep(c) \/ Fault(c) \/ Restart(c)
      PROVE  QueueKept /\ SettledByItsHandler /\ HandKept
  BY <1>3, DeliverKeepsMessages, SettleKeepsMessages, OtherStepKeepsMessages DEF ThreadStep
<1>. QED
  BY <1>1, <1>2, <1>3 DEF TransportStep
=============================================================================
