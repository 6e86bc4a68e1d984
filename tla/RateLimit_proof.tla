--------------------------- MODULE RateLimit_proof ---------------------------
(***************************************************************************)
(* The rate limit, for any number of requests, clients and tenants, any    *)
(* limit and any length of the window: how many pass, and who is refused.  *)
(***************************************************************************)
EXTENDS RateLimit, FiniteSetTheorems, TLAPS

-----------------------------------------------------------------------------
(* The inductive invariant. *)

(* A window begins when the division by Window first gives its number.     *)
Begin(b) == b * Window

End(b) == Begin(b) + Window

(* A request that has been counted, or has passed, has a window. *)
RequestsInOrder ==
  \A r \in Request :
    /\ pc[r] \in {"new", "keyed"} => count[r] = 0
    /\ pc[r] \in {"counted", "timed"} => count[r] > 0
    /\ pc[r] = "refused" => count[r] > Limit
    /\ pc[r] # "new" => Begin(bucket[r]) <= now
    /\ pc[r] = "new" => bucket[r] = 0

(* No key expires inside its window: EXPIRE comes after the window began   *)
(* and gives it a window's length, and until EXPIRE it has no TTL.         *)
KeysOutliveWindows ==
  \A k \in DOMAIN counters : counters[k].expires >= End(k[2])

(* While the window is on and Redis has not restarted, its counter is      *)
(* there and has counted everyone.                                         *)
CounterIsThere ==
  \A r \in Request : count[r] > 0 /\ life[r] = restarts /\ now < End(bucket[r]) =>
    KeyOf(r) \in DOMAIN counters /\ count[r] <= counters[KeyOf(r)].n

(* INCR does not return a number twice inside a window and a life of Redis. *)
CountsAreUnique ==
  \A q, r \in Request :
    /\ life[q] = life[r]
    /\ count[q] > 0 /\ ~ late[q]
    /\ count[r] > 0 /\ ~ late[r]
    /\ KeyOf(q) = KeyOf(r) /\ count[q] = count[r]
    => q = r

(* Whom INCR has counted under a key, in whatever life of the key. *)
CountedUnder(k) == {q \in Request : count[q] > 0 /\ KeyOf(q) = k}

CountersCount ==
  /\ \A k \in DOMAIN counters : counters[k].n <= Cardinality(CountedUnder(k))
  /\ \A r \in Request : count[r] > 0 => count[r] <= Cardinality(CountedUnder(KeyOf(r)))

(* Who passed in spite of the count passed because Redis had failed. *)
Excused == {r \in Request : pc[r] = "passed" /\ count[r] > Limit}

ExcusesCostFaults == Cardinality(Excused) <= faults

RateLimitInv ==
  /\ RateLimitTypeOK
  /\ RequestsInOrder
  /\ KeysOutliveWindows
  /\ CounterIsThere
  /\ CountsAreUnique
  /\ CountersCount
  /\ ExcusesCostFaults

-----------------------------------------------------------------------------
(* Windows, keys and counters. *)

(* A moment lies in the window that the division gives it. *)
LEMMA WindowOfMoment ==
  ASSUME NEW t \in Nat
  PROVE  /\ t \div Window \in 0 .. t
         /\ Begin(t \div Window) <= t /\ t < End(t \div Window)
<1>1. t \div Window \in Nat
  BY RateLimitAssumption
<1>2. (t \div Window) * Window <= t /\ t < (t \div Window) * Window + Window
  BY <1>1, RateLimitAssumption
<1>3. t \div Window <= t
  BY <1>1, <1>2, RateLimitAssumption
<1>. QED
  BY <1>1, <1>2, <1>3, RateLimitAssumption DEF Begin, End

LEMMA WindowsAreNumbers ==
  ASSUME NEW b \in Nat
  PROVE  Begin(b) \in Nat /\ End(b) \in Nat /\ End(b) = Begin(b) + Window
BY RateLimitAssumption DEF Begin, End

LEMMA KeysAreTyped ==
  ASSUME RateLimitTypeOK, NEW r \in Request
  PROVE  KeyOf(r) \in Key /\ KeyOf(r)[2] = bucket[r]
<1>1. call[r] \in Call /\ bucket[r] \in 0 .. MaxNow
  BY RateLimitAssumption DEF RateLimitTypeOK
<1>2. RateLimitKey(call[r]) \in {"tenant"} \X Tenant \cup {"user"} \X Client
                                \cup {"ip"} \X {"gateway", "auth"}
  BY <1>1 DEF Call, RateLimitKey
<1>. QED
  BY <1>1, <1>2 DEF KeyOf, Key

LEMMA CountersAreTyped ==
  ASSUME RateLimitTypeOK
  PROVE  /\ DOMAIN counters \subseteq Key
         /\ counters \in [DOMAIN counters -> [n : 1 .. Cardinality(Request), expires : 0 .. Never]]
         /\ \A k \in DOMAIN counters : /\ counters[k].n \in Nat \ {0}
                                       /\ counters[k].expires \in 0 .. Never
                                       /\ k[2] \in 0 .. MaxNow
<1>1. PICK K \in SUBSET Key :
        counters \in [K -> [n : 1 .. Cardinality(Request), expires : 0 .. Never]]
  BY DEF RateLimitTypeOK
<1>2. DOMAIN counters = K
  BY <1>1
<1>3. \A k \in Key : k[2] \in 0 .. MaxNow
  BY DEF Key
<1>4. Cardinality(Request) \in Nat
  BY RateLimitAssumption, FS_CardinalityType
<1>. QED
  BY <1>1, <1>2, <1>3, <1>4

LEMMA CountedIsFinite ==
  ASSUME NEW k
  PROVE  /\ IsFiniteSet(CountedUnder(k)) /\ Cardinality(CountedUnder(k)) \in Nat
         /\ Cardinality(CountedUnder(k)) <= Cardinality(Request)
<1>1. CountedUnder(k) \subseteq Request
  BY DEF CountedUnder
<1>. QED
  BY <1>1, RateLimitAssumption, FS_Subset, FS_CardinalityType

LEMMA ExcusedIsFinite == IsFiniteSet(Excused) /\ Cardinality(Excused) \in Nat
<1>1. Excused \subseteq Request
  BY DEF Excused
<1>. QED
  BY <1>1, RateLimitAssumption, FS_Subset, FS_CardinalityType

(* The bounds are numbers. *)
LEMMA Numbers ==
  ASSUME RateLimitTypeOK
  PROVE  /\ now \in Nat /\ faults \in Nat /\ restarts \in Nat /\ Never \in Nat /\ now < Never
         /\ Limit \in Nat \ {0} /\ Window \in Nat \ {0} /\ MaxNow \in Nat /\ MaxFaults \in Nat
         /\ \A r \in Request : count[r] \in Nat /\ bucket[r] \in Nat /\ bucket[r] <= MaxNow
                               /\ life[r] \in 0 .. restarts
<1>1. Cardinality(Request) \in Nat
  BY RateLimitAssumption, FS_CardinalityType
<1>. QED
  BY <1>1, RateLimitAssumption DEF RateLimitTypeOK, Never

LEMMA RateLimitInvInit == ASSUME RateLimitInit PROVE RateLimitInv
<1>. USE DEF RateLimitInit
<1>1. Cardinality(Request) \in Nat
  BY RateLimitAssumption, FS_CardinalityType
<1>2. counters \in [{} -> [n : 1 .. Cardinality(Request), expires : 0 .. Never]]
      /\ DOMAIN counters = {}
  OBVIOUS
<1>3. RateLimitTypeOK
  <2>1. \E K \in SUBSET Key :
          counters \in [K -> [n : 1 .. Cardinality(Request), expires : 0 .. Never]]
    BY <1>2
  <2>2. count \in [Request -> 0 .. Cardinality(Request)] /\ bucket \in [Request -> 0 .. MaxNow]
    BY <1>1, RateLimitAssumption
  <2>3. /\ late \in [Request -> BOOLEAN] /\ call \in [Request -> Calls]
        /\ life \in [Request -> 0 .. restarts]
    OBVIOUS
  <2>4. now \in 0 .. MaxNow /\ faults \in 0 .. MaxFaults /\ restarts \in 0 .. MaxFaults
    BY RateLimitAssumption
  <2>5. pc \in [Request -> {"new", "keyed", "counted", "timed", "passed", "refused", "lost"}]
    OBVIOUS
  <2>6. \A k \in DOMAIN counters : counters[k].expires > now
    BY <1>2
  <2>. QED
    BY <2>1, <2>2, <2>3, <2>4, <2>5, <2>6 DEF RateLimitTypeOK
<1>4. RequestsInOrder
  BY RateLimitAssumption DEF RequestsInOrder
<1>5. KeysOutliveWindows /\ CounterIsThere /\ CountsAreUnique /\ CountersCount
  BY <1>2 DEF KeysOutliveWindows, CounterIsThere, CountsAreUnique, CountersCount
<1>6. Excused = {}
  BY DEF Excused
<1>7. ExcusesCostFaults
  BY <1>6, FS_EmptySet DEF ExcusesCostFaults
<1>. QED
  BY <1>3, <1>4, <1>5, <1>7 DEF RateLimitInv
-----------------------------------------------------------------------------
(* What is counted.  The part of the invariant that only INCR, EXPIRE and  *)
(* the clock can disturb.                                                  *)
CountingInv ==
  /\ KeysOutliveWindows
  /\ CounterIsThere
  /\ CountsAreUnique
  /\ CountersCount

(* Requests keep what they were counted under. *)
CountedAsBefore ==
  /\ UNCHANGED <<call, count, late, life>>
  /\ \A q \in Request : count[q] > 0 => bucket'[q] = bucket[q]

LEMMA CountedStays ==
  ASSUME CountedAsBefore
  PROVE  /\ \A q \in Request : count[q] > 0 => KeyOf(q)' = KeyOf(q)
         /\ \A k : CountedUnder(k)' = CountedUnder(k)
BY DEF CountedAsBefore, KeyOf, CountedUnder

(* As long as no counter is taken away before its time or lowered.         *)
LEMMA CountingKept ==
  ASSUME RateLimitInv, CountedAsBefore, restarts' = restarts, now' >= now, now' \in Nat,
         DOMAIN counters' \subseteq DOMAIN counters,
         \A k \in DOMAIN counters :
           k \in DOMAIN counters' \/ counters[k].expires <= now',
         \A k \in DOMAIN counters' :
           counters'[k].n = counters[k].n /\ counters'[k].expires >= End(k[2])
  PROVE  CountingInv'
<1>. USE DEF RateLimitInv
<1>1. /\ \A q \in Request : count[q] > 0 => KeyOf(q)' = KeyOf(q)
      /\ \A k : CountedUnder(k)' = CountedUnder(k)
      /\ count' = count /\ late' = late /\ life' = life
      /\ \A q \in Request : count[q] > 0 => bucket'[q] = bucket[q]
  BY CountedStays DEF CountedAsBefore
<1>2. KeysOutliveWindows'
  BY DEF KeysOutliveWindows, End, Begin
<1>3. CountsAreUnique'
  BY <1>1 DEF CountsAreUnique
<1>4. CountersCount'
  BY <1>1 DEF CountersCount
<1>5. ASSUME NEW r \in Request, count[r] > 0, life[r] = restarts, now' < End(bucket[r])
      PROVE  KeyOf(r) \in DOMAIN counters' /\ count[r] <= counters'[KeyOf(r)].n
  <2>1. bucket[r] \in Nat /\ now \in Nat
    BY Numbers
  <2>2. End(bucket[r]) \in Nat
    BY <2>1, WindowsAreNumbers
  <2>3. now < End(bucket[r])
    BY <1>5, <2>1, <2>2
  <2>4. KeyOf(r) \in DOMAIN counters /\ count[r] <= counters[KeyOf(r)].n
    BY <1>5, <2>3 DEF CounterIsThere
  <2>5. counters[KeyOf(r)].expires >= End(bucket[r])
    BY <2>4, KeysAreTyped DEF KeysOutliveWindows
  <2>6. counters[KeyOf(r)].expires \in Nat
    BY <2>4, Numbers, CountersAreTyped
  <2>7. KeyOf(r) \in DOMAIN counters'
    BY <1>5, <2>2, <2>4, <2>5, <2>6
  <2>. QED
    BY <2>4, <2>7
<1>6. CounterIsThere'
  BY <1>1, <1>5 DEF CounterIsThere, End, Begin
<1>. QED
  BY <1>2, <1>3, <1>4, <1>6 DEF CountingInv

(* A command that Redis neither answers nor carries out. *)
Unanswered(r) ==
  /\ MayFail
  /\ faults' = faults + 1
  /\ \E from \in {"keyed", "counted"} : Step(r, from, "passed")
  /\ UNCHANGED <<now, counters, call, bucket, count, late, life, restarts>>

LEMMA QuietKeepsCounting ==
  ASSUME RateLimitInv, NEW r \in Request, Arrive(r) \/ Decide(r) \/ Unanswered(r) \/ Crash(r)
  PROVE  CountingInv'
<1>. USE DEF RateLimitInv
<1>1. UNCHANGED <<now, counters, call, count, late, life, restarts>>
  BY DEF Arrive, Decide, Unanswered, Crash
<1>2. \A q \in Request : count[q] > 0 => bucket'[q] = bucket[q]
  <2>1. CASE Arrive(r)
    <3>1. count[r] = 0
      BY <2>1 DEF Arrive, Step, RequestsInOrder
    <3>. QED
      BY <2>1, <3>1 DEF Arrive, RateLimitTypeOK
  <2>2. CASE Decide(r) \/ Unanswered(r) \/ Crash(r)
    BY <2>2 DEF Decide, Unanswered, Crash
  <2>. QED
    BY <2>1, <2>2
<1>. QED
  BY <1>1, <1>2, CountingKept, Numbers DEF CountedAsBefore, KeysOutliveWindows

LEMMA ExpireKeepsCounting ==
  ASSUME RateLimitInv, NEW r \in Request, Expire(r)
  PROVE  CountingInv'
<1>. USE DEF RateLimitInv
<1>1. pc[r] = "counted" /\ UNCHANGED <<now, call, bucket, count, late, life, restarts>>
  BY DEF Expire, Step
<1>2. CountedAsBefore
  BY <1>1 DEF CountedAsBefore
<1>3. CASE counters' = counters
  BY <1>1, <1>2, <1>3, CountingKept, Numbers DEF KeysOutliveWindows
<1>4. CASE KeyOf(r) \in DOMAIN counters
           /\ counters' = [counters EXCEPT ![KeyOf(r)].expires = now + Window]
  <2>1. now + Window >= End(bucket[r])
    <3>1. Begin(bucket[r]) <= now
      BY <1>1 DEF RequestsInOrder
    <3>. QED
      BY <3>1, Numbers, WindowsAreNumbers
  <2>2. PICK k : k = KeyOf(r)
    OBVIOUS
  <2>3. k[2] = bucket[r]
    BY <2>2, KeysAreTyped
  <2>4. /\ DOMAIN counters' = DOMAIN counters
        /\ \A j \in DOMAIN counters : counters'[j].n = counters[j].n
        /\ counters'[k].expires = now + Window
        /\ \A j \in DOMAIN counters : j # k => counters'[j] = counters[j]
    BY <1>4, <2>2, CountersAreTyped
  <2>5. \A j \in DOMAIN counters : counters'[j].expires >= End(j[2])
    BY <2>1, <2>3, <2>4 DEF KeysOutliveWindows
  <2>. QED
    BY <1>1, <1>2, <2>4, <2>5, CountingKept, Numbers
<1>. QED
  BY <1>3, <1>4 DEF Expire, Ttl

LEMMA TimeKeepsCounting ==
  ASSUME RateLimitInv, TimePasses
  PROVE  CountingInv'
<1>. USE DEF RateLimitInv
<1>1. now' = now + 1 /\ now' \in Nat /\ now' >= now /\ UNCHANGED <<call, bucket, count, late, life, restarts>>
  BY Numbers DEF TimePasses
<1>2. CountedAsBefore
  BY <1>1 DEF CountedAsBefore
<1>3. /\ DOMAIN counters' = {k \in DOMAIN counters : counters[k].expires > now + 1}
      /\ \A k \in DOMAIN counters' : counters'[k] = counters[k]
  BY DEF TimePasses, Restrict
<1>4. \A k \in DOMAIN counters : k \in DOMAIN counters' \/ counters[k].expires <= now'
  BY <1>1, <1>3, Numbers, CountersAreTyped
<1>. QED
  BY <1>1, <1>2, <1>3, <1>4, CountingKept DEF KeysOutliveWindows

(* A restart ends the life in which all have been counted so far. *)
LEMMA RestartKeepsCounting ==
  ASSUME RateLimitInv, RedisRestarts
  PROVE  CountingInv'
<1>. USE DEF RateLimitInv
<1>1. restarts' = restarts + 1 /\ UNCHANGED <<now, call, bucket, count, late, life>>
  BY DEF RedisRestarts
<1>2. CountedAsBefore
  BY <1>1 DEF CountedAsBefore
<1>3. /\ \A q \in Request : count[q] > 0 => KeyOf(q)' = KeyOf(q)
      /\ \A k : CountedUnder(k)' = CountedUnder(k)
  BY <1>2, CountedStays
<1>0. PICK K \in SUBSET DOMAIN counters :
        \E old \in [K -> 1 .. Cardinality(Request)], timed \in SUBSET K :
          /\ \A k \in K : old[k] <= counters[k].n
          /\ counters' = [k \in K |->
               [n |-> old[k], expires |-> IF k \in timed THEN counters[k].expires ELSE Never]]
  BY DEF RedisRestarts
<1>4. PICK old \in [K -> 1 .. Cardinality(Request)], timed \in SUBSET K :
        /\ \A k \in K : old[k] <= counters[k].n
        /\ counters' = [k \in K |->
             [n |-> old[k], expires |-> IF k \in timed THEN counters[k].expires ELSE Never]]
  BY <1>0
<1>5. Cardinality(Request) \in Nat
  BY RateLimitAssumption, FS_CardinalityType
<1>6. /\ DOMAIN counters' = K
      /\ \A k \in K : /\ counters'[k].n = old[k] /\ old[k] \in Nat /\ old[k] <= counters[k].n
                     /\ counters'[k].expires \in {counters[k].expires, Never}
  BY <1>4, <1>5
<1>7. KeysOutliveWindows'
  <2>1. ASSUME NEW k \in K PROVE counters'[k].expires >= End(k[2])
    <3>1. counters[k].expires >= End(k[2]) /\ counters[k].expires \in 0 .. Never
      BY CountersAreTyped DEF KeysOutliveWindows
    <3>2. k[2] \in Nat /\ End(k[2]) \in Nat /\ Never \in Nat
      BY CountersAreTyped, WindowsAreNumbers, Numbers
    <3>. QED
      BY <1>6, <3>1, <3>2
  <2>. QED
    BY <1>6, <2>1 DEF KeysOutliveWindows, End, Begin
<1>8. CounterIsThere'
  <2>1. \A q \in Request : life'[q] # restarts'
    BY <1>1, Numbers
  <2>. QED
    BY <2>1 DEF CounterIsThere
<1>9. CountsAreUnique'
  BY <1>1 DEF CountsAreUnique, KeyOf
<1>10. CountersCount'
  <2>1. \A k \in K : counters'[k].n <= Cardinality(CountedUnder(k)')
    <3>1. ASSUME NEW k \in K PROVE counters'[k].n <= Cardinality(CountedUnder(k))
      <4>1. counters[k].n <= Cardinality(CountedUnder(k)) /\ counters[k].n \in Nat
        BY CountersAreTyped DEF CountersCount
      <4>. QED
        BY <1>6, <4>1, CountedIsFinite
    <3>. QED
      BY <1>3, <3>1
  <2>2. \A q \in Request : count'[q] > 0 => count'[q] <= Cardinality(CountedUnder(KeyOf(q))')
    BY <1>1, <1>3 DEF CountersCount
  <2>. QED
    BY <1>1, <1>3, <1>6, <2>1, <2>2 DEF CountersCount
<1>. QED
  BY <1>7, <1>8, <1>9, <1>10 DEF CountingInv

-----------------------------------------------------------------------------
(* INCR, whether its answer arrives or not. *)
Counting(r) ==
  /\ pc[r] = "keyed"
  /\ CountIn(r)
  /\ UNCHANGED <<now, call, bucket, restarts>>

LEMMA IncrOrFail ==
  ASSUME NEW r \in Request
  PROVE  /\ Incr(r) => Counting(r) /\ Step(r, "keyed", "counted") /\ faults' = faults
         /\ FailOpen(r) => \/ Unanswered(r)
                           \/ /\ MayFail /\ Counting(r)
                              /\ Step(r, "keyed", "passed") /\ faults' = faults + 1
<1>1. Incr(r) => Counting(r) /\ Step(r, "keyed", "counted") /\ faults' = faults
  BY DEF Incr, Counting, Step
<1>2. ASSUME FailOpen(r)
      PROVE  \/ Unanswered(r)
             \/ /\ MayFail /\ Counting(r)
                /\ Step(r, "keyed", "passed") /\ faults' = faults + 1
  BY <1>2 DEF FailOpen, Unanswered, Counting, Step
<1>. QED
  BY <1>1, <1>2

(* What INCR does under the key k, with the number n that it returns.      *)
Increments(r, k, n) ==
  /\ n \in Nat \ {0}
  /\ k = KeyOf(r)
  /\ n = IF k \in DOMAIN counters THEN counters[k].n + 1 ELSE 1
  /\ pc[r] = "keyed" /\ count[r] = 0
  /\ UNCHANGED <<now, call, bucket, restarts>>
  /\ count' = [count EXCEPT ![r] = n]
  /\ late' = [late EXCEPT ![r] = now \div Window # bucket[r]]
  /\ life' = [life EXCEPT ![r] = restarts]
  /\ DOMAIN counters' = DOMAIN counters \cup {k}
  /\ counters'[k].n = n
  /\ counters'[k].expires = IF k \in DOMAIN counters THEN counters[k].expires ELSE Never
  /\ \A j \in DOMAIN counters : j # k => counters'[j] = counters[j]

LEMMA IncrCounts ==
  ASSUME RateLimitInv, NEW r \in Request, Counting(r)
  PROVE  \E k, n : Increments(r, k, n)
<1>0. PICK k : k = KeyOf(r)
  OBVIOUS
<1>1. PICK n : n = IF k \in DOMAIN counters THEN counters[k].n + 1 ELSE 1
  OBVIOUS
<1>2. n \in Nat \ {0}
  BY <1>1, CountersAreTyped DEF RateLimitInv
<1>3. pc[r] = "keyed" /\ count[r] = 0
  BY DEF Counting, RateLimitInv, RequestsInOrder
<1>4. PICK e : e = IF k \in DOMAIN counters THEN counters[k].expires ELSE Never
  OBVIOUS
<1>5. /\ counters' = [j \in DOMAIN counters \cup {k} |->
                        IF j = k THEN [n |-> n, expires |-> e] ELSE counters[j]]
      /\ count' = [count EXCEPT ![r] = n]
      /\ late' = [late EXCEPT ![r] = now \div Window # bucket[r]]
      /\ life' = [life EXCEPT ![r] = restarts]
      /\ UNCHANGED <<now, call, bucket, restarts>>
  BY <1>0, <1>1, <1>4 DEF Counting, CountIn
<1>6. /\ DOMAIN counters' = DOMAIN counters \cup {k}
      /\ counters'[k].n = n /\ counters'[k].expires = e
      /\ \A j \in DOMAIN counters : j # k => counters'[j] = counters[j]
  BY <1>5
<1>. QED
  BY <1>0, <1>1, <1>2, <1>3, <1>4, <1>5, <1>6 DEF Increments

LEMMA IncrKeepsCounting ==
  ASSUME RateLimitInv, NEW r \in Request, Counting(r)
  PROVE  CountingInv'
<1>0. PICK k, n : Increments(r, k, n)
  BY IncrCounts
<1>. USE DEF RateLimitInv
<1>1. /\ n \in Nat \ {0}
      /\ k = KeyOf(r)
      /\ n = IF k \in DOMAIN counters THEN counters[k].n + 1 ELSE 1
      /\ pc[r] = "keyed" /\ count[r] = 0
      /\ UNCHANGED <<now, call, bucket, restarts>>
      /\ count' = [count EXCEPT ![r] = n]
      /\ late' = [late EXCEPT ![r] = now \div Window # bucket[r]]
      /\ life' = [life EXCEPT ![r] = restarts]
      /\ DOMAIN counters' = DOMAIN counters \cup {k}
      /\ counters'[k].n = n
      /\ counters'[k].expires = IF k \in DOMAIN counters THEN counters[k].expires ELSE Never
      /\ \A j \in DOMAIN counters : j # k => counters'[j] = counters[j]
  BY <1>0 DEF Increments
<1>2. /\ count'[r] = n /\ (late'[r] <=> now \div Window # bucket[r]) /\ life'[r] = restarts
      /\ \A q \in Request : q # r => /\ count'[q] = count[q] /\ late'[q] = late[q]
                                   /\ life'[q] = life[q]
  BY <1>1 DEF RateLimitTypeOK
<1>3. \A q \in Request : KeyOf(q)' = KeyOf(q)
  BY <1>1 DEF KeyOf
<1>4. /\ k[2] = bucket[r] /\ bucket[r] \in Nat /\ now \in Nat /\ now < Never
      /\ k \in DOMAIN counters => counters[k].n \in Nat
  BY <1>1, KeysAreTyped, Numbers, CountersAreTyped
<1>5. Begin(bucket[r]) <= now /\ Begin(bucket[r]) \in Nat /\ End(bucket[r]) \in Nat
      /\ End(bucket[r]) = Begin(bucket[r]) + Window
  BY <1>1, <1>4, WindowsAreNumbers DEF RequestsInOrder
<1>6. Never >= End(bucket[r])
  <2>1. now <= MaxNow
    BY RateLimitAssumption DEF RateLimitTypeOK
  <2>. QED
    BY <1>4, <1>5, <2>1, Numbers DEF Never
<1>7. KeysOutliveWindows'
  <2>1. \A j \in DOMAIN counters' : counters'[j].expires >= End(j[2])
    BY <1>1, <1>4, <1>6 DEF KeysOutliveWindows
  <2>. QED
    BY <2>1 DEF KeysOutliveWindows, End, Begin
<1>8. ASSUME NEW q \in Request, q # r, count[q] > 0, KeyOf(q) = k, life[q] = restarts,
             now < End(bucket[q])
      PROVE  k \in DOMAIN counters /\ count[q] <= counters[k].n /\ count[q] < n
  <2>1. k \in DOMAIN counters /\ count[q] <= counters[k].n
    BY <1>8 DEF CounterIsThere
  <2>2. n = counters[k].n + 1
    BY <1>1, <2>1
  <2>3. count[q] \in Nat
    BY Numbers
  <2>. QED
    BY <1>4, <2>1, <2>2, <2>3
<1>9. CounterIsThere'
  <2>1. ASSUME NEW q \in Request, count'[q] > 0, life'[q] = restarts, now < End(bucket[q])
        PROVE  KeyOf(q) \in DOMAIN counters' /\ count'[q] <= counters'[KeyOf(q)].n
    <3>1. CASE q = r
      BY <1>1, <1>2, <3>1
    <3>2. CASE q # r /\ KeyOf(q) = k
      <4>1. count[q] < n /\ count[q] \in Nat
        BY <1>2, <1>8, <2>1, <3>2, Numbers
      <4>. QED
        BY <1>1, <1>2, <3>2, <4>1
    <3>3. CASE q # r /\ KeyOf(q) # k
      BY <1>1, <1>2, <2>1, <3>3 DEF CounterIsThere
    <3>. QED
      BY <3>1, <3>2, <3>3
  <2>. QED
    BY <1>1, <1>3, <2>1 DEF CounterIsThere, End, Begin
<1>10. ASSUME NEW q \in Request, q # r, count[q] > 0, KeyOf(q) = k, life[q] = restarts,
              ~ late'[r]
       PROVE  count[q] # n
  <2>1. now < End(bucket[r])
    BY <1>2, <1>4, <1>10, WindowOfMoment
  <2>2. bucket[q] = bucket[r]
    BY <1>4, <1>10, KeysAreTyped
  <2>. QED
    BY <1>8, <1>10, <2>1, <2>2, Numbers
<1>11. CountsAreUnique'
  <2>1. ASSUME NEW q \in Request, NEW s \in Request, count'[q] > 0, ~ late'[q],
               count'[s] > 0, ~ late'[s], KeyOf(q) = KeyOf(s), count'[q] = count'[s],
               life'[q] = life'[s]
        PROVE  q = s
    <3>1. CASE q # r /\ s # r
      BY <1>2, <2>1, <3>1 DEF CountsAreUnique
    <3>2. CASE q = r
      BY <1>1, <1>2, <1>10, <2>1, <3>2
    <3>3. CASE s = r
      BY <1>1, <1>2, <1>10, <2>1, <3>3
    <3>. QED
      BY <3>1, <3>2, <3>3
  <2>. QED
    BY <1>3, <2>1 DEF CountsAreUnique
<1>12. CountersCount'
  <2>1. CountedUnder(k)' = CountedUnder(k) \cup {r} /\ r \notin CountedUnder(k)
    BY <1>1, <1>2, <1>3 DEF CountedUnder
  <2>2. \A j : j # k => CountedUnder(j)' = CountedUnder(j)
    BY <1>1, <1>2, <1>3 DEF CountedUnder
  <2>3. Cardinality(CountedUnder(k)') = Cardinality(CountedUnder(k)) + 1
        /\ Cardinality(CountedUnder(k)) \in Nat
    BY <2>1, CountedIsFinite, FS_AddElement
  <2>4. n <= Cardinality(CountedUnder(k)')
    BY <1>1, <1>4, <2>3 DEF CountersCount
  <2>5. \A j \in DOMAIN counters' : counters'[j].n <= Cardinality(CountedUnder(j)')
    BY <1>1, <2>2, <2>4 DEF CountersCount
  <2>6. ASSUME NEW q \in Request, count'[q] > 0, NEW j, j = KeyOf(q)
        PROVE  count'[q] <= Cardinality(CountedUnder(j)')
    <3>1. CASE q = r
      BY <1>1, <1>2, <2>4, <2>6, <3>1
    <3>2. CASE q # r
      <4>1. count[q] <= Cardinality(CountedUnder(j)) /\ count[q] \in Nat
            /\ Cardinality(CountedUnder(j)) \in Nat
        BY <1>2, <2>6, <3>2, Numbers, CountedIsFinite DEF CountersCount
      <4>2. Cardinality(CountedUnder(j)') >= Cardinality(CountedUnder(j))
        <5>1. CASE j = k
          BY <2>3, <5>1
        <5>2. CASE j # k
          BY <2>2, <4>1, <5>2
        <5>. QED
          BY <5>1, <5>2
      <4>3. Cardinality(CountedUnder(j)') \in Nat
        <5>1. CASE j = k
          BY <2>3, <5>1
        <5>2. CASE j # k
          BY <2>2, <4>1, <5>2
        <5>. QED
          BY <5>1, <5>2
      <4>. QED
        BY <1>2, <3>2, <4>1, <4>2, <4>3
    <3>. QED
      BY <3>1, <3>2
  <2>. QED
    BY <1>3, <2>5, <2>6 DEF CountersCount
<1>. QED
  BY <1>7, <1>9, <1>11, <1>12 DEF CountingInv
LEMMA NextKeepsCounting ==
  ASSUME RateLimitInv, [RateLimitNext]_rateLimitVars
  PROVE  CountingInv'
<1>1. CASE UNCHANGED rateLimitVars
  <2>1. CountedAsBefore
    BY <1>1 DEF rateLimitVars, CountedAsBefore
  <2>. QED
    BY <1>1, <2>1, CountingKept, Numbers DEF rateLimitVars, RateLimitInv, KeysOutliveWindows
<1>2. CASE \E r \in Request : Arrive(r) \/ Decide(r) \/ Unanswered(r) \/ Crash(r)
  BY <1>2, QuietKeepsCounting
<1>3. CASE \E r \in Request : Counting(r)
  BY <1>3, IncrKeepsCounting
<1>4. CASE \E r \in Request : Expire(r)
  BY <1>4, ExpireKeepsCounting
<1>5. CASE TimePasses
  BY <1>5, TimeKeepsCounting
<1>6. CASE RedisRestarts
  BY <1>6, RestartKeepsCounting
<1>. QED
  BY <1>1, <1>2, <1>3, <1>4, <1>5, <1>6, IncrOrFail DEF RateLimitNext

-----------------------------------------------------------------------------
(* The order of a request's steps. *)

LEMMA OrderKept ==
  ASSUME RateLimitInv, [RateLimitNext]_rateLimitVars
  PROVE  RequestsInOrder'
<1>. USE DEF RateLimitInv
<1>0. RequestsInOrder /\ RateLimitTypeOK
  OBVIOUS
<1>1. CASE UNCHANGED rateLimitVars
  BY <1>1 DEF rateLimitVars, RequestsInOrder, Begin
<1>2. ASSUME NEW r \in Request, Arrive(r) PROVE RequestsInOrder'
  <2>1. PICK b : b = now \div Window
    OBVIOUS
  <2>2. Begin(b) <= now
    BY <2>1, WindowOfMoment, Numbers
  <2>3. /\ pc' = [pc EXCEPT ![r] = "keyed"] /\ bucket' = [bucket EXCEPT ![r] = b]
        /\ pc[r] = "new" /\ count' = count /\ now' = now
    BY <1>2, <2>1 DEF Arrive, Step
  <2>4. /\ pc'[r] = "keyed" /\ bucket'[r] = b
        /\ \A q \in Request : q # r => pc'[q] = pc[q] /\ bucket'[q] = bucket[q]
    BY <2>3 DEF RateLimitTypeOK
  <2>. QED
    BY <2>2, <2>3, <2>4 DEF RequestsInOrder, Begin
<1>3. ASSUME NEW r \in Request, Counting(r), NEW to \in {"counted", "passed"},
             Step(r, "keyed", to)
      PROVE  RequestsInOrder'
  <2>1. PICK k, n : Increments(r, k, n)
    BY <1>3, IncrCounts
  <2>2. /\ pc'[r] = to /\ count'[r] = n /\ n > 0
        /\ pc[r] = "keyed" /\ bucket' = bucket /\ now' = now
        /\ \A q \in Request : q # r => pc'[q] = pc[q] /\ count'[q] = count[q]
    BY <1>3, <2>1 DEF Increments, Step, RateLimitTypeOK
  <2>. QED
    BY <2>2 DEF RequestsInOrder, Begin
<1>4. ASSUME NEW r \in Request, Expire(r) \/ Decide(r) \/ Unanswered(r) \/ Crash(r)
      PROVE  RequestsInOrder'
  <2>1. /\ bucket' = bucket /\ count' = count /\ now' = now
        /\ \A q \in Request : q # r => pc'[q] = pc[q]
    BY <1>4 DEF Expire, Decide, Unanswered, Crash, Step, RateLimitTypeOK
  <2>2. /\ pc[r] # "new"
        /\ \/ pc[r] = "counted" /\ pc'[r] = "timed"
           \/ pc'[r] = "refused" /\ count[r] > Limit
           \/ pc'[r] \in {"passed", "lost"}
    BY <1>4 DEF Expire, Decide, Unanswered, Crash, Step, Exceeded, RateLimitTypeOK
  <2>. QED
    BY <2>1, <2>2 DEF RequestsInOrder, Begin
<1>5. CASE TimePasses
  <2>1. now' = now + 1 /\ UNCHANGED <<pc, bucket, count>>
    BY <1>5 DEF TimePasses
  <2>2. \A r \in Request : Begin(bucket[r]) \in Nat
    BY Numbers, WindowsAreNumbers
  <2>. QED
    BY <2>1, <2>2, Numbers DEF RequestsInOrder, Begin
<1>6. CASE RedisRestarts
  BY <1>6 DEF RedisRestarts, RequestsInOrder, Begin
<1>. QED
  BY <1>1, <1>2, <1>3, <1>4, <1>5, <1>6, IncrOrFail DEF RateLimitNext

-----------------------------------------------------------------------------
(* Whom a failure of Redis excuses. *)

LEMMA ExcusesKept ==
  ASSUME RateLimitInv, [RateLimitNext]_rateLimitVars
  PROVE  ExcusesCostFaults'
<1>. USE DEF RateLimitInv
<1>0. RequestsInOrder /\ RateLimitTypeOK /\ Cardinality(Excused) <= faults
  BY DEF ExcusesCostFaults
<1>1. ASSUME Excused' \subseteq Excused, faults' >= faults, faults' \in Nat
      PROVE  ExcusesCostFaults'
  <2>1. Cardinality(Excused') <= Cardinality(Excused) /\ Cardinality(Excused') \in Nat
    BY <1>1, ExcusedIsFinite, FS_Subset, FS_CardinalityType
  <2>. QED
    BY <1>0, <1>1, <2>1, ExcusedIsFinite, Numbers DEF ExcusesCostFaults
<1>2. CASE UNCHANGED rateLimitVars \/ TimePasses \/ RedisRestarts
  <2>1. Excused' = Excused /\ faults' = faults
    BY <1>2 DEF rateLimitVars, TimePasses, RedisRestarts, Excused
  <2>. QED
    BY <1>1, <2>1, Numbers
<1>3. ASSUME NEW r \in Request, Arrive(r) \/ Expire(r) \/ Crash(r) PROVE ExcusesCostFaults'
  <2>1. Excused' \subseteq Excused
    BY <1>3 DEF Arrive, Expire, Crash, Step, Excused, RateLimitTypeOK
  <2>2. faults' >= faults /\ faults' \in Nat
    BY <1>3, Numbers DEF Arrive, Expire, Crash
  <2>. QED
    BY <1>1, <2>1, <2>2
<1>4. ASSUME NEW r \in Request, Counting(r), Step(r, "keyed", "counted"), faults' = faults
      PROVE  ExcusesCostFaults'
  <2>1. PICK k, n : Increments(r, k, n)
    BY <1>4, IncrCounts
  <2>2. Excused' \subseteq Excused
    BY <1>4, <2>1 DEF Increments, Step, Excused, RateLimitTypeOK
  <2>. QED
    BY <1>1, <1>4, <2>2, Numbers
<1>5. ASSUME NEW r \in Request, Decide(r) PROVE ExcusesCostFaults'
  <2>1. /\ pc' = [pc EXCEPT ![r] = IF Exceeded(r) THEN "refused" ELSE "passed"]
        /\ count' = count /\ faults' = faults
    BY <1>5 DEF Decide, Step
  <2>2. Excused' \subseteq Excused
    BY <2>1 DEF Excused, Exceeded, RateLimitTypeOK
  <2>. QED
    BY <1>1, <2>1, <2>2, Numbers
<1>6. ASSUME NEW r \in Request, faults' = faults + 1,
             \/ Unanswered(r)
             \/ Counting(r) /\ Step(r, "keyed", "passed")
      PROVE  ExcusesCostFaults'
  <2>1. Excused' \subseteq Excused \cup {r}
    <3>1. CASE Unanswered(r)
      BY <3>1 DEF Unanswered, Step, Excused, RateLimitTypeOK
    <3>2. CASE Counting(r) /\ Step(r, "keyed", "passed")
      <4>1. PICK k, n : Increments(r, k, n)
        BY <3>2, IncrCounts
      <4>. QED
        BY <3>2, <4>1 DEF Increments, Step, Excused, RateLimitTypeOK
    <3>. QED
      BY <1>6, <3>1, <3>2
  <2>2. /\ IsFiniteSet(Excused \cup {r})
        /\ Cardinality(Excused \cup {r})
             = IF r \in Excused THEN Cardinality(Excused) ELSE Cardinality(Excused) + 1
    BY ExcusedIsFinite, FS_AddElement
  <2>3. /\ Cardinality(Excused') <= Cardinality(Excused \cup {r})
        /\ Cardinality(Excused') \in Nat
    BY <2>1, <2>2, FS_Subset, FS_CardinalityType
  <2>. QED
    BY <1>0, <1>6, <2>1, <2>2, <2>3, ExcusedIsFinite, Numbers DEF ExcusesCostFaults
<1>. QED
  BY <1>2, <1>3, <1>4, <1>5, <1>6, IncrOrFail DEF RateLimitNext, Unanswered
-----------------------------------------------------------------------------
(* Types.  That a count stays below the number of requests is what the     *)
(* part about counting says. *)

Counter == [n : 1 .. Cardinality(Request), expires : 0 .. Never]

CountersTyped ==
  /\ \E K \in SUBSET Key : counters \in [K -> Counter]
  /\ \A k \in DOMAIN counters : counters[k].expires > now

RequestsTyped ==
  /\ now \in 0 .. MaxNow
  /\ pc \in [Request -> {"new", "keyed", "counted", "timed", "passed", "refused", "lost"}]
  /\ call \in [Request -> Calls]
  /\ bucket \in [Request -> 0 .. MaxNow]
  /\ count \in [Request -> 0 .. Cardinality(Request)]
  /\ late \in [Request -> BOOLEAN]
  /\ life \in [Request -> 0 .. restarts]
  /\ faults \in 0 .. MaxFaults
  /\ restarts \in 0 .. MaxFaults

LEMMA TypeParts == /\ RateLimitTypeOK <=> RequestsTyped /\ CountersTyped
                   /\ RateLimitTypeOK' <=> RequestsTyped' /\ CountersTyped'
<1>1. RateLimitTypeOK <=> RequestsTyped /\ CountersTyped
  BY DEF RateLimitTypeOK, RequestsTyped, CountersTyped, Counter
<1>2. RateLimitTypeOK' <=> RequestsTyped' /\ CountersTyped'
  BY DEF RateLimitTypeOK, RequestsTyped, CountersTyped, Counter
<1>. QED
  BY <1>1, <1>2

(* INCR's number is a number of requests. *)
LEMMA IncrIsBounded ==
  ASSUME RateLimitInv, NEW r \in Request, NEW k, NEW n, Increments(r, k, n), CountingInv'
  PROVE  n \in 1 .. Cardinality(Request)
<1>1. /\ k \in DOMAIN counters' /\ counters'[k].n = n
      /\ n \in Nat \ {0}
  BY DEF Increments
<1>2. n <= Cardinality(CountedUnder(k)')
  BY <1>1 DEF CountingInv, CountersCount
<1>3. CountedUnder(k)' \subseteq Request
  BY DEF CountedUnder
<1>4. /\ Cardinality(CountedUnder(k)') <= Cardinality(Request)
      /\ Cardinality(CountedUnder(k)') \in Nat /\ Cardinality(Request) \in Nat
  BY <1>3, RateLimitAssumption, FS_Subset, FS_CardinalityType
<1>. QED
  BY <1>1, <1>2, <1>4

LEMMA RequestsStayTyped ==
  ASSUME RateLimitInv, [RateLimitNext]_rateLimitVars
  PROVE  RequestsTyped'
<1>0. RequestsTyped
  BY TypeParts DEF RateLimitInv
<1>1. CASE UNCHANGED rateLimitVars
  BY <1>0, <1>1 DEF rateLimitVars, RequestsTyped
<1>2. ASSUME NEW r \in Request, Arrive(r) PROVE RequestsTyped'
  <2>1. PICK b : b = now \div Window
    OBVIOUS
  <2>2. b \in 0 .. MaxNow
    BY <1>0, <2>1, WindowOfMoment, RateLimitAssumption DEF RequestsTyped
  <2>. QED
    BY <1>0, <1>2, <2>1, <2>2 DEF Arrive, Step, RequestsTyped
<1>3. ASSUME NEW r \in Request, Counting(r), NEW to \in {"counted", "passed"},
             Step(r, "keyed", to), faults' \in 0 .. MaxFaults
      PROVE  RequestsTyped'
  <2>1. PICK k, n : Increments(r, k, n)
    BY <1>3, IncrCounts DEF RateLimitInv
  <2>2. n \in 0 .. Cardinality(Request)
    BY <1>3, <2>1, IncrIsBounded, IncrKeepsCounting, RateLimitAssumption, FS_CardinalityType
  <2>3. restarts \in 0 .. restarts
    BY <1>0, RateLimitAssumption DEF RequestsTyped
  <2>. QED
    BY <1>0, <1>3, <2>1, <2>2, <2>3 DEF Increments, Step, RequestsTyped
<1>4. ASSUME NEW r \in Request, Expire(r) \/ Decide(r) PROVE RequestsTyped'
  BY <1>0, <1>4 DEF Expire, Decide, Step, RequestsTyped
<1>5. MayFail => faults + 1 \in 0 .. MaxFaults /\ restarts + 1 \in 0 .. MaxFaults
  BY <1>0, RateLimitAssumption DEF MayFail, RequestsTyped
<1>6. ASSUME NEW r \in Request, Unanswered(r) \/ Crash(r) PROVE RequestsTyped'
  BY <1>0, <1>5, <1>6 DEF Unanswered, Crash, Step, RequestsTyped
<1>7. CASE TimePasses
  BY <1>0, <1>7, RateLimitAssumption DEF TimePasses, RequestsTyped
<1>8. CASE RedisRestarts
  <2>1. restarts' = restarts + 1 /\ MayFail
        /\ UNCHANGED <<now, pc, call, bucket, count, late, life, faults>>
    BY <1>8 DEF RedisRestarts
  <2>2. life' \in [Request -> 0 .. restarts']
    BY <1>0, <2>1, RateLimitAssumption DEF RequestsTyped
  <2>. QED
    BY <1>0, <1>5, <2>1, <2>2 DEF RequestsTyped
<1>9. faults \in 0 .. MaxFaults
  BY <1>0 DEF RequestsTyped
<1>. QED
  BY <1>1, <1>2, <1>3, <1>4, <1>5, <1>6, <1>7, <1>8, <1>9, IncrOrFail DEF RateLimitNext

LEMMA CountersStayTyped ==
  ASSUME RateLimitInv, [RateLimitNext]_rateLimitVars
  PROVE  CountersTyped'
<1>0. PICK K \in SUBSET Key : counters \in [K -> Counter]
  BY TypeParts DEF RateLimitInv, CountersTyped
<1>1. DOMAIN counters = K /\ \A k \in DOMAIN counters : counters[k].expires > now
  BY <1>0, TypeParts DEF RateLimitInv, CountersTyped
<1>2. CASE UNCHANGED <<now, counters>>
  BY <1>0, <1>1, <1>2 DEF CountersTyped, Counter, Never
<1>3. ASSUME NEW r \in Request, Counting(r) PROVE CountersTyped'
  <2>1. PICK k, n : Increments(r, k, n)
    BY <1>3, IncrCounts
  <2>2. n \in 1 .. Cardinality(Request) /\ k = KeyOf(r) /\ k \in Key
    <3>1. RateLimitTypeOK /\ k = KeyOf(r)
      BY <2>1 DEF Increments, RateLimitInv
    <3>. QED
      BY <1>3, <2>1, <3>1, IncrIsBounded, IncrKeepsCounting, KeysAreTyped
  <2>3. PICK e : e = IF k \in DOMAIN counters THEN counters[k].expires ELSE Never
    OBVIOUS
  <2>4. e \in 0 .. Never /\ e > now
    BY <1>0, <1>1, <2>3, Numbers DEF Counter, RateLimitInv
  <2>5. /\ counters' = [j \in K \cup {k} |->
                          IF j = k THEN [n |-> n, expires |-> e] ELSE counters[j]]
        /\ now' = now
    BY <1>1, <1>3, <2>1, <2>2, <2>3 DEF Counting, CountIn, Increments
  <2>6. counters' \in [K \cup {k} -> Counter] /\ K \cup {k} \in SUBSET Key
    BY <1>0, <2>2, <2>4, <2>5 DEF Counter
  <2>7. \A j \in DOMAIN counters' : counters'[j].expires > now'
    BY <1>1, <2>4, <2>5
  <2>. QED
    BY <2>6, <2>7 DEF CountersTyped, Counter, Never
<1>4. ASSUME NEW r \in Request, Expire(r) PROVE CountersTyped'
  <2>1. PICK k : k = KeyOf(r)
    OBVIOUS
  <2>2. now' = now
    BY <1>4 DEF Expire
  <2>3. CASE counters' = counters
    BY <1>2, <2>2, <2>3
  <2>4. CASE k \in DOMAIN counters /\ counters' = [counters EXCEPT ![k].expires = now + Window]
    <3>1. now + Window \in 0 .. Never /\ now + Window > now
      <4>1. now <= MaxNow /\ now \in Nat
        BY RateLimitAssumption DEF RateLimitInv, RateLimitTypeOK
      <4>. QED
        BY <4>1, Numbers DEF Never, RateLimitInv
    <3>2. counters' \in [K -> Counter]
      BY <1>0, <2>4, <3>1 DEF Counter
    <3>3. \A j \in DOMAIN counters' : counters'[j].expires > now'
      BY <1>0, <1>1, <2>2, <2>4, <3>1 DEF Counter
    <3>. QED
      BY <3>2, <3>3 DEF CountersTyped, Counter, Never
  <2>. QED
    BY <1>4, <2>1, <2>3, <2>4 DEF Expire, Ttl
<1>5. CASE TimePasses
  <2>1. PICK J \in SUBSET K : J = {k \in K : counters[k].expires > now + 1}
    OBVIOUS
  <2>2. counters' = [k \in J |-> counters[k]] /\ now' = now + 1
    BY <1>1, <1>5, <2>1 DEF TimePasses, Restrict
  <2>3. counters' \in [J -> Counter] /\ J \in SUBSET Key
    BY <1>0, <2>1, <2>2
  <2>4. \A k \in DOMAIN counters' : counters'[k].expires > now'
    BY <2>1, <2>2
  <2>. QED
    BY <2>3, <2>4 DEF CountersTyped, Counter, Never
<1>6. CASE RedisRestarts
  <2>0. PICK J \in SUBSET DOMAIN counters :
          \E old \in [J -> 1 .. Cardinality(Request)], timed \in SUBSET J :
            counters' = [k \in J |->
               [n |-> old[k], expires |-> IF k \in timed THEN counters[k].expires ELSE Never]]
    BY <1>6 DEF RedisRestarts
  <2>1. PICK old \in [J -> 1 .. Cardinality(Request)], timed \in SUBSET J :
          counters' = [k \in J |->
             [n |-> old[k], expires |-> IF k \in timed THEN counters[k].expires ELSE Never]]
    BY <2>0
  <2>2. now' = now /\ now \in Nat /\ Never \in Nat /\ now < Never
    BY <1>6, Numbers DEF RedisRestarts, RateLimitInv
  <2>3. \A k \in J : /\ (IF k \in timed THEN counters[k].expires ELSE Never) \in 0 .. Never
                    /\ (IF k \in timed THEN counters[k].expires ELSE Never) > now
    BY <1>0, <1>1, <2>2 DEF Counter
  <2>4. counters' \in [J -> Counter] /\ J \in SUBSET Key
    BY <1>0, <2>1, <2>3 DEF Counter
  <2>5. \A k \in DOMAIN counters' : counters'[k].expires > now'
    BY <2>1, <2>2, <2>3
  <2>. QED
    BY <2>4, <2>5 DEF CountersTyped, Counter, Never
<1>. QED
  BY <1>2, <1>3, <1>4, <1>5, <1>6, IncrOrFail
  DEF RateLimitNext, rateLimitVars, Arrive, Decide, Unanswered, Crash

LEMMA RateLimitInvKept ==
  ASSUME RateLimitInv, [RateLimitNext]_rateLimitVars
  PROVE  RateLimitInv'
<1>1. RateLimitTypeOK'
  BY RequestsStayTyped, CountersStayTyped, TypeParts
<1>. QED
  BY <1>1, OrderKept, NextKeepsCounting, ExcusesKept DEF RateLimitInv, CountingInv

(* The inductive invariant holds of RateLimitMiddleware at every moment.   *)
THEOREM RateLimitInvariant == RateLimitSpec => []RateLimitInv
<1>1. RateLimitInit => RateLimitInv
  BY RateLimitInvInit
<1>2. RateLimitInv /\ [RateLimitNext]_rateLimitVars => RateLimitInv'
  BY RateLimitInvKept
<1>. QED
  BY <1>1, <1>2, PTL DEF RateLimitSpec

(* What the middleware keeps in Redis, and what a request remembers, stays *)
(* in its type: a count above all, which never exceeds the requests.       *)
THEOREM RateLimitIsTyped == RateLimitSpec => []RateLimitTypeOK
<1>1. RateLimitInv => RateLimitTypeOK
  BY DEF RateLimitInv
<1>. QED
  BY <1>1, RateLimitInvariant, PTL

-----------------------------------------------------------------------------
(* How many pass, and who is refused. *)

(* Requests counted with r are counted under r's key. *)
LEMMA CountedTogether ==
  ASSUME NEW r \in Request
  PROVE  Counted(r) = CountedUnder(KeyOf(r))
BY DEF Counted, CountedUnder, KeyOf

(* Of the requests that INCR counted in time with a number up to the limit *)
(* there are no more than the limit for each life of Redis: in one life    *)
(* their numbers differ.                                                   *)
LEMMA NumbersTellThemApart ==
  ASSUME RateLimitInv, NEW r \in Request,
         NEW S, S = {q \in Counted(r) : count[q] <= Limit /\ ~ late[q]}
  PROVE  /\ IsFiniteSet(S) /\ Cardinality(S) \in Nat
         /\ Cardinality(S) <= Limit * (1 + restarts)
<1>1. S \subseteq Request
  BY DEF Counted
<1>2. IsFiniteSet(S) /\ Cardinality(S) \in Nat
  BY <1>1, RateLimitAssumption, FS_Subset, FS_CardinalityType
<1>. DEFINE T == (1 .. Limit) \X (0 .. restarts)
            tag == [q \in S |-> <<count[q], life[q]>>]
<1>3. \A p, q \in S : count[p] = count[q] /\ life[p] = life[q] => p = q
  BY DEF Counted, KeyOf, RateLimitInv, CountsAreUnique
<1>4. \A q \in S : count[q] \in 1 .. Limit /\ life[q] \in 0 .. restarts
  BY Numbers DEF Counted, RateLimitInv
<1>5. tag \in [S -> T]
  BY <1>4
<1>6. IsInjective(tag)
  BY <1>3 DEF IsInjective
<1>7. tag \in Injection(S, T)
  BY <1>5, <1>6 DEF Injection
<1>8. IsFiniteSet(T) /\ Cardinality(T) = Limit * (1 + restarts)
  <2>1. Limit \in Nat /\ restarts \in Nat
    BY Numbers DEF RateLimitInv
  <2>2. IsFiniteSet(1 .. Limit) /\ Cardinality(1 .. Limit) = Limit
    <3>1. 1 \in Int /\ Limit \in Int /\ ~ (1 > Limit) /\ Limit - 1 + 1 = Limit
      BY RateLimitAssumption
    <3>. QED
      BY <3>1, FS_Interval
  <2>3. IsFiniteSet(0 .. restarts) /\ Cardinality(0 .. restarts) = 1 + restarts
    <3>1. 0 \in Int /\ restarts \in Int /\ ~ (0 > restarts) /\ restarts - 0 + 1 = 1 + restarts
      BY <2>1
    <3>. QED
      BY <3>1, FS_Interval
  <2>4. IsFiniteSet(T) /\ Cardinality(T) = Cardinality(1 .. Limit) * Cardinality(0 .. restarts)
    BY <2>2, <2>3, FS_Product, Zenon
  <2>. QED
    BY <2>2, <2>3, <2>4
<1>. HIDE DEF T, tag
<1>. QED
  BY <1>2, <1>7, <1>8, FS_Injection

(* The middleware lets no more than Limit requests of one key through in   *)
(* one window, but for one more with each command that Redis left          *)
(* unanswered and Limit more with each restart in which Redis lost its     *)
(* counters: whatever the order in which the processes of the four         *)
(* services count and decide.                                              *)
THEOREM NoMoreThanLimitPass == RateLimitSpec => []AtMostLimitPass
<1>1. RateLimitInv => AtMostLimitPass
  <2>. SUFFICES ASSUME RateLimitInv, NEW r \in Request
                PROVE  Cardinality({q \in Counted(r) : pc[q] = "passed" /\ ~ late[q]})
                         <= Limit * (1 + restarts) + faults
    BY DEF AtMostLimitPass
  <2>1. PICK P : P = {q \in Counted(r) : pc[q] = "passed" /\ ~ late[q]}
    OBVIOUS
  <2>2. PICK S : S = {q \in Counted(r) : count[q] <= Limit /\ ~ late[q]}
    OBVIOUS
  <2>3. PICK most \in Nat : most = Limit * (1 + restarts)
    BY Numbers DEF RateLimitInv
  <2>4. /\ IsFiniteSet(S) /\ Cardinality(S) \in Nat /\ Cardinality(S) <= most
    BY <2>2, <2>3, NumbersTellThemApart
  <2>5. P \subseteq S \cup Excused
    BY <2>1, <2>2, Numbers DEF Counted, Excused, RateLimitInv
  <2>6. /\ IsFiniteSet(S \cup Excused)
        /\ Cardinality(S \cup Excused)
             = Cardinality(S) + Cardinality(Excused) - Cardinality(S \cap Excused)
        /\ Cardinality(S \cap Excused) \in Nat
    <3>1. IsFiniteSet(S \cap Excused)
      BY <2>4, FS_Intersection
    <3>. QED
      BY <2>4, <3>1, ExcusedIsFinite, FS_Union, FS_CardinalityType
  <2>7. Cardinality(P) \in Nat /\ Cardinality(P) <= Cardinality(S \cup Excused)
    BY <2>5, <2>6, FS_Subset, FS_CardinalityType
  <2>8. Cardinality(P) <= most + faults
    BY <2>4, <2>6, <2>7, ExcusedIsFinite, Numbers DEF RateLimitInv, ExcusesCostFaults
  <2>. QED
    BY <2>1, <2>3, <2>8
<1>. QED
  BY <1>1, RateLimitInvariant, PTL

(* The middleware answers 429 only to a request whose key was used by      *)
(* Limit others in that same window: no crash between INCR and EXPIRE, and *)
(* no key that stays in Redis without TTL, ever costs a later request.     *)
THEOREM OnlyExcessIsRefused == RateLimitSpec => []RefusedOnlyOverLimit
<1>1. RateLimitInv => RefusedOnlyOverLimit
  <2>. SUFFICES ASSUME RateLimitInv, NEW r \in Request, pc[r] = "refused"
                PROVE  Cardinality(Counted(r) \ {r}) >= Limit
    BY DEF RefusedOnlyOverLimit
  <2>1. count[r] > Limit /\ count[r] \in Nat /\ Limit \in Nat \ {0}
    BY Numbers DEF RateLimitInv, RequestsInOrder
  <2>2. PICK C : C = Counted(r)
    OBVIOUS
  <2>3. C = CountedUnder(KeyOf(r)) /\ r \in C
    BY <2>1, <2>2, CountedTogether DEF Counted
  <2>4. IsFiniteSet(C) /\ Cardinality(C) \in Nat /\ count[r] <= Cardinality(C)
    BY <2>1, <2>3, CountedIsFinite DEF RateLimitInv, CountersCount
  <2>5. Cardinality(C \ {r}) = Cardinality(C) - 1
    BY <2>3, <2>4, FS_RemoveElement
  <2>. QED
    BY <2>1, <2>2, <2>4, <2>5
<1>. QED
  BY <1>1, RateLimitInvariant, PTL
=============================================================================
