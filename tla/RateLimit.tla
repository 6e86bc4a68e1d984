----------------------------- MODULE RateLimit -----------------------------
(***************************************************************************)
(* RateLimitMiddleware (shared/cache/redis_client.py): the fixed-window    *)
(* counters that auth, tenant, projects and issues share in one Redis.     *)
(* The services are processes of their own, so that other requests and the *)
(* clock move between reading the time, INCR, EXPIRE and the decision.     *)
(*                                                                         *)
(* A request is known by its sender and by what its bearer token says:     *)
(* a tenant, a user, or nothing ("anonymous": no token, or one that does   *)
(* not decode).  All clients come through the gateway, and no service is   *)
(* told to trust its forwarding headers, so that the peer address of every *)
(* client is the gateway's; the lookup that auth-service makes for a login *)
(* comes from auth-service itself.  Health probes are exempt and left out. *)
(*                                                                         *)
(* docker-compose gives Redis no volume and no append-only file, so that a *)
(* restart takes counters away or sets them back to a snapshot.            *)
(***************************************************************************)
EXTENDS Naturals, FiniteSets, Functions

CONSTANTS
  Request,
  Client,     \* who sends requests, each from an address of its own
  Tenant,
  Calls,      \* the requests there may be
  Limit,      \* RATE_LIMIT_PER_MINUTE
  Window,     \* the 60 of the code, in seconds
  MaxNow,     \* bound: the last second
  MaxFaults   \* bound: crashes, unanswered commands and restarts of Redis

Call == [client : Client, token : {"tenant", "user", "anonymous"}, tenant : Tenant,
         via : {"gateway", "auth"}]

ASSUME RateLimitAssumption ==
  /\ IsFiniteSet(Request)
  /\ Calls \subseteq Call
  /\ Limit \in Nat \ {0}
  /\ Window \in Nat \ {0}
  /\ MaxNow \in Nat
  /\ MaxFaults \in Nat

VARIABLES
  now,
  counters,  \* the keys in Redis, each with its count and when it expires
  pc,        \* progress of each request
  call,
  bucket,    \* the window it belongs to
  count,     \* what INCR made of its counter
  late,      \* (history) the window was over when INCR came
  life,      \* (history) how often Redis had restarted when INCR came
  faults,    \* crashes and unanswered commands
  restarts   \* restarts of Redis

rateLimitVars == <<now, counters, pc, call, bucket, count, late, life, faults, restarts>>

Never == MaxNow + Window + 1   \* a key without TTL

Key == ({"tenant"} \X Tenant \cup {"user"} \X Client \cup {"ip"} \X {"gateway", "auth"})
       \X (0 .. MaxNow)

RateLimitTypeOK ==
  /\ now \in 0 .. MaxNow
  /\ \E K \in SUBSET Key : counters \in [K -> [n : 1 .. Cardinality(Request), expires : 0 .. Never]]
  /\ pc \in [Request -> {"new", "keyed", "counted", "timed", "passed", "refused", "lost"}]
  /\ call \in [Request -> Calls]
  /\ bucket \in [Request -> 0 .. MaxNow]
  /\ count \in [Request -> 0 .. Cardinality(Request)]
  /\ late \in [Request -> BOOLEAN]
  /\ life \in [Request -> 0 .. restarts]
  /\ faults \in 0 .. MaxFaults
  /\ restarts \in 0 .. MaxFaults
  /\ \A k \in DOMAIN counters : counters[k].expires > now

RateLimitInit ==
  /\ now = 0
  /\ counters = <<>>
  /\ pc = [r \in Request |-> "new"]
  /\ call \in [Request -> Calls]
  /\ bucket = [r \in Request |-> 0]
  /\ count = [r \in Request |-> 0]
  /\ late = [r \in Request |-> FALSE]
  /\ life = [r \in Request |-> 0]
  /\ faults = 0
  /\ restarts = 0

-----------------------------------------------------------------------------
(* _rate_limit_key: the tenant, else the user, else the peer's address. *)
RateLimitKey(q) ==
  CASE q.token = "tenant" -> <<"tenant", q.tenant>>
    [] q.token = "user" -> <<"user", q.client>>
    [] q.token = "anonymous" -> <<"ip", q.via>>

WithoutBucket(r) == <<RateLimitKey(call[r]), 0>>   \* mutant: one key for all windows

KeyOf(r) == <<RateLimitKey(call[r]), bucket[r]>>

Step(r, from, to) == pc[r] = from /\ pc' = [pc EXCEPT ![r] = to]

(* The request arrives: bucket = int(time.time() // 60). *)
Arrive(r) ==
  /\ Step(r, "new", "keyed")
  /\ bucket' = [bucket EXCEPT ![r] = now \div Window]
  /\ UNCHANGED <<now, counters, call, count, late, life, faults, restarts>>

(* INCR: a key that is not there starts at 1, without TTL. *)
CountIn(r) ==
  LET k == KeyOf(r)
      n == IF k \in DOMAIN counters THEN counters[k].n + 1 ELSE 1
      expires == IF k \in DOMAIN counters THEN counters[k].expires ELSE Never
  IN  /\ counters' = [j \in DOMAIN counters \cup {k} |->
                        IF j = k THEN [n |-> n, expires |-> expires] ELSE counters[j]]
      /\ count' = [count EXCEPT ![r] = n]
      /\ late' = [late EXCEPT ![r] = now \div Window # bucket[r]]
      /\ life' = [life EXCEPT ![r] = restarts]

Incr(r) ==
  /\ Step(r, "keyed", "counted")
  /\ CountIn(r)
  /\ UNCHANGED <<now, call, bucket, faults, restarts>>

(* EXPIRE, for the request that created the key.  It may find it gone. *)
HalfTtl == Window \div 2   \* mutant: EXPIRE 30

Ttl == Window

ExpireAtBucket(r) ==   \* mutant: EXPIREAT the window's start, not its end
  LET k == KeyOf(r)
  IN  /\ Step(r, "counted", "timed")
      /\ counters' = IF count[r] = 1 /\ k \in DOMAIN counters
                       THEN [counters EXCEPT ![k].expires = bucket[r] * Window]
                       ELSE counters
      /\ UNCHANGED <<now, call, bucket, count, late, life, faults, restarts>>

Expire(r) ==
  LET k == KeyOf(r)
  IN  /\ Step(r, "counted", "timed")
      /\ counters' = IF count[r] = 1 /\ k \in DOMAIN counters
                       THEN [counters EXCEPT ![k].expires = now + Ttl]
                       ELSE counters
      /\ UNCHANGED <<now, call, bucket, count, late, life, faults, restarts>>

Exceeded(r) == count[r] > Limit

Decide(r) ==
  /\ Step(r, "timed", IF Exceeded(r) THEN "refused" ELSE "passed")
  /\ UNCHANGED <<now, counters, call, bucket, count, late, life, faults, restarts>>

-----------------------------------------------------------------------------
(* Failures. *)

MayFail == faults + restarts < MaxFaults

(* Redis does not answer INCR or EXPIRE, and the request passes; the INCR  *)
(* whose answer was lost has counted it all the same.                      *)
FailOpen(r) ==
  /\ MayFail
  /\ faults' = faults + 1
  /\ \/ /\ \E from \in {"keyed", "counted"} : Step(r, from, "passed")
        /\ UNCHANGED <<counters, count, late, life>>
     \/ Step(r, "keyed", "passed") /\ CountIn(r)
  /\ UNCHANGED <<now, call, bucket, restarts>>

(* The service process dies, perhaps between INCR and EXPIRE. *)
Crash(r) ==
  /\ MayFail
  /\ \E from \in {"keyed", "counted", "timed"} : Step(r, from, "lost")
  /\ faults' = faults + 1
  /\ UNCHANGED <<now, counters, call, bucket, count, late, life, restarts>>

(* Redis restarts: of the counters in K it still has an older number, with *)
(* or without TTL, and it has lost the others.                             *)
RedisRestarts ==
  /\ MayFail
  /\ restarts' = restarts + 1
  /\ \E K \in SUBSET DOMAIN counters :
       \E old \in [K -> 1 .. Cardinality(Request)], timed \in SUBSET K :
         /\ \A k \in K : old[k] <= counters[k].n
         /\ counters' = [k \in K |->
              [n |-> old[k], expires |-> IF k \in timed THEN counters[k].expires ELSE Never]]
  /\ UNCHANGED <<now, pc, call, bucket, count, late, life, faults>>

TimePasses ==
  /\ now < MaxNow
  /\ now' = now + 1
  /\ counters' = Restrict(counters, {k \in DOMAIN counters : counters[k].expires > now + 1})
  /\ UNCHANGED <<pc, call, bucket, count, late, life, faults, restarts>>

RateLimitNext ==
  \/ \E r \in Request :
       Arrive(r) \/ Incr(r) \/ Expire(r) \/ Decide(r) \/ FailOpen(r) \/ Crash(r)
  \/ RedisRestarts
  \/ TimePasses

RateLimitSpec == RateLimitInit /\ [][RateLimitNext]_rateLimitVars

-----------------------------------------------------------------------------
(* Whom the code counts together with r in r's window. *)
Counted(r) == {q \in Request :
  /\ count[q] > 0
  /\ RateLimitKey(call[q]) = RateLimitKey(call[r])
  /\ bucket[q] = bucket[r]}

(* No more than Limit requests of one key pass in one window, however many *)
(* processes count at once, but for one with each command that Redis left  *)
(* unanswered and Limit more with each restart of Redis: only a restart    *)
(* makes a counter begin again inside its window.  Those whose INCR came   *)
(* after the end of their window are not counted.                          *)
AtMostLimitPass ==
  \A r \in Request :
    Cardinality({q \in Counted(r) : pc[q] = "passed" /\ ~ late[q]})
      <= Limit * (1 + restarts) + faults

(* A request is refused only when Limit others of its key were counted in  *)
(* its own window: what an earlier window used up, or a key that a crash   *)
(* or a restart left without TTL, refuses nobody later.                    *)
RefusedOnlyOverLimit ==
  \A r \in Request : pc[r] = "refused" => Cardinality(Counted(r) \ {r}) >= Limit
=============================================================================
