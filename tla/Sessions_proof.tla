--------------------------- MODULE Sessions_proof ---------------------------
(***************************************************************************)
(* A token that was logged out stays refused until its last two seconds,   *)
(* for any number of requests, tokens and users, any lifetime, and any     *)
(* resolution of the clock.                                                *)
(***************************************************************************)
EXTENDS Sessions, TLAPS

(* The tick x lies beyond the last second before the one token t expires   *)
(* in.                                                                     *)
Covers(x, t) == x > (tokens[t].exp - 1) * Tick

(* Token t is blocked as long as the code can block it. *)
Revoked(t) == LastSecondOf(t) \/ (t \in DOMAIN blocklist /\ Covers(blocklist[t], t))

RequestInv(r) ==
  /\ pc[r] \in {"decoded", "passed", "revoking"} => call[r].token \in DOMAIN tokens
  /\ answer[r] # "none" => pc[r] = "answered"
  /\ \A q \in before[r] : pc[q] = "answered"
  /\ pc[r] = "revoking" => Covers(now + ttl[r] * Tick, call[r].token)
  /\ faults = 0 /\ call[r].op = "logout" /\ answer[r] = "ok" =>
       call[r].token \in DOMAIN tokens /\ Revoked(call[r].token)

(* No token outlives the lifetime of one minted now. *)
ExpiryBounded == \A t \in DOMAIN tokens : tokens[t].exp * Tick <= now + Lifetime * Tick

SessionsInv ==
  /\ SessionsTypeOK
  /\ ExpiryBounded
  /\ \A r \in Request : RequestInv(r)
  /\ faults = 0 => redis = "up"

-----------------------------------------------------------------------------
(* Seconds and ticks. *)

LEMMA Seconds ==
  ASSUME NEW a \in Int
  PROVE  /\ a \div Tick \in Int
         /\ (a \div Tick) * Tick <= a
         /\ a < (a \div Tick) * Tick + Tick
BY SessionsAssumption

LEMMA NatSeconds ==
  ASSUME NEW a \in Nat
  PROVE  a \div Tick \in Nat
BY SessionsAssumption

LEMMA NatTicks ==
  ASSUME NEW a \in Nat
  PROVE  a * Tick \in Nat
BY SessionsAssumption

LEMMA LessTicks ==
  ASSUME NEW a \in Int, NEW b \in Int, a * Tick <= b * Tick
  PROVE  a <= b
BY SessionsAssumption

LEMMA SecondBefore ==
  ASSUME NEW a \in Int
  PROVE  (a - 1) * Tick = a * Tick - Tick
BY SessionsAssumption

(* Tokens and keys. *)
LEMMA TokenTypes ==
  ASSUME SessionsTypeOK
  PROVE  /\ DOMAIN tokens \subseteq Token
         /\ \A t \in DOMAIN tokens : tokens[t] \in [user : User, exp : Nat] /\ tokens[t].exp \in Nat
         /\ DOMAIN blocklist \subseteq DOMAIN tokens
         /\ \A t \in DOMAIN blocklist : blocklist[t] \in Nat
<1>1. PICK T \in SUBSET Token : tokens \in [T -> [user : User, exp : Nat]]
  BY DEF SessionsTypeOK
<1>2. PICK B \in SUBSET DOMAIN tokens : blocklist \in [B -> Nat]
  BY DEF SessionsTypeOK
<1>. QED
  BY <1>1, <1>2

LEMMA CoversMore ==
  ASSUME SessionsTypeOK, NEW t \in DOMAIN tokens, NEW x \in Int, NEW y \in Int, x <= y,
         Covers(x, t)
  PROVE  Covers(y, t)
<1>1. (tokens[t].exp - 1) * Tick \in Int
  BY TokenTypes, SessionsAssumption
<1>. QED
  BY <1>1 DEF Covers

-----------------------------------------------------------------------------
(* What goes on around a request that stands still. *)
WorldMoves ==
  /\ \A t \in DOMAIN tokens : t \in DOMAIN tokens' /\ tokens'[t] = tokens[t]
  /\ now' \in Nat /\ now <= now'
  /\ faults' = 0 =>
       faults = 0 /\ \A t \in DOMAIN tokens : Revoked(t) => Revoked(t)'
  /\ \A q \in Request : pc[q] = "answered" => pc'[q] = "answered"

LEMMA StandsStill ==
  ASSUME SessionsInv, WorldMoves, NEW r \in Request,
         pc'[r] = pc[r], call'[r] = call[r], ttl'[r] = ttl[r], answer'[r] = answer[r],
         before'[r] = before[r]
  PROVE  RequestInv(r)'
<1>. USE DEF SessionsInv
<1>0. RequestInv(r) /\ SessionsTypeOK
  OBVIOUS
<1>1. \A q \in before[r] : pc'[q] = "answered"
  BY <1>0 DEF RequestInv, WorldMoves, SessionsTypeOK
<1>2. ASSUME pc[r] = "revoking" PROVE Covers(now + ttl[r] * Tick, call[r].token)'
  <2>1. call[r].token \in DOMAIN tokens /\ Covers(now + ttl[r] * Tick, call[r].token)
    BY <1>0, <1>2 DEF RequestInv
  <2>2. ttl[r] * Tick \in Nat /\ now \in Nat
    BY <1>0, NatTicks, SessionsAssumption DEF SessionsTypeOK
  <2>3. now + ttl[r] * Tick <= now' + ttl[r] * Tick
    BY <2>2 DEF WorldMoves
  <2>4. Covers(now' + ttl[r] * Tick, call[r].token)
    BY <1>0, <2>1, <2>2, <2>3, CoversMore DEF WorldMoves
  <2>. QED
    BY <2>1, <2>4 DEF Covers, WorldMoves
<1>3. ASSUME faults' = 0, call[r].op = "logout", answer[r] = "ok"
      PROVE  call[r].token \in DOMAIN tokens' /\ Revoked(call[r].token)'
  <2>1. PICK t \in DOMAIN tokens : t = call[r].token /\ Revoked(t)
    BY <1>0, <1>3 DEF RequestInv, WorldMoves
  <2>2. Revoked(t)' /\ t \in DOMAIN tokens'
    BY <1>3, <2>1 DEF WorldMoves
  <2>. QED
    BY <2>1, <2>2 DEF Revoked, Covers, LastSecondOf
<1>4. pc[r] \in {"decoded", "passed", "revoking"} => call[r].token \in DOMAIN tokens'
  BY <1>0 DEF RequestInv, WorldMoves
<1>. QED
  BY <1>0, <1>1, <1>2, <1>3, <1>4 DEF RequestInv

(* The invariant, if one request moves with its own part kept and the      *)
(* others stand still.                                                     *)
LEMMA OneMoves ==
  ASSUME SessionsInv, WorldMoves, SessionsTypeOK', ExpiryBounded',
         faults' = 0 => redis' = "up", NEW r \in Request, RequestInv(r)',
         \A q \in Request : q # r =>
           /\ pc'[q] = pc[q] /\ call'[q] = call[q] /\ ttl'[q] = ttl[q]
           /\ answer'[q] = answer[q] /\ before'[q] = before[q]
  PROVE  SessionsInv'
BY StandsStill DEF SessionsInv

(* The invariant, if none moves. *)
LEMMA NoneMoves ==
  ASSUME SessionsInv, WorldMoves, SessionsTypeOK', ExpiryBounded',
         faults' = 0 => redis' = "up", UNCHANGED <<pc, call, ttl, answer, before>>
  PROVE  SessionsInv'
BY StandsStill DEF SessionsInv

(* A step of a request that leaves the rest of the world as it is. *)
LEMMA QuietWorld ==
  ASSUME SessionsInv, UNCHANGED <<now, tokens, blocklist, redis, faults>>, NEW r \in Request,
         pc[r] # "answered", \A q \in Request : q # r => pc'[q] = pc[q]
  PROVE  WorldMoves /\ ExpiryBounded' /\ (faults' = 0 => redis' = "up")
BY DEF SessionsInv, SessionsTypeOK, WorldMoves, ExpiryBounded, Revoked, Covers, LastSecondOf

-----------------------------------------------------------------------------
(* Each action keeps the invariant. *)

LEMMA MintKeeps ==
  ASSUME SessionsInv, CreateAccessToken
  PROVE  SessionsInv'
<1>. USE DEF SessionsInv
<1>1. PICK t \in Token \ DOMAIN tokens, u \in User :
        tokens' = Put(tokens, t, [user |-> u, exp |-> Second(now) + Lifetime])
  BY DEF CreateAccessToken
<1>2. UNCHANGED <<now, blocklist, redis, pc, call, ttl, answer, faults, before>>
  BY DEF CreateAccessToken
<1>. DEFINE e == Second(now) + Lifetime
<1>3. now \in Nat /\ e \in Nat /\ e * Tick <= now + Lifetime * Tick
  <2>1. now \in Nat
    BY SessionsAssumption DEF SessionsTypeOK
  <2>2. Second(now) \in Nat /\ Second(now) * Tick <= now
    BY <2>1, Seconds, NatSeconds DEF Second
  <2>3. (Second(now) + Lifetime) * Tick = Second(now) * Tick + Lifetime * Tick
    BY <2>2, SessionsAssumption
  <2>4. Second(now) * Tick \in Nat /\ Lifetime * Tick \in Nat
    BY <2>2, NatTicks, SessionsAssumption
  <2>. QED
    BY <2>1, <2>2, <2>3, <2>4, SessionsAssumption
<1>4. /\ DOMAIN tokens' = DOMAIN tokens \cup {t}
      /\ \A k \in DOMAIN tokens : tokens'[k] = tokens[k]
      /\ tokens'[t] = [user |-> u, exp |-> e]
  BY <1>1 DEF Put
<1>5. SessionsTypeOK'
  <2>1. DOMAIN tokens' \in SUBSET Token
    BY <1>4, TokenTypes
  <2>2. \A k \in DOMAIN tokens' : tokens'[k] \in [user : User, exp : Nat]
    BY <1>3, <1>4, TokenTypes
  <2>3. tokens' = [k \in DOMAIN tokens' |-> tokens'[k]]
    BY <1>1, <1>4 DEF Put
  <2>4. tokens' \in [DOMAIN tokens' -> [user : User, exp : Nat]]
    BY <2>2, <2>3
  <2>5. PICK B \in SUBSET DOMAIN tokens : blocklist \in [B -> Nat]
    BY DEF SessionsTypeOK
  <2>6. B \in SUBSET DOMAIN tokens' /\ blocklist' \in [B -> Nat]
    BY <1>2, <1>4, <2>5
  <2>. QED
    BY <1>2, <2>1, <2>4, <2>6 DEF SessionsTypeOK
<1>6. ExpiryBounded'
  BY <1>2, <1>3, <1>4 DEF ExpiryBounded
<1>7. WorldMoves
  BY <1>2, <1>3, <1>4 DEF WorldMoves, Revoked, Covers, LastSecondOf
<1>. QED
  BY <1>2, <1>5, <1>6, <1>7, NoneMoves

LEMMA TimeKeeps ==
  ASSUME SessionsInv, TimePasses
  PROVE  SessionsInv'
<1>. USE DEF SessionsInv
<1>1. /\ now < MaxNow /\ now' = now + 1
      /\ UNCHANGED <<tokens, blocklist, redis, pc, call, ttl, answer, faults, before>>
  BY DEF TimePasses
<1>2. now \in Nat /\ now' \in Nat /\ now <= now'
  BY <1>1, SessionsAssumption DEF SessionsTypeOK
<1>3. SessionsTypeOK'
  BY <1>1, SessionsAssumption DEF SessionsTypeOK
<1>4. ExpiryBounded'
  <2>. SUFFICES ASSUME NEW t \in DOMAIN tokens
                PROVE  tokens[t].exp * Tick <= now' + Lifetime * Tick
    BY <1>1 DEF ExpiryBounded
  <2>1. tokens[t].exp * Tick \in Nat /\ Lifetime * Tick \in Nat
    BY NatTicks, TokenTypes, SessionsAssumption
  <2>2. tokens[t].exp * Tick <= now + Lifetime * Tick
    BY DEF ExpiryBounded
  <2>. QED
    BY <1>2, <2>1, <2>2
<1>5. ASSUME NEW t \in DOMAIN tokens, Revoked(t) PROVE Revoked(t)'
  <2>1. Covers(now, t) => Covers(now', t)
    BY <1>2, CoversMore
  <2>. QED
    BY <1>1, <1>5, <2>1 DEF Revoked, Covers, LastSecondOf
<1>6. WorldMoves
  BY <1>1, <1>2, <1>5 DEF WorldMoves
<1>. QED
  BY <1>1, <1>3, <1>4, <1>6, NoneMoves

LEMMA RedisKeeps ==
  ASSUME SessionsInv, RedisGoesDown \/ RedisComesUp \/ RedisRestarts
  PROVE  SessionsInv'
<1>. USE DEF SessionsInv
<1>1. UNCHANGED <<now, tokens, pc, call, ttl, answer, before>>
  BY DEF RedisGoesDown, RedisComesUp, RedisRestarts
<1>2. ExpiryBounded'
  BY <1>1 DEF ExpiryBounded
<1>3. CASE RedisComesUp
  <2>1. UNCHANGED <<blocklist, faults>> /\ redis' = "up"
    BY <1>3 DEF RedisComesUp
  <2>2. SessionsTypeOK'
    BY <1>1, <2>1 DEF SessionsTypeOK
  <2>3. WorldMoves
    BY <1>1, <2>1, SessionsAssumption DEF WorldMoves, Revoked, Covers, LastSecondOf, SessionsTypeOK
  <2>. QED
    BY <1>1, <1>2, <2>1, <2>2, <2>3, NoneMoves
<1>4. CASE RedisGoesDown \/ RedisRestarts
  <2>1. faults < MaxFaults /\ faults' = faults + 1 /\ redis' \in {"up", "down"}
    BY <1>4 DEF RedisGoesDown, RedisRestarts, SessionsTypeOK
  <2>2. faults' \in 0 .. MaxFaults /\ faults' # 0
    BY <2>1, SessionsAssumption DEF SessionsTypeOK
  <2>3. \E B \in SUBSET DOMAIN tokens : blocklist' \in [B -> Nat]
    <3>1. CASE UNCHANGED blocklist
      BY <3>1 DEF SessionsTypeOK
    <3>2. CASE \E T \in SUBSET DOMAIN blocklist : blocklist' = Restrict(blocklist, T)
      <4>1. PICK T \in SUBSET DOMAIN blocklist : blocklist' = Restrict(blocklist, T)
        BY <3>2
      <4>2. blocklist' \in [T -> Nat] /\ T \in SUBSET DOMAIN tokens
        BY <4>1, TokenTypes DEF Restrict
      <4>. QED
        BY <4>2
    <3>. QED
      BY <1>4, <3>1, <3>2 DEF RedisGoesDown, RedisRestarts
  <2>4. SessionsTypeOK'
    BY <1>1, <2>1, <2>2, <2>3 DEF SessionsTypeOK
  <2>5. WorldMoves
    BY <1>1, <2>2, SessionsAssumption DEF WorldMoves, SessionsTypeOK
  <2>. QED
    BY <1>1, <1>2, <2>2, <2>4, <2>5, NoneMoves
<1>. QED
  BY <1>3, <1>4

(* A request that moves alone. *)
Alone(r) ==
  \A q \in Request : q # r =>
    /\ pc'[q] = pc[q] /\ call'[q] = call[q] /\ ttl'[q] = ttl[q]
    /\ answer'[q] = answer[q] /\ before'[q] = before[q]

LEMMA SendKeeps ==
  ASSUME SessionsInv, NEW r \in Request, Send(r)
  PROVE  SessionsInv'
<1>. USE DEF SessionsInv
<1>1. PICK o \in {"use", "logout"}, t \in DOMAIN tokens \cup {None} :
        call' = [call EXCEPT ![r] = [op |-> o, token |-> t]]
  BY DEF Send
<1>2. /\ pc[r] = "new" /\ pc' = [pc EXCEPT ![r] = "sent"]
      /\ before' = [before EXCEPT ![r] = {q \in Request : pc[q] = "answered"}]
      /\ UNCHANGED <<now, tokens, blocklist, redis, ttl, answer, faults>>
  BY DEF Send, Step
<1>3. SessionsTypeOK'
  BY <1>1, <1>2, TokenTypes DEF SessionsTypeOK
<1>4. Alone(r) /\ pc'[r] = "sent" /\ before'[r] = {q \in Request : pc[q] = "answered"}
  BY <1>1, <1>2 DEF SessionsTypeOK, Alone
<1>5. answer'[r] = "none"
  BY <1>2 DEF RequestInv, SessionsTypeOK
<1>6. \A q \in before'[r] : pc'[q] = "answered"
  BY <1>2, <1>4 DEF Alone
<1>7. RequestInv(r)'
  BY <1>4, <1>5, <1>6 DEF RequestInv
<1>8. WorldMoves /\ ExpiryBounded' /\ (faults' = 0 => redis' = "up")
  BY <1>2, <1>4, QuietWorld DEF Alone
<1>. QED
  BY <1>3, <1>4, <1>7, <1>8, OneMoves DEF Alone

(* A step of a handler that goes on, or answers. *)
LEMMA HandlerKeeps ==
  ASSUME SessionsInv, UNCHANGED <<now, tokens, blocklist, redis, call, faults, before>>,
         NEW r \in Request, pc[r] # "answered", SessionsTypeOK',
         NEW to \in {"decoded", "passed", "revoking", "answered"}, pc' = [pc EXCEPT ![r] = to],
         UNCHANGED ttl \/ \E n \in Nat : ttl' = [ttl EXCEPT ![r] = n],
         \/ UNCHANGED answer
         \/ \E a \in {"ok", "invalid", "revoked"} : answer' = [answer EXCEPT ![r] = a],
         to # "answered" => call[r].token \in DOMAIN tokens /\ UNCHANGED answer,
         to = "revoking" => Covers(now + ttl'[r] * Tick, call[r].token),
         faults = 0 /\ call[r].op = "logout" /\ answer'[r] = "ok" =>
           call[r].token \in DOMAIN tokens /\ Revoked(call[r].token)
  PROVE  SessionsInv'
<1>. USE DEF SessionsInv
<1>1. Alone(r) /\ pc'[r] = to
  BY DEF SessionsTypeOK, Alone
<1>2. \A q \in before[r] : pc'[q] = "answered"
  <2>1. \A q \in before[r] : q \in Request /\ pc[q] = "answered"
    BY DEF RequestInv, SessionsTypeOK
  <2>. QED
    BY <1>1, <2>1 DEF Alone
<1>3. answer'[r] # "none" => to = "answered"
  BY DEF RequestInv
<1>4. RequestInv(r)'
  BY <1>1, <1>2, <1>3 DEF RequestInv, Covers, Revoked, LastSecondOf
<1>5. WorldMoves /\ ExpiryBounded' /\ (faults' = 0 => redis' = "up")
  BY <1>1, QuietWorld DEF Alone
<1>. QED
  BY <1>1, <1>4, <1>5, OneMoves DEF Alone

LEMMA CheckKeeps ==
  ASSUME SessionsInv, NEW r \in Request, DecodeToken(r) \/ CheckBlocklist(r) \/ Use(r)
  PROVE  SessionsInv'
<1>1. /\ pc[r] # "answered" /\ answer[r] = "none"
      /\ UNCHANGED <<now, tokens, blocklist, redis, call, ttl, faults, before>>
  BY DEF DecodeToken, CheckBlocklist, Use, Respond, Step, SessionsInv, RequestInv
<1>2. \E to \in {"decoded", "passed", "answered"} :
        /\ pc' = [pc EXCEPT ![r] = to]
        /\ to # "answered" => call[r].token \in DOMAIN tokens /\ UNCHANGED answer
        /\ \/ UNCHANGED answer
           \/ \E a \in {"ok", "invalid", "revoked"} :
                answer' = [answer EXCEPT ![r] = a] /\ (a = "ok" => call[r].op = "use")
  BY DEF DecodeToken, CheckBlocklist, Use, Respond, Step, SessionsInv, RequestInv
<1>3. SessionsTypeOK'
  <2>1. SessionsTypeOK
    BY DEF SessionsInv
  <2>2. pc' \in [Request -> {"new", "sent", "decoded", "passed", "revoking", "answered"}]
    BY <1>2, <2>1 DEF SessionsTypeOK
  <2>3. answer' \in [Request -> {"none", "ok", "invalid", "revoked"}]
    BY <1>2, <2>1 DEF SessionsTypeOK
  <2>. QED
    BY <1>1, <2>1, <2>2, <2>3 DEF SessionsTypeOK
<1>4. call[r].op = "logout" => answer'[r] # "ok"
  BY <1>1, <1>2 DEF SessionsInv, SessionsTypeOK
<1>. QED
  BY <1>1, <1>2, <1>3, <1>4, HandlerKeeps

(* The TTL, rounded down, ends in the last second but one at the earliest, *)
(* and where there is none it is too late already.                         *)
LEMMA TtlCovers ==
  ASSUME SessionsTypeOK, ExpiryBounded, NEW t \in DOMAIN tokens
  PROVE  LET left == (tokens[t].exp * Tick - now) \div Tick
         IN  /\ left \in Int /\ left <= Lifetime
             /\ Covers(now + left * Tick, t)
             /\ left <= 0 => Covers(now, t)
<1>. DEFINE end == tokens[t].exp * Tick
            left == (end - now) \div Tick
<1>1. end \in Nat /\ now \in Nat /\ (tokens[t].exp - 1) * Tick = end - Tick
  BY TokenTypes, NatTicks, SecondBefore, SessionsAssumption DEF SessionsTypeOK
<1>2. left \in Int /\ left * Tick <= end - now /\ end - now < left * Tick + Tick
  BY <1>1, Seconds
<1>3. left * Tick \in Int /\ Tick \in Nat
  BY <1>2, SessionsAssumption
<1>4. now + left * Tick > end - Tick
  BY <1>1, <1>2, <1>3
<1>5. ASSUME left <= 0 PROVE now > end - Tick
  <2>1. left * Tick <= 0
    BY <1>2, <1>5, SessionsAssumption
  <2>. QED
    BY <1>1, <1>3, <1>4, <2>1
<1>6. left <= Lifetime
  <2>1. Lifetime * Tick \in Nat /\ end <= now + Lifetime * Tick
    BY NatTicks, SessionsAssumption DEF ExpiryBounded
  <2>2. left * Tick <= Lifetime * Tick
    BY <1>1, <1>2, <1>3, <2>1
  <2>. QED
    BY <1>2, <2>2, LessTicks, SessionsAssumption
<1>. QED
  BY <1>1, <1>2, <1>4, <1>5, <1>6 DEF Covers

LEMMA ComputeTtlKeeps ==
  ASSUME SessionsInv, NEW r \in Request, ComputeTtl(r)
  PROVE  SessionsInv'
<1>1. /\ pc[r] = "passed" /\ call[r].op = "logout"
      /\ UNCHANGED <<now, tokens, blocklist, redis, call, faults, before>>
  BY DEF ComputeTtl
<1>2. PICK t \in DOMAIN tokens : t = call[r].token
  BY <1>1 DEF SessionsInv, RequestInv
<1>. DEFINE left == (tokens[t].exp * Tick - now) \div Tick
<1>3. left \in Int /\ left <= Lifetime /\ Covers(now + left * Tick, t)
      /\ (left <= 0 => Covers(now, t))
  BY TtlCovers DEF SessionsInv
<1>4. CASE left > 0
  <2>1. /\ pc' = [pc EXCEPT ![r] = "revoking"] /\ ttl' = [ttl EXCEPT ![r] = left]
        /\ UNCHANGED answer
    BY <1>2, <1>4 DEF ComputeTtl, Step
  <2>2. left \in 0 .. Lifetime
    BY <1>3, <1>4, SessionsAssumption
  <2>3. SessionsTypeOK' /\ ttl'[r] = left
    BY <1>1, <2>1, <2>2 DEF SessionsInv, SessionsTypeOK
  <2>4. answer'[r] # "ok"
    BY <1>1, <2>1 DEF SessionsInv, RequestInv
  <2>5. Covers(now + ttl'[r] * Tick, call[r].token)
    BY <1>2, <1>3, <2>3
  <2>6. \E n \in Nat : ttl' = [ttl EXCEPT ![r] = n]
    <3>1. PICK n \in Nat : n = left
      BY <1>3, <1>4
    <3>. QED
      BY <2>1, <3>1
  <2>. QED
    BY <1>1, <1>2, <2>1, <2>3, <2>4, <2>5, <2>6, HandlerKeeps
<1>5. CASE ~ (left > 0)
  <2>1. /\ pc' = [pc EXCEPT ![r] = "answered"] /\ answer' = [answer EXCEPT ![r] = "ok"]
        /\ UNCHANGED ttl
    BY <1>2, <1>5 DEF ComputeTtl, Respond, Step
  <2>2. SessionsTypeOK'
    BY <1>1, <2>1 DEF SessionsInv, SessionsTypeOK
  <2>3. Revoked(t)
    BY <1>3, <1>5 DEF Revoked, LastSecondOf, Covers
  <2>. QED
    BY <1>1, <1>2, <2>1, <2>2, <2>3, HandlerKeeps
<1>. QED
  BY <1>4, <1>5

LEMMA BlocklistKeeps ==
  ASSUME SessionsInv, NEW r \in Request, BlocklistJti(r)
  PROVE  SessionsInv'
<1>. USE DEF SessionsInv
<1>1. /\ pc[r] = "revoking" /\ pc' = [pc EXCEPT ![r] = "answered"]
      /\ answer' = [answer EXCEPT ![r] = "ok"]
      /\ UNCHANGED <<now, tokens, redis, call, ttl, faults, before>>
  BY DEF BlocklistJti, Respond, Step
<1>2. PICK t \in DOMAIN tokens : t = call[r].token
  BY <1>1 DEF RequestInv
<1>. DEFINE until == now + ttl[r] * Tick
<1>3. until \in Nat /\ Covers(until, t) /\ now \in Nat
  <2>1. ttl[r] * Tick \in Nat /\ now \in Nat
    BY NatTicks, SessionsAssumption DEF SessionsTypeOK
  <2>2. Covers(until, t)
    BY <1>1, <1>2 DEF RequestInv
  <2>. QED
    BY <2>1, <2>2
<1>4. /\ redis = "up" => blocklist' = Put(blocklist, t, until)
      /\ redis # "up" => UNCHANGED blocklist
  BY <1>2 DEF BlocklistJti
<1>5. SessionsTypeOK'
  <2>1. \E B \in SUBSET DOMAIN tokens : blocklist' \in [B -> Nat]
    <3>1. CASE redis = "up"
      <4>1. blocklist' \in [DOMAIN blocklist \cup {t} -> Nat]
        BY <1>3, <1>4, <3>1, TokenTypes DEF Put
      <4>2. DOMAIN blocklist \cup {t} \in SUBSET DOMAIN tokens
        BY TokenTypes
      <4>. QED
        BY <4>1, <4>2
    <3>. QED
      BY <1>4, <3>1 DEF SessionsTypeOK
  <2>. QED
    BY <1>1, <2>1 DEF SessionsTypeOK
<1>6. Alone(r) /\ pc'[r] = "answered"
  BY <1>1 DEF SessionsTypeOK, Alone
<1>7. ASSUME faults' = 0
      PROVE  /\ faults = 0 /\ Revoked(t)'
             /\ \A k \in DOMAIN tokens : Revoked(k) => Revoked(k)'
  <2>1. /\ faults = 0 /\ blocklist' = Put(blocklist, t, until)
    BY <1>1, <1>4, <1>7
  <2>2. /\ t \in DOMAIN blocklist' /\ blocklist'[t] = until
        /\ \A k \in DOMAIN blocklist : k # t =>
             k \in DOMAIN blocklist' /\ blocklist'[k] = blocklist[k]
    BY <2>1 DEF Put
  <2>3. Revoked(t)'
    BY <1>1, <1>3, <2>2 DEF Revoked, Covers
  <2>4. ASSUME NEW k \in DOMAIN tokens, k # t, Revoked(k) PROVE Revoked(k)'
    BY <1>1, <2>2, <2>4 DEF Revoked, Covers, LastSecondOf
  <2>. QED
    BY <2>1, <2>3, <2>4
<1>8. WorldMoves
  BY <1>1, <1>3, <1>6, <1>7 DEF WorldMoves, Alone
<1>9. RequestInv(r)'
  <2>1. \A q \in before[r] : q \in Request /\ pc[q] = "answered"
    BY DEF RequestInv, SessionsTypeOK
  <2>2. \A q \in before'[r] : pc'[q] = "answered"
    BY <1>1, <1>6, <2>1 DEF Alone
  <2>3. faults' = 0 => call'[r].token \in DOMAIN tokens' /\ Revoked(call[r].token)'
    BY <1>1, <1>2, <1>7 DEF Revoked, Covers, LastSecondOf
  <2>. QED
    BY <1>6, <2>2, <2>3 DEF RequestInv
<1>10. ExpiryBounded'
  BY <1>1 DEF ExpiryBounded
<1>. QED
  BY <1>1, <1>5, <1>6, <1>8, <1>9, <1>10, OneMoves DEF Alone

-----------------------------------------------------------------------------
LEMMA SessionsInvInit ==
  ASSUME SessionsInit
  PROVE  SessionsInv
<1>1. SessionsTypeOK
  <2>1. {} \in SUBSET Token /\ tokens \in [{} -> [user : User, exp : Nat]]
    BY DEF SessionsInit
  <2>2. {} \in SUBSET DOMAIN tokens /\ blocklist \in [{} -> Nat]
    BY DEF SessionsInit
  <2>3. /\ \E T \in SUBSET Token : tokens \in [T -> [user : User, exp : Nat]]
        /\ \E T \in SUBSET DOMAIN tokens : blocklist \in [T -> Nat]
    BY <2>1, <2>2
  <2>4. 0 \in 0 .. MaxNow /\ 0 \in 0 .. MaxFaults /\ 0 \in 0 .. Lifetime
    BY SessionsAssumption
  <2>. QED
    BY <2>3, <2>4 DEF SessionsInit, SessionsTypeOK
<1>2. DOMAIN tokens = {}
  BY DEF SessionsInit
<1>. QED
  BY <1>1, <1>2 DEF SessionsInit, SessionsInv, ExpiryBounded, RequestInv

LEMMA SessionsInvKept ==
  ASSUME SessionsInv, [SessionsNext]_sessionsVars
  PROVE  SessionsInv'
<1>1. CASE UNCHANGED sessionsVars
  BY <1>1 DEF sessionsVars, SessionsInv, SessionsTypeOK, ExpiryBounded, RequestInv, Covers, Revoked,
     LastSecondOf
<1>2. CASE SessionsNext
  BY <1>2, MintKeeps, SendKeeps, CheckKeeps, ComputeTtlKeeps, BlocklistKeeps, TimeKeeps, RedisKeeps
  DEF SessionsNext
<1>. QED
  BY <1>1, <1>2

(* TTLs reach far enough and logged out tokens are blocked, at all times.  *)
THEOREM SessionsInvariant == SessionsSpec => []SessionsInv
BY SessionsInvInit, SessionsInvKept, PTL DEF SessionsSpec

(* The tokens, the blocklist and the requests keep their types: no TTL is  *)
(* negative or longer than a token's lifetime.                             *)
THEOREM SessionsTypeCorrect == SessionsSpec => []SessionsTypeOK
<1>1. SessionsInv => SessionsTypeOK
  BY DEF SessionsInv
<1>. QED
  BY <1>1, SessionsInvariant, PTL

(* A token whose logout was answered is refused by every later request, as *)
(* long as Redis has not failed, until its last two seconds.               *)
THEOREM LogoutLasts == SessionsSpec => RevokedUntilTheLastSecond
<1>1. ASSUME SessionsInv, SessionsNext, NEW r \in Request, Passes(r), LoggedOut(r), faults = 0
      PROVE  LastSecondOf(call[r].token)
  <2>. USE DEF SessionsInv
  <2>1. pc[r] = "decoded" /\ pc'[r] = "passed"
    BY <1>1 DEF Passes
  <2>2. PICK l \in Request :
          call[l].op = "logout" /\ call[l].token = call[r].token /\ answer[l] = "ok"
    BY <1>1 DEF LoggedOut, SessionsTypeOK
  <2>3. PICK t \in DOMAIN tokens : t = call[r].token /\ Revoked(t)
    BY <1>1, <2>2 DEF RequestInv
  <2>4. CheckBlocklist(r)
    <3>1. ASSUME NEW q \in Request, q # r,
                 Send(q) \/ DecodeToken(q) \/ CheckBlocklist(q) \/ Use(q) \/ ComputeTtl(q)
                   \/ BlocklistJti(q)
          PROVE  FALSE
      BY <1>1, <2>1, <3>1 DEF Send, DecodeToken, CheckBlocklist, Use, ComputeTtl, BlocklistJti,
         Respond, Step, SessionsTypeOK
    <3>2. ~ (Send(r) \/ DecodeToken(r) \/ Use(r) \/ ComputeTtl(r) \/ BlocklistJti(r))
      BY <2>1 DEF Send, DecodeToken, Use, ComputeTtl, BlocklistJti, Respond, Step
    <3>3. ~ (CreateAccessToken \/ TimePasses \/ RedisGoesDown \/ RedisComesUp \/ RedisRestarts)
      BY <2>1 DEF CreateAccessToken, TimePasses, RedisGoesDown, RedisComesUp, RedisRestarts
    <3>. QED
      BY <1>1, <3>1, <3>2, <3>3 DEF SessionsNext
  <2>5. ~ Blocked(t)
    BY <1>1, <2>1, <2>3, <2>4 DEF CheckBlocklist, Respond, Step, SessionsTypeOK
  <2>6. CASE t \in DOMAIN blocklist /\ Covers(blocklist[t], t)
    <3>1. blocklist[t] <= now /\ blocklist[t] \in Int /\ now \in Int
      BY <1>1, <2>5, <2>6, TokenTypes, SessionsAssumption DEF Blocked, SessionsTypeOK
    <3>2. Covers(now, t)
      BY <1>1, <2>6, <3>1, CoversMore
    <3>. QED
      BY <2>3, <3>2 DEF Covers, LastSecondOf
  <2>. QED
    BY <2>3, <2>6 DEF Revoked
<1>2. ASSUME SessionsInv, [SessionsNext]_sessionsVars
      PROVE  [\A r \in Request : Passes(r) /\ LoggedOut(r) =>
                faults > 0 \/ LastSecondOf(call[r].token)]_sessionsVars
  <2>1. faults = 0 \/ faults > 0
    BY <1>2, SessionsAssumption DEF SessionsInv, SessionsTypeOK
  <2>. QED
    BY <1>1, <1>2, <2>1
<1>. QED
  BY <1>2, SessionsInvariant, PTL DEF SessionsSpec, RevokedUntilTheLastSecond
=============================================================================
