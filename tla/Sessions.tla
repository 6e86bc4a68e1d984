------------------------------ MODULE Sessions ------------------------------
(***************************************************************************)
(* The life of a bearer token: minted by login (shared/jwt_utils           *)
(* create_access_token), checked by every service on every request         *)
(* (get_current_user), revoked by logout (services/auth/app/routes.py),    *)
(* with the blocklist of revoked tokens kept in Redis                      *)
(* (shared/cache/redis_client.py).                                         *)
(*                                                                         *)
(* One clock, in ticks; Tick of them make a second.  The claim "exp" is a  *)
(* whole second and the JWT library accepts a token during all of it; the  *)
(* TTL of a blocklist entry is a whole number of seconds rounded down.     *)
(* A request that goes no further stands for a process that died.          *)
(***************************************************************************)
EXTENDS Integers, FiniteSets, Functions

CONSTANTS
  Request,    \* HTTP requests that carry a bearer token
  Token,      \* the jtis that may be drawn
  User,
  None,       \* no token, a malformed or a forged one
  Tick,       \* ticks in a second
  Lifetime,   \* JWT_EXPIRE_MINUTES, in seconds
  MaxNow,     \* bound: the last tick
  FaultKind,  \* the failures of Redis there may be
  MaxFaults   \* bound: failures of Redis

ASSUME SessionsAssumption ==
  /\ Tick \in Nat \ {0}
  /\ Lifetime \in Nat \ {0}
  /\ MaxNow \in Nat
  /\ MaxFaults \in Nat
  /\ FaultKind \subseteq {"outage", "restart"}
  /\ None \notin Token

VARIABLES
  now,
  tokens,     \* the tokens minted: whose, and the second they expire in
  blocklist,  \* the keys in Redis, each with the tick it expires at
  redis,      \* "up" or "down"
  pc,         \* progress of each request
  call,       \* what it asks and the token it carries
  ttl,        \* the TTL a logout has computed
  answer,     \* "none" until there is one
  faults,
  before      \* (history) the requests answered before this one was sent

sessionsVars == <<now, tokens, blocklist, redis, pc, call, ttl, answer, faults, before>>

Second(t) == t \div Tick

SessionsTypeOK ==
  /\ now \in 0 .. MaxNow
  /\ \E T \in SUBSET Token : tokens \in [T -> [user : User, exp : Nat]]
  /\ \E T \in SUBSET DOMAIN tokens : blocklist \in [T -> Nat]
  /\ redis \in {"up", "down"}
  /\ pc \in [Request -> {"new", "sent", "decoded", "passed", "revoking", "answered"}]
  /\ call \in [Request -> [op : {"use", "logout"}, token : Token \cup {None}]]
  /\ ttl \in [Request -> 0 .. Lifetime]
  /\ answer \in [Request -> {"none", "ok", "invalid", "revoked"}]
  /\ faults \in 0 .. MaxFaults
  /\ before \in [Request -> SUBSET Request]

SessionsInit ==
  /\ now = 0
  /\ tokens = <<>>
  /\ blocklist = <<>>
  /\ redis = "up"
  /\ pc = [r \in Request |-> "new"]
  /\ call = [r \in Request |-> [op |-> "use", token |-> None]]
  /\ ttl = [r \in Request |-> 0]
  /\ answer = [r \in Request |-> "none"]
  /\ faults = 0
  /\ before = [r \in Request |-> {}]

-----------------------------------------------------------------------------
(* Helpers. *)

Put(f, x, y) == [z \in DOMAIN f \cup {x} |-> IF z = x THEN y ELSE f[z]]

Step(r, from, to) == pc[r] = from /\ pc' = [pc EXCEPT ![r] = to]

Respond(r, from, a) == Step(r, from, "answered") /\ answer' = [answer EXCEPT ![r] = a]

(* Redis drops a key when its TTL has run out. *)
Blocked(t) == t \in DOMAIN blocklist /\ now < blocklist[t]

-----------------------------------------------------------------------------
(* Login, once it has verified the password, mints a token with a new jti. *)
CreateAccessToken ==
  /\ \E t \in Token \ DOMAIN tokens, u \in User :
       tokens' = Put(tokens, t, [user |-> u, exp |-> Second(now) + Lifetime])
  /\ UNCHANGED <<now, blocklist, redis, pc, call, ttl, answer, faults, before>>

Send(r) ==
  /\ Step(r, "new", "sent")
  /\ \E o \in {"use", "logout"}, t \in DOMAIN tokens \cup {None} :
       call' = [call EXCEPT ![r] = [op |-> o, token |-> t]]
  /\ before' = [before EXCEPT ![r] = {q \in Request : pc[q] = "answered"}]
  /\ UNCHANGED <<now, tokens, blocklist, redis, ttl, answer, faults>>

(* get_current_user, first half: the signature and exp. *)
DecodeToken(r) ==
  LET t == call[r].token
  IN  /\ pc[r] = "sent"
      /\ IF t \in DOMAIN tokens /\ Second(now) <= tokens[t].exp
           THEN Step(r, "sent", "decoded") /\ UNCHANGED answer
           ELSE Respond(r, "sent", "invalid")
      /\ UNCHANGED <<now, tokens, blocklist, redis, call, ttl, faults, before>>

(* get_current_user, second half: the blocklist, failing open. *)
CheckBlocklist(r) ==
  /\ pc[r] = "decoded"
  /\ IF redis = "up" /\ Blocked(call[r].token)
       THEN Respond(r, "decoded", "revoked")
       ELSE Step(r, "decoded", "passed") /\ UNCHANGED answer
  /\ UNCHANGED <<now, tokens, blocklist, redis, call, ttl, faults, before>>

(* Any endpoint behind get_current_user: the caller is let in. *)
Use(r) ==
  /\ call[r].op = "use"
  /\ Respond(r, "passed", "ok")
  /\ UNCHANGED <<now, tokens, blocklist, redis, call, ttl, faults, before>>

(* logout: ttl = int(exp - now); nothing is revoked unless it is positive. *)
TtlInMinutes(r) ==   \* mutant: the TTL in minutes (here, of two seconds)
  LET left == (tokens[call[r].token].exp * Tick - now) \div (2 * Tick)
  IN  /\ pc[r] = "passed"
      /\ call[r].op = "logout"
      /\ IF left > 0
           THEN /\ Step(r, "passed", "revoking")
                /\ ttl' = [ttl EXCEPT ![r] = left]
                /\ UNCHANGED answer
           ELSE /\ Respond(r, "passed", "ok")
                /\ UNCHANGED ttl
      /\ UNCHANGED <<now, tokens, blocklist, redis, call, faults, before>>

UncheckedTtl(r) ==   \* mutant: no test that the TTL is positive
  /\ call[r].op = "logout"
  /\ Step(r, "passed", "revoking")
  /\ ttl' = [ttl EXCEPT ![r] = (tokens[call[r].token].exp * Tick - now) \div Tick]
  /\ UNCHANGED <<now, tokens, blocklist, redis, call, answer, faults, before>>

ComputeTtl(r) ==
  LET left == (tokens[call[r].token].exp * Tick - now) \div Tick
  IN  /\ pc[r] = "passed"
      /\ call[r].op = "logout"
      /\ IF left > 0
           THEN /\ Step(r, "passed", "revoking")
                /\ ttl' = [ttl EXCEPT ![r] = left]
                /\ UNCHANGED answer
           ELSE /\ Respond(r, "passed", "ok")
                /\ UNCHANGED ttl
      /\ UNCHANGED <<now, tokens, blocklist, redis, call, faults, before>>

(* blocklist_jti: SETEX; an error is logged and logout answers 204. *)
BlocklistJti(r) ==
  /\ Respond(r, "revoking", "ok")
  /\ blocklist' = IF redis = "up"
                    THEN Put(blocklist, call[r].token, now + ttl[r] * Tick)
                    ELSE blocklist
  /\ UNCHANGED <<now, tokens, redis, call, ttl, faults, before>>

-----------------------------------------------------------------------------
(* Time, and Redis. *)

TimePasses ==
  /\ now < MaxNow
  /\ now' = now + 1
  /\ UNCHANGED <<tokens, blocklist, redis, pc, call, ttl, answer, faults, before>>

RedisGoesDown ==
  /\ "outage" \in FaultKind
  /\ faults < MaxFaults
  /\ redis = "up"
  /\ redis' = "down"
  /\ faults' = faults + 1
  /\ UNCHANGED <<now, tokens, blocklist, pc, call, ttl, answer, before>>

RedisComesUp ==
  /\ redis = "down"
  /\ redis' = "up"
  /\ UNCHANGED <<now, tokens, blocklist, pc, call, ttl, answer, faults, before>>

(* docker-compose gives Redis no volume and no append-only file: a restart *)
(* may lose any of its keys.                                               *)
RedisRestarts ==
  /\ "restart" \in FaultKind
  /\ faults < MaxFaults
  /\ \E T \in SUBSET DOMAIN blocklist : blocklist' = Restrict(blocklist, T)
  /\ faults' = faults + 1
  /\ UNCHANGED <<now, tokens, redis, pc, call, ttl, answer, before>>

SessionsNext ==
  \/ CreateAccessToken
  \/ \E r \in Request :
       \/ Send(r) \/ DecodeToken(r) \/ CheckBlocklist(r) \/ Use(r)
       \/ ComputeTtl(r) \/ BlocklistJti(r)
  \/ TimePasses
  \/ RedisGoesDown \/ RedisComesUp \/ RedisRestarts

SessionsSpec == SessionsInit /\ [][SessionsNext]_sessionsVars

-----------------------------------------------------------------------------
(* The token of request r had been logged out when r was sent. *)
LoggedOut(r) ==
  \E l \in before[r] :
    /\ call[l].op = "logout"
    /\ call[l].token = call[r].token
    /\ answer[l] = "ok"

Passes(r) == pc[r] = "decoded" /\ pc'[r] = "passed"

LastSecondOf(t) == now > (tokens[t].exp - 1) * Tick

(* A token whose logout was answered is refused by every later request, as *)
(* long as Redis has not failed, until its last two seconds: the entry's   *)
(* TTL is rounded down, and exp itself is still a second of validity.      *)
RevokedUntilTheLastSecond ==
  [][\A r \in Request :
       Passes(r) /\ LoggedOut(r) => faults > 0 \/ LastSecondOf(call[r].token)]_sessionsVars

(* services/auth/app/routes.py:81 "Revoke the current token by adding its  *)
(* jti to the Redis blocklist with TTL = remaining lifetime, so the entry  *)
(* expires when the JWT would have anyway": with Redis healthy, a logged   *)
(* out token is never accepted again.                                      *)
EntryLastsAsLongAsTheToken ==
  [][\A r \in Request : Passes(r) /\ LoggedOut(r) => faults > 0]_sessionsVars
=============================================================================
