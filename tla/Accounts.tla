------------------------------ MODULE Accounts ------------------------------
(***************************************************************************)
(* auth-service: signup and login (services/auth/app/routes.py), with the  *)
(* call login makes to tenant-service.  The call reads tenant-service's    *)
(* tables once, at some moment between the two halves of login; it may     *)
(* fail or time out instead.  No handler changes or deletes a user.        *)
(*                                                                         *)
(* Addresses are lower-cased by both handlers, slugs by neither.  Hashing  *)
(* is abstracted to equality of passwords.  What a token says is what      *)
(* module Sessions carries as its claims; its life is modelled there.      *)
(***************************************************************************)
EXTENDS Tenancy

CONSTANTS
  AuthRequest,  \* posts to /auth/signup and /auth/login
  Address,      \* e-mail addresses as they are typed
  LowerAddress, \* LowerAddress[e] is e in lower case
  Password,
  Forms,        \* the bodies clients post
  FirstUsers    \* the users there may be when the first request comes

Form == [op : {"signup", "login"}, email : Address, password : Password,
         slug : Slug \cup {None}]

Account == [id : User, email : Address, password : Password]

Token == [user : User, tenant : TenantId \cup {None}, role : Role \cup {None}]

ASSUME AccountsAssumption ==
  /\ None \notin Token \cup Membership \cup Account
  /\ AuthRequest \cap Request = {}
  /\ LowerAddress \in [Address -> Address]
  /\ \A e \in Address : LowerAddress[LowerAddress[e]] = LowerAddress[e]
  /\ Forms \subseteq Form
  /\ \A w \in FirstUsers :
       /\ w \subseteq Account
       /\ \A u, v \in w : u.id = v.id \/ u.email = v.email => u = v
       /\ \A u \in w : LowerAddress[u.email] = u.email

VARIABLES
  users,    \* the table
  stage,    \* progress of each request
  form,     \* what it posted
  account,  \* the user a login has found
  grant,    \* the membership tenant-service has answered it with
  reply,    \* the status code and the claims of the token
  earlier   \* (history) all that was answered before it was sent

accountsVars == <<users, stage, form, account, grant, reply, earlier>>

AuthInFlight == {"sent", "committed", "asking", "minting"}

AccountsTypeOK ==
  /\ users \subseteq Account
  /\ stage \in [AuthRequest -> {"new", "answered", "lost"} \cup AuthInFlight]
  /\ form \in [AuthRequest -> Forms \cup {None}]
  /\ account \in [AuthRequest -> Account \cup {None}]
  /\ grant \in [AuthRequest -> Membership \cup {None}]
  /\ reply \in [AuthRequest -> [code : {0, 200, 201, 401, 403, 409, 500, 502, 503},
                                token : Token \cup {None}]]
  /\ earlier \in [AuthRequest -> SUBSET (AuthRequest \cup Request)]
  /\ \A u, v \in users : u.id = v.id \/ u.email = v.email => u = v

AccountsInit ==
  /\ users \in FirstUsers
  /\ stage = [a \in AuthRequest |-> "new"]
  /\ form = [a \in AuthRequest |-> None]
  /\ account = [a \in AuthRequest |-> None]
  /\ grant = [a \in AuthRequest |-> None]
  /\ reply = [a \in AuthRequest |-> [code |-> 0, token |-> None]]
  /\ earlier = [a \in AuthRequest |-> {}]

-----------------------------------------------------------------------------
(* Helpers. *)

Goes(a, from, to) == stage[a] = from /\ stage' = [stage EXCEPT ![a] = to]

Reply(a, from, code, token) ==
  /\ Goes(a, from, "answered")
  /\ reply' = [reply EXCEPT ![a] = [code |-> code, token |-> token]]

AddressAsTyped(a) == form[a].email   \* mutant: no lower-casing

AddressOf(a) == LowerAddress[form[a].email]

-----------------------------------------------------------------------------
SendForm(a) ==
  /\ Goes(a, "new", "sent")
  /\ \E f \in Forms : form' = [form EXCEPT ![a] = f]
  /\ earlier' = [earlier EXCEPT ![a] =
                   {b \in AuthRequest : stage[b] = "answered"}
                   \cup {r \in Request : pc[r] = "answered"}]
  /\ UNCHANGED <<users, account, grant, reply, faults>>

InsertUser(a) ==
  \E i \in User \ {u.id : u \in users} :
    users' = users \cup {[id |-> i, email |-> AddressOf(a), password |-> form[a].password]}

AnyNumber(a) == FALSE   \* mutant: no unique index on the address

Registered(a) == \E u \in users : u.email = AddressOf(a)

(* signup: the commit, or IntegrityError on the unique address. *)
Signup(a) ==
  /\ stage[a] = "sent"
  /\ form[a].op = "signup"
  /\ \/ Registered(a) /\ Reply(a, "sent", 409, None) /\ UNCHANGED users
     \/ ~ Registered(a) /\ InsertUser(a) /\ Goes(a, "sent", "committed") /\ UNCHANGED reply
  /\ UNCHANGED <<form, account, grant, earlier, faults>>

(* The refresh, and the answer 201. *)
SignupEnds(a) ==
  /\ Reply(a, "committed", 201, None)
  /\ UNCHANGED <<users, form, account, grant, earlier, faults>>

(* login: the SELECT by address and the verification of the password.      *)
FindUser(a) ==
  LET found == {u \in users : u.email = AddressOf(a) /\ u.password = form[a].password}
  IN  /\ stage[a] = "sent"
      /\ form[a].op = "login"
      /\ \/ found = {} /\ Reply(a, "sent", 401, None) /\ UNCHANGED account
         \/ \E u \in found :
              /\ Goes(a, "sent", IF form[a].slug = None THEN "minting" ELSE "asking")
              /\ account' = [account EXCEPT ![a] = u]
              /\ UNCHANGED reply
      /\ UNCHANGED <<users, form, grant, earlier, faults>>

(* login: tenant-service answers 200 or 404. *)
AskTenantService(a) ==
  LET found == MembershipsOf(account[a].id, form[a].slug)
  IN  /\ stage[a] = "asking"
      /\ \/ found = {} /\ Reply(a, "asking", 403, None) /\ UNCHANGED grant
         \/ \E m \in found :
              /\ Goes(a, "asking", "minting")
              /\ grant' = [grant EXCEPT ![a] = m]
              /\ UNCHANGED reply
      /\ UNCHANGED <<users, form, account, earlier, faults>>

(* login: tenant-service answers 500, cannot be reached or takes too long. *)
MintAnyway(a) ==   \* mutant: without an answer, the slug is believed
  /\ faults < MaxFaults
  /\ Goes(a, "asking", "minting")
  /\ \E t \in {u \in tenants : u.slug = form[a].slug} :
       grant' = [grant EXCEPT ![a] = [tenant |-> t.id, user |-> account[a].id,
                                      role |-> "member", by |-> t.by]]
  /\ faults' = faults + 1
  /\ UNCHANGED <<users, form, account, reply, earlier>>

TenantServiceFails(a) ==
  /\ faults < MaxFaults
  /\ \E code \in {502, 503} : Reply(a, "asking", code, None)
  /\ faults' = faults + 1
  /\ UNCHANGED <<users, form, account, grant, earlier>>

(* create_access_token with the claims login has put together. *)
Claims(a) ==
  [user |-> account[a].id,
   tenant |-> IF form[a].slug = None THEN None ELSE grant[a].tenant,
   role |-> IF form[a].slug = None THEN None ELSE grant[a].role]

MintToken(a) ==
  /\ Reply(a, "minting", 200, Claims(a))
  /\ UNCHANGED <<users, form, account, grant, earlier, faults>>

-----------------------------------------------------------------------------
(* Failures. *)

(* A statement or the commit raises an OperationalError; when the reply to *)
(* the COMMIT is what was lost, the database has committed all the same.   *)
AuthDatabaseFails(a) ==
  /\ faults < MaxFaults
  /\ \E from \in {"sent", "committed"} : Reply(a, from, 500, None)
  /\ \/ UNCHANGED users
     \/ stage[a] = "sent" /\ form[a].op = "signup" /\ ~ Registered(a) /\ InsertUser(a)
  /\ faults' = faults + 1
  /\ UNCHANGED <<form, account, grant, earlier>>

(* The process dies with every request it was handling. *)
AuthCrash ==
  /\ faults < MaxFaults
  /\ \E a \in AuthRequest : stage[a] \in AuthInFlight
  /\ stage' = [a \in AuthRequest |-> IF stage[a] \in AuthInFlight THEN "lost" ELSE stage[a]]
  /\ faults' = faults + 1
  /\ UNCHANGED <<users, form, account, grant, reply, earlier>>

AccountsNext ==
  \/ \E a \in AuthRequest :
       \/ SendForm(a) \/ Signup(a) \/ SignupEnds(a) \/ FindUser(a) \/ AskTenantService(a)
       \/ TenantServiceFails(a) \/ MintToken(a) \/ AuthDatabaseFails(a)
  \/ AuthCrash

-----------------------------------------------------------------------------
(* The login a gives the password and the address of u, which is a user or *)
(* the form of a signup, in some case or other.                            *)
ComesBack(u, a) ==
  /\ form[a].op = "login"
  /\ LowerAddress[form[a].email] = LowerAddress[u.email]
  /\ form[a].password = u.password

(* A token says nothing that is not so: it names the user whose address    *)
(* and password were given and, if a slug was, a role that this user has   *)
(* in the tenant of that slug.  Since no handler withdraws a membership,   *)
(* that stays so after the token was minted.                               *)
TokenTellsTheTruth ==
  \A a \in AuthRequest : reply[a].code = 200 =>
    LET k == reply[a].token
    IN  /\ \E u \in users : u.id = k.user /\ ComesBack(u, a)
        /\ form[a].slug = None => k.tenant = None /\ k.role = None
        /\ form[a].slug # None =>
             /\ \E m \in members : m.tenant = k.tenant /\ m.user = k.user /\ m.role = k.role
             /\ \E t \in tenants : t.id = k.tenant /\ t.slug = form[a].slug

(* Who was told 201 by signup is never told "Invalid credentials", and who *)
(* was told 201 for a tenant is let in to it, as its owner, by the slug    *)
(* the answer showed, unless something fails.                              *)
NobodyIsLockedOut ==
  \A a \in AuthRequest : stage[a] = "answered" =>
    /\ \A s \in earlier[a] \cap AuthRequest :
         /\ form[s].op = "signup" /\ reply[s].code = 201
         /\ ComesBack(form[s], a)
         => reply[a].code # 401
    /\ \A c \in earlier[a] \cap Request :
         /\ call[c].op = "create" /\ answer[c].code = 201
         /\ \E u \in users : u.id = call[c].user /\ ComesBack(u, a)
         /\ form[a].slug = Lower[call[c].slug]
         => \/ reply[a].code = 200 /\ reply[a].token.role = "owner"
            \/ reply[a].code >= 500 /\ faults > 0
=============================================================================
