---------------------------- MODULE System_proof -----------------------------
(***************************************************************************)
(* issues-service, alone and joined to audit-service, for any number of    *)
(* requests, issues, tenants, columns, values, replicas and failures of    *)
(* either service. The first four parts are about IssuesSpec, the last two *)
(* about SystemSpec, which implements it.                                  *)
(***************************************************************************)
EXTENDS System, FiniteSetTheorems, SequenceTheorems, TLAPS

-----------------------------------------------------------------------------
(***************************************************************************)
(* Tenant isolation, and what may change the table.                        *)
(***************************************************************************)

(* A row keeps its id and the tenant it was created for. *)
RowsKeepTenant ==
  /\ \A i \in DOMAIN born : born[i].id = i
  /\ \A i \in DOMAIN rows : rows[i].id = i /\ rows[i].tenant = born[i].tenant

(* The issue i is, or was, one of the caller's tenant. *)
Own(r, i) == i \in DOMAIN born /\ born[i].tenant = call[r].tenant

(* What a handler holds between its SELECT or INSERT and its answer. *)
HoldsOwn(r) ==
  /\ copy[r] \in Row
  /\ copy[r].tenant = call[r].tenant
  /\ Own(r, copy[r].id)
  /\ call[r].op \in {"create", "update", "delete"}
  /\ call[r].op \in {"update", "delete"} => copy[r].id = call[r].id
  /\ pc[r] = "loaded" => call[r].op \in {"update", "delete"}

RequestInv(r) ==
  /\ pc[r] # "new" => call[r] \in Calls
  /\ pc[r] \in {"loaded", "committed", "refreshed", "told"} => HoldsOwn(r)
  /\ pc[r] # "answered" => answer[r].shown = {}
  /\ \A row \in answer[r].shown : row.tenant = call[r].tenant
  /\ pc[r] = "answered" /\ call[r].tenant # None /\ call[r].id # None =>
       answer[r].code \in {404, 500} \/ Own(r, call[r].id)

(* An event names its own request's tenant and issue. *)
EventsAreOwn ==
  \A k \in DOMAIN events :
    LET r == events[k].by
    IN  pc[r] # "new" /\ events[k].tenant = call[r].tenant /\ Own(r, events[k].id)

IssuesInv ==
  /\ IssuesTypeOK
  /\ RowsKeepTenant
  /\ \A r \in Request : RequestInv(r)
  /\ EventsAreOwn

-----------------------------------------------------------------------------
(* Tables, rows and columns. *)

LEMMA TableMember ==
  ASSUME NEW t
  PROVE  t \in Table <=> \E I \in SUBSET IssueId : t \in [I -> Row]
BY DEF Table

LEMMA TableDomain ==
  ASSUME NEW t \in Table
  PROVE  DOMAIN t \subseteq IssueId /\ \A i \in DOMAIN t : t[i] \in Row
<1>1. PICK I \in SUBSET IssueId : t \in [I -> Row]
  BY TableMember
<1>. QED
  BY <1>1

LEMMA PutInTable ==
  ASSUME NEW t \in Table, NEW i \in IssueId, NEW row \in Row
  PROVE  [j \in DOMAIN t \cup {i} |-> IF j = i THEN row ELSE t[j]] \in Table
<1>1. DOMAIN t \cup {i} \in SUBSET IssueId
  BY TableDomain
<1>2. [j \in DOMAIN t \cup {i} |-> IF j = i THEN row ELSE t[j]] \in [DOMAIN t \cup {i} -> Row]
  BY TableDomain
<1>. QED
  BY <1>1, <1>2, TableMember

LEMMA RestrictInTable ==
  ASSUME NEW t \in Table, NEW I \in SUBSET DOMAIN t
  PROVE  Restrict(t, I) \in Table
<1>1. I \in SUBSET IssueId /\ Restrict(t, I) \in [I -> Row]
  BY TableDomain DEF Restrict
<1>. QED
  BY <1>1, TableMember

LEMMA RowFields ==
  ASSUME NEW row \in Row
  PROVE  /\ row.id \in IssueId /\ row.tenant \in Tenant /\ row.data \in Data
         /\ row.data \in [Field -> Value \cup {None}]
         /\ \A f \in Required : row.data[f] # None
BY DEF Row, Data

LEMMA BodyDomain ==
  ASSUME NEW b \in Body
  PROVE  DOMAIN b \subseteq Field /\ \A f \in DOMAIN b : b[f] \in Value \cup {None}
BY DEF Body

(* The columns set are those of the body whose value differs. *)
LEMMA DirtyProperties ==
  ASSUME NEW r \in Request, call[r] \in Call
  PROVE  /\ DOMAIN Dirty(r) \subseteq DOMAIN call[r].body
         /\ DOMAIN call[r].body \subseteq Field
         /\ \A f \in DOMAIN Dirty(r) :
              Dirty(r)[f] = call[r].body[f] /\ Dirty(r)[f] \in Value \cup {None}
<1>1. call[r].body \in Body
  BY DEF Call
<1>. QED
  BY <1>1, BodyDomain DEF Dirty, ChangedFields

(* An UPDATE that does not raise makes a row, of the same id and tenant.   *)
LEMMA PatchedIsRow ==
  ASSUME NEW row \in Row, NEW patch, DOMAIN patch \subseteq Field,
         \A f \in DOMAIN patch : patch[f] \in Value \cup {None},
         \A f \in Required \cap DOMAIN patch : patch[f] # None
  PROVE  /\ Patched(row, patch) \in Row
         /\ Patched(row, patch).id = row.id
         /\ Patched(row, patch).tenant = row.tenant
         /\ \A f \in Field : Patched(row, patch).data[f] =
              IF f \in DOMAIN patch THEN patch[f] ELSE row.data[f]
<1>. DEFINE d == [f \in Field |-> IF f \in DOMAIN patch THEN patch[f] ELSE row.data[f]]
<1>1. Patched(row, patch) = [row EXCEPT !.data = d]
  BY DEF Patched
<1>2. d \in [Field -> Value \cup {None}]
  BY RowFields
<1>3. \A f \in Required : d[f] # None
  BY RowFields, IssuesAssumption
<1>4. d \in Data
  BY <1>2, <1>3 DEF Data
<1>5. [row EXCEPT !.data = d] = [id |-> row.id, tenant |-> row.tenant, data |-> d]
  BY DEF Row
<1>. QED
  BY <1>1, <1>4, <1>5, RowFields DEF Row

(* The calls, and what their bodies are. *)
LEMMA CallTypes ==
  ASSUME NEW q \in Calls
  PROVE  /\ q \in Call /\ q.op \in Op /\ q.tenant \in Tenant \cup {None}
         /\ q.id \in IssueId \cup {None} /\ q.body \in Body
         /\ q.op = "create" => q.body \in Data
         /\ q.op \in {"create", "list"} => q.id = None
         /\ q.op \in {"get", "update", "delete"} => q.id \in IssueId
BY IssuesAssumption DEF Call

-----------------------------------------------------------------------------
(* What a step may leave of the tables. *)
CommitRecord == [by : Request, id : IssueId, row : Row \cup {None}]

LEMMA PutInRemovals ==
  ASSUME NEW m \in Removals, NEW i \in IssueId, NEW r \in Request
  PROVE  [j \in DOMAIN m \cup {i} |-> IF j = i THEN r ELSE m[j]] \in Removals
<1>1. PICK I \in SUBSET IssueId : m \in [I -> Request]
  BY DEF Removals
<1>2. DOMAIN m \cup {i} \in SUBSET IssueId
  BY <1>1
<1>3. [j \in DOMAIN m \cup {i} |-> IF j = i THEN r ELSE m[j]] \in [DOMAIN m \cup {i} -> Request]
  BY <1>1
<1>. QED
  BY <1>2, <1>3 DEF Removals

TablesKept ==
  /\ rows' \in Table /\ born' \in Table /\ DOMAIN rows' \subseteq DOMAIN born'
  /\ commits' \in Seq(CommitRecord) /\ removedBy' \in Removals
  /\ RowsKeepTenant'
  /\ \A i \in DOMAIN born : i \in DOMAIN born' /\ born'[i] = born[i]

LEMMA TablesUntouched ==
  ASSUME IssuesInv, UNCHANGED <<rows, born, commits, removedBy>>
  PROVE  TablesKept
BY DEF IssuesInv, IssuesTypeOK, TablesKept, RowsKeepTenant, CommitRecord

LEMMA LoggedType ==
  ASSUME IssuesInv, NEW r \in Request, NEW i \in IssueId, NEW row \in Row \cup {None},
         Logged(r, i, row)
  PROVE  commits' \in Seq(CommitRecord)
<1>1. [by |-> r, id |-> i, row |-> row] \in CommitRecord /\ commits \in Seq(CommitRecord)
  BY DEF IssuesInv, IssuesTypeOK, CommitRecord
<1>. QED
  BY <1>1, AppendProperties DEF Logged

LEMMA CreateRowKeeps ==
  ASSUME IssuesInv, NEW r \in Request, pc[r] = "sent", NEW i \in IssueId, CreateRow(r, i)
  PROVE  /\ TablesKept
         /\ copy' \in [Request -> Row \cup {None}]
         /\ \A q \in Request : q # r => copy'[q] = copy[q]
         /\ copy'[r] \in Row /\ copy'[r].tenant = call[r].tenant /\ copy'[r].id = i
         /\ i \in DOMAIN born' /\ born'[i].tenant = call[r].tenant
<1>. DEFINE row == [id |-> i, tenant |-> call[r].tenant, data |-> call[r].body]
<1>1. call[r] \in Calls /\ call[r].op = "create" /\ call[r].tenant \in Tenant
  BY CallTypes DEF IssuesInv, RequestInv, CreateRow, Asks
<1>2. row \in Row
  BY <1>1, CallTypes DEF Row
<1>3. /\ rows' = Stored(i, row) /\ copy' = [copy EXCEPT ![r] = row] /\ Logged(r, i, row)
      /\ born' = [j \in DOMAIN born \cup {i} |-> IF j = i THEN row ELSE born[j]]
      /\ i \notin DOMAIN born
  BY DEF CreateRow
<1>4. rows \in Table /\ born \in Table /\ DOMAIN rows \subseteq DOMAIN born
      /\ copy \in [Request -> Row \cup {None}]
  BY DEF IssuesInv, IssuesTypeOK
<1>5. rows' \in Table /\ born' \in Table
  BY <1>2, <1>3, <1>4, PutInTable DEF Stored
<1>6. DOMAIN rows' \subseteq DOMAIN born' /\ RowsKeepTenant'
  BY <1>3, <1>4 DEF Stored, IssuesInv, RowsKeepTenant
<1>7. commits' \in Seq(CommitRecord)
  BY <1>2, <1>3, LoggedType
<1>8. \A j \in DOMAIN born : j \in DOMAIN born' /\ born'[j] = born[j]
  BY <1>3
<1>9. removedBy' \in Removals
  BY DEF CreateRow, IssuesInv, IssuesTypeOK
<1>. QED
  BY <1>2, <1>3, <1>4, <1>5, <1>6, <1>7, <1>8, <1>9 DEF TablesKept

LEMMA UpdateRowKeeps ==
  ASSUME IssuesInv, NEW r \in Request, pc[r] = "loaded", UpdateRow(r), UNCHANGED born
  PROVE  /\ TablesKept
         /\ DOMAIN rows' = DOMAIN rows
         /\ \A i \in DOMAIN rows : i # copy[r].id => rows'[i] = rows[i]
         /\ copy[r].id \in DOMAIN rows =>
              rows'[copy[r].id] = Patched(rows[copy[r].id], Dirty(r))
<1>. DEFINE i == copy[r].id
<1>1. HoldsOwn(r) /\ call[r] \in Calls
  BY DEF IssuesInv, RequestInv
<1>2. i \in IssueId
  BY <1>1, RowFields DEF HoldsOwn
<1>3. rows \in Table /\ born \in Table /\ DOMAIN rows \subseteq DOMAIN born
  BY DEF IssuesInv, IssuesTypeOK
<1>4. CASE i \notin DOMAIN rows
  <2>1. UNCHANGED <<rows, born, commits, removedBy>>
    BY <1>4 DEF UpdateRow
  <2>. QED
    BY <1>4, <2>1, TablesUntouched
<1>5. CASE i \in DOMAIN rows
  <2>. DEFINE row == Patched(rows[i], Dirty(r))
  <2>1. rows' = Stored(i, row) /\ Logged(r, i, rows'[i])
    BY <1>5 DEF UpdateRow
  <2>2. rows[i] \in Row
    BY <1>3, <1>5, TableDomain
  <2>3. \A f \in Required \cap DOMAIN Dirty(r) : Dirty(r)[f] # None
    <3>1. ~ FlushRaises(r)
      BY DEF UpdateRow
    <3>2. ASSUME NEW f \in Required \cap DOMAIN Dirty(r), Dirty(r)[f] = None PROVE FALSE
      <4>1. Dirty(r) # <<>>
        BY <1>1, <3>2, CallTypes, DirtyProperties
      <4>. QED
        BY <3>1, <3>2, <4>1 DEF FlushRaises
    <3>. QED
      BY <3>2
  <2>4. row \in Row /\ row.id = rows[i].id /\ row.tenant = rows[i].tenant
    BY <1>1, <2>2, <2>3, CallTypes, DirtyProperties, PatchedIsRow
  <2>5. rows' \in Table
    BY <1>2, <1>3, <2>1, <2>4, PutInTable DEF Stored
  <2>6. DOMAIN rows' = DOMAIN rows /\ rows'[i] = row
        /\ \A j \in DOMAIN rows : j # i => rows'[j] = rows[j]
    BY <1>5, <2>1 DEF Stored
  <2>7. RowsKeepTenant'
    BY <2>4, <2>6 DEF IssuesInv, RowsKeepTenant
  <2>8. commits' \in Seq(CommitRecord)
    BY <1>2, <2>1, <2>4, <2>6, LoggedType
  <2>9. removedBy' \in Removals
    BY DEF UpdateRow, IssuesInv, IssuesTypeOK
  <2>. QED
    BY <1>3, <2>5, <2>6, <2>7, <2>8, <2>9 DEF TablesKept
<1>. QED
  BY <1>4, <1>5

LEMMA DeleteRowKeeps ==
  ASSUME IssuesInv, NEW r \in Request, pc[r] = "loaded", DeleteRow(r), UNCHANGED born
  PROVE  /\ TablesKept
         /\ DOMAIN rows' = DOMAIN rows \ {copy[r].id}
         /\ \A i \in DOMAIN rows' : rows'[i] = rows[i]
<1>1. rows \in Table /\ born \in Table /\ DOMAIN rows \subseteq DOMAIN born
  BY DEF IssuesInv, IssuesTypeOK
<1>2. rows' \in Table
  BY <1>1, RestrictInTable DEF DeleteRow
<1>3. DOMAIN rows' = DOMAIN rows \ {copy[r].id} /\ \A i \in DOMAIN rows' : rows'[i] = rows[i]
  BY DEF DeleteRow, Restrict
<1>4. copy[r].id \in IssueId
  BY RowFields DEF IssuesInv, RequestInv, HoldsOwn
<1>5. commits' \in Seq(CommitRecord)
  BY <1>4, LoggedType DEF DeleteRow
<1>6. RowsKeepTenant'
  BY <1>3 DEF IssuesInv, RowsKeepTenant
<1>7. removedBy' \in Removals
  <2>1. removedBy \in Removals
    BY DEF IssuesInv, IssuesTypeOK
  <2>. QED
    BY <1>4, <2>1, PutInRemovals DEF DeleteRow
<1>. QED
  BY <1>1, <1>2, <1>3, <1>5, <1>6, <1>7 DEF TablesKept

-----------------------------------------------------------------------------
(* How one request moves the invariant along. *)

LEMMA OwnStays ==
  ASSUME TablesKept, NEW r \in Request, NEW i, Own(r, i), call'[r] = call[r]
  PROVE  Own(r, i)'
BY DEF TablesKept, Own

OthersStay(r) ==
  \A q \in Request : q # r =>
    pc'[q] = pc[q] /\ copy'[q] = copy[q] /\ call'[q] = call[q] /\ answer'[q] = answer[q]

(* The request r moves, with an invariant of its own kept; every other     *)
(* stays; and at most one event is added, which is r's own.                *)
LEMMA OneRequestMoves ==
  ASSUME IssuesInv, IssuesTypeOK', TablesKept, NEW r \in Request,
         OthersStay(r), RequestInv(r)',
         pc'[r] # "new", call'[r] = call[r] \/ pc[r] = "new",
         \/ UNCHANGED events
         \/ \E e \in Event : /\ events' = Append(events, e)
                             /\ e.by = r /\ e.tenant = call'[r].tenant /\ Own(r, e.id)'
  PROVE  IssuesInv'
<1>1. RowsKeepTenant'
  BY DEF TablesKept
<1>2. ASSUME NEW q \in Request PROVE RequestInv(q)'
  <2>1. CASE q = r
    BY <2>1
  <2>2. CASE q # r
    <3>1. pc'[q] = pc[q] /\ copy'[q] = copy[q] /\ call'[q] = call[q] /\ answer'[q] = answer[q]
      BY <2>2 DEF OthersStay
    <3>2. RequestInv(q)
      BY DEF IssuesInv
    <3>3. HoldsOwn(q) => HoldsOwn(q)'
      BY <3>1, OwnStays DEF HoldsOwn
    <3>4. Own(q, call[q].id) => Own(q, call[q].id)'
      BY <3>1, OwnStays
    <3>. QED
      BY <3>1, <3>2, <3>3, <3>4 DEF RequestInv, Own
  <2>. QED
    BY <2>1, <2>2
<1>3. events \in Seq(Event)
  BY DEF IssuesInv, IssuesTypeOK
<1>4. ASSUME NEW k \in DOMAIN events
      PROVE  /\ events[k].by \in Request /\ pc'[events[k].by] # "new"
             /\ events[k].tenant = call'[events[k].by].tenant
             /\ Own(events[k].by, events[k].id)'
  <2>1. events[k].by \in Request
    <3>1. events[k] \in Event
      BY <1>3
    <3>. QED
      BY <3>1 DEF Event
  <2>2. /\ pc[events[k].by] # "new" /\ events[k].tenant = call[events[k].by].tenant
        /\ Own(events[k].by, events[k].id)
    BY DEF IssuesInv, EventsAreOwn
  <2>3. call'[events[k].by] = call[events[k].by] /\ pc'[events[k].by] # "new"
    BY <2>1, <2>2 DEF OthersStay
  <2>. QED
    BY <2>1, <2>2, <2>3, OwnStays
<1>5. EventsAreOwn'
  <2>1. CASE UNCHANGED events
    BY <1>4, <2>1 DEF EventsAreOwn, Own
  <2>2. CASE \E e \in Event : /\ events' = Append(events, e)
                              /\ e.by = r /\ e.tenant = call'[r].tenant /\ Own(r, e.id)'
    <3>1. PICK e \in Event : /\ events' = Append(events, e)
                             /\ e.by = r /\ e.tenant = call'[r].tenant /\ Own(r, e.id)'
      BY <2>2
    <3>2. \A k \in DOMAIN events' :
            (k \in DOMAIN events /\ events'[k] = events[k]) \/ events'[k] = e
      BY <1>3, <3>1, AppendProperties
    <3>. QED
      BY <1>4, <3>1, <3>2 DEF EventsAreOwn, Own
  <2>. QED
    BY <2>1, <2>2
<1>. QED
  BY <1>1, <1>2, <1>5 DEF IssuesInv

(* What every step of a handler leaves alone. *)
HandlerFrame == UNCHANGED <<call, before>> /\ faults' \in 0 .. MaxFaults

(* An answer, if what it shows is the caller's own. *)
LEMMA AnswerKeepsInv ==
  ASSUME IssuesInv, TablesKept, HandlerFrame, NEW r \in Request, NEW from \in InFlight,
         NEW code \in {200, 201, 204, 403, 404, 500}, NEW shown \in SUBSET Row,
         Respond(r, from, code, shown),
         copy' \in [Request -> Row \cup {None}], \A q \in Request : q # r => copy'[q] = copy[q],
         UNCHANGED events,
         \A row \in shown : row.tenant = call[r].tenant,
         call[r].tenant # None /\ call[r].id # None =>
           code \in {404, 500} \/ Own(r, call[r].id)
  PROVE  IssuesInv'
<1>. USE DEF HandlerFrame
<1>1. /\ pc[r] = from /\ pc' = [pc EXCEPT ![r] = "answered"]
      /\ answer' = [answer EXCEPT ![r] = [code |-> code, shown |-> shown]]
  BY DEF Respond, Step
<1>2. IssuesTypeOK
  BY DEF IssuesInv
<1>3. answer' \in [Request -> [code : {0, 200, 201, 204, 403, 404, 500}, shown : SUBSET Row]]
  BY <1>1, <1>2 DEF IssuesTypeOK
<1>4. pc' \in [Request -> {"new", "answered", "lost"} \cup InFlight]
  BY <1>1, <1>2 DEF IssuesTypeOK
<1>5. IssuesTypeOK'
  BY <1>2, <1>3, <1>4 DEF IssuesTypeOK, TablesKept, CommitRecord
<1>6. OthersStay(r)
  BY <1>1, <1>2 DEF IssuesTypeOK, OthersStay
<1>7. pc'[r] = "answered" /\ answer'[r].code = code /\ answer'[r].shown = shown
  BY <1>1, <1>2 DEF IssuesTypeOK
<1>8. call[r] \in Calls
  BY <1>1 DEF IssuesInv, RequestInv, InFlight
<1>9. Own(r, call[r].id) => Own(r, call[r].id)'
  BY OwnStays
<1>10. RequestInv(r)'
  BY <1>7, <1>8, <1>9 DEF RequestInv, Own
<1>. QED
  BY <1>5, <1>6, <1>7, <1>10, OneRequestMoves

(* A move inside the handler, if it ends with an object of its own.        *)
LEMMA MoveKeepsInv ==
  ASSUME IssuesInv, TablesKept, HandlerFrame, NEW r \in Request, NEW from \in InFlight,
         NEW to \in {"loaded", "committed", "refreshed", "told"},
         Step(r, from, to), UNCHANGED answer,
         copy' \in [Request -> Row \cup {None}], \A q \in Request : q # r => copy'[q] = copy[q],
         HoldsOwn(r)',
         \/ UNCHANGED events
         \/ \E e \in Event : /\ events' = Append(events, e)
                             /\ e.by = r /\ e.tenant = call[r].tenant /\ Own(r, e.id)
  PROVE  IssuesInv'
<1>. USE DEF HandlerFrame
<1>1. pc[r] = from /\ pc' = [pc EXCEPT ![r] = to]
  BY DEF Step
<1>2. IssuesTypeOK
  BY DEF IssuesInv
<1>3. pc' \in [Request -> {"new", "answered", "lost"} \cup InFlight]
  BY <1>1, <1>2 DEF IssuesTypeOK, InFlight
<1>4. events' \in Seq(Event)
  <2>1. events \in Seq(Event)
    BY <1>2 DEF IssuesTypeOK
  <2>2. \A e \in Event : Append(events, e) \in Seq(Event)
    BY <2>1, AppendProperties
  <2>. QED
    BY <2>1, <2>2
<1>5. IssuesTypeOK'
  BY <1>2, <1>3, <1>4 DEF IssuesTypeOK, TablesKept, CommitRecord
<1>6. OthersStay(r)
  BY <1>1, <1>2 DEF IssuesTypeOK, OthersStay
<1>7. pc'[r] = to
  BY <1>1, <1>2 DEF IssuesTypeOK
<1>8. RequestInv(r)'
  <2>1. call[r] \in Calls /\ answer[r].shown = {}
    BY <1>1 DEF IssuesInv, RequestInv, InFlight
  <2>. QED
    BY <1>7, <2>1 DEF RequestInv
<1>9. \A e \in Event : Own(r, e.id) => Own(r, e.id)'
  BY OwnStays
<1>. QED
  BY <1>5, <1>6, <1>7, <1>8, <1>9, OneRequestMoves

-----------------------------------------------------------------------------
(* The invariant of issues-service holds for every table it may begin      *)
(* with.                                                                   *)
THEOREM IssuesInvInit ==
  ASSUME IssuesInit
  PROVE  IssuesInv
<1>. USE DEF IssuesInit
<1>1. rows \in Table /\ \A i \in DOMAIN rows : rows[i].id = i
  BY IssuesAssumption
<1>2. events \in Seq(Event) /\ commits \in Seq([by : Request, id : IssueId, row : Row \cup {None}])
      /\ DOMAIN events = {}
  BY EmptySeq
<1>3. IssuesTypeOK
  <2>1. removedBy \in [{} -> Request] /\ {} \in SUBSET IssueId
    OBVIOUS
  <2>2. removedBy \in Removals
    BY <2>1 DEF Removals
  <2>. QED
    BY <1>1, <1>2, <2>2, IssuesAssumption DEF IssuesTypeOK
<1>4. RowsKeepTenant /\ EventsAreOwn
  BY <1>1, <1>2 DEF RowsKeepTenant, EventsAreOwn
<1>5. \A r \in Request : RequestInv(r)
  BY DEF RequestInv
<1>. QED
  BY <1>3, <1>4, <1>5 DEF IssuesInv

(* The SELECT of the handlers sees only the caller's own rows. *)
LEMMA VisibleIsOwn ==
  ASSUME IssuesInv, NEW r \in Request, NEW i \in VisibleTo(call[r].tenant)
  PROVE  /\ i \in DOMAIN rows /\ rows[i] \in Row /\ rows[i].id = i
         /\ rows[i].tenant = call[r].tenant /\ Own(r, i)
<1>1. i \in DOMAIN rows /\ rows[i].tenant = call[r].tenant
  BY DEF VisibleTo
<1>2. rows \in Table /\ DOMAIN rows \subseteq DOMAIN born
  BY DEF IssuesInv, IssuesTypeOK
<1>3. rows[i].id = i /\ rows[i].tenant = born[i].tenant
  BY <1>1 DEF IssuesInv, RowsKeepTenant
<1>. QED
  BY <1>1, <1>2, <1>3, TableDomain DEF Own

(* The event of a handler is one of its own. *)
LEMMA EventIsOwn ==
  ASSUME IssuesInv, NEW r \in Request, pc[r] = "refreshed"
  PROVE  /\ EventOf(r) \in Event
         /\ EventOf(r).by = r /\ EventOf(r).tenant = call[r].tenant /\ Own(r, EventOf(r).id)
<1>1. HoldsOwn(r) /\ call[r] \in Calls
  BY DEF IssuesInv, RequestInv
<1>2. copy[r].id \in IssueId /\ copy[r].tenant \in Tenant
      /\ copy[r].data \in [Field -> Value \cup {None}]
  BY <1>1, RowFields DEF HoldsOwn
<1>3. Restrict(copy[r].data, Told) \in [Told -> Value \cup {None}]
  BY <1>2, IssuesAssumption DEF Restrict
<1>4. DOMAIN ChangedFields(r) \in SUBSET Field
  BY <1>1, CallTypes, BodyDomain DEF ChangedFields
<1>5. EventName[call[r].op] \in {"issue.created", "issue.updated", "issue.deleted"}
  BY <1>1 DEF EventName, HoldsOwn
<1>. DEFINE data == IF call[r].op = "delete" THEN None ELSE Restrict(copy[r].data, Told)
            fields == IF call[r].op = "update" THEN DOMAIN ChangedFields(r) ELSE {}
<1>6. data \in [Told -> Value \cup {None}] \cup {None} /\ fields \in SUBSET Field
  BY <1>3, <1>4
<1>7. EventOf(r) = [event |-> EventName[call[r].op], id |-> copy[r].id,
                    tenant |-> copy[r].tenant, data |-> data, fields |-> fields, by |-> r]
  BY DEF EventOf
<1>. HIDE DEF data, fields
<1>. QED
  BY <1>1, <1>2, <1>5, <1>6, <1>7 DEF Event, HoldsOwn

(* Every step of a handler, every failure and every crash of issues-       *)
(* service keeps the invariant.                                            *)
THEOREM IssuesInvKept ==
  ASSUME IssuesInv, IssuesNext
  PROVE  IssuesInv'
<1>0. /\ copy \in [Request -> Row \cup {None}] /\ faults \in 0 .. MaxFaults
      /\ {} \in SUBSET Row /\ MaxFaults \in Nat
  BY IssuesAssumption DEF IssuesInv, IssuesTypeOK
<1>1. ASSUME NEW r \in Request, Send(r) PROVE IssuesInv'
  <2>. USE <1>1 DEF Send
  <2>0. IssuesTypeOK
    BY DEF IssuesInv
  <2>1. pc[r] = "new" /\ pc' = [pc EXCEPT ![r] = "sent"]
    BY DEF Step
  <2>2. \E q \in Calls : call' = [call EXCEPT ![r] = q]
    OBVIOUS
  <2>3. call' \in [Request -> Calls \cup {None}] /\ call'[r] \in Calls
        /\ \A q \in Request : q # r => call'[q] = call[q]
    BY <2>0, <2>2 DEF IssuesTypeOK
  <2>4. before' \in [Request -> SUBSET Request]
    BY <2>0 DEF IssuesTypeOK
  <2>5. pc' \in [Request -> {"new", "answered", "lost"} \cup InFlight]
    BY <2>0, <2>1 DEF IssuesTypeOK, InFlight
  <2>6. IssuesTypeOK'
    BY <2>0, <2>3, <2>4, <2>5 DEF IssuesTypeOK
  <2>7. OthersStay(r) /\ pc'[r] = "sent"
    BY <2>0, <2>1, <2>3 DEF OthersStay, IssuesTypeOK
  <2>8. RequestInv(r)'
    BY <2>1, <2>3, <2>7 DEF IssuesInv, RequestInv
  <2>. QED
    BY <2>1, <2>6, <2>7, <2>8, TablesUntouched, OneRequestMoves
<1>2. ASSUME NEW r \in Request, Forbid(r) PROVE IssuesInv'
  <2>1. TablesKept /\ HandlerFrame
    BY <1>0, <1>2, TablesUntouched DEF Forbid, HandlerFrame
  <2>. QED
    BY <1>0, <1>2, <2>1, AnswerKeepsInv DEF Forbid, InFlight
<1>3. ASSUME NEW r \in Request, ListIssues(r) PROVE IssuesInv'
  <2>1. TablesKept /\ HandlerFrame
    BY <1>0, <1>3, TablesUntouched DEF ListIssues, HandlerFrame
  <2>2. PICK found \in SUBSET VisibleTo(call[r].tenant) :
          Respond(r, "sent", 200, {rows[i] : i \in found})
    BY <1>3 DEF ListIssues
  <2>3. \A row \in {rows[i] : i \in found} : row \in Row /\ row.tenant = call[r].tenant
    BY VisibleIsOwn
  <2>4. call[r].id = None
    <3>1. call[r] \in Calls /\ call[r].op = "list"
      BY <1>3 DEF ListIssues, Asks, IssuesInv, RequestInv
    <3>. QED
      BY <3>1, CallTypes
  <2>. DEFINE shown == {rows[i] : i \in found}
  <2>5. shown \in SUBSET Row /\ (\A row \in shown : row.tenant = call[r].tenant)
        /\ Respond(r, "sent", 200, shown)
    BY <2>2, <2>3
  <2>. HIDE DEF shown
  <2>6. UNCHANGED <<copy, events>>
    BY <1>3 DEF ListIssues
  <2>. QED
    BY <1>0, <2>1, <2>4, <2>5, <2>6, AnswerKeepsInv DEF InFlight
<1>4. ASSUME NEW r \in Request, GetIssue(r) PROVE IssuesInv'
  <2>1. TablesKept /\ HandlerFrame /\ UNCHANGED <<copy, events>>
    BY <1>0, <1>4, TablesUntouched DEF GetIssue, HandlerFrame
  <2>2. CASE call[r].id \in VisibleTo(call[r].tenant)
    <3>1. Respond(r, "sent", 200, {rows[call[r].id]})
      BY <1>4, <2>2 DEF GetIssue
    <3>2. rows[call[r].id] \in Row /\ rows[call[r].id].tenant = call[r].tenant
          /\ Own(r, call[r].id)
      BY <2>2, VisibleIsOwn
    <3>. QED
      BY <1>0, <2>1, <3>1, <3>2, AnswerKeepsInv DEF InFlight
  <2>3. CASE call[r].id \notin VisibleTo(call[r].tenant)
    <3>1. Respond(r, "sent", 404, {})
      BY <1>4, <2>3 DEF GetIssue
    <3>. QED
      BY <1>0, <2>1, <3>1, AnswerKeepsInv DEF InFlight
  <2>. QED
    BY <2>2, <2>3
<1>5. ASSUME NEW r \in Request, CreateIssue(r) PROVE IssuesInv'
  <2>1. PICK i \in IssueId : CreateRow(r, i)
    BY <1>5 DEF CreateIssue
  <2>2. pc[r] = "sent" /\ Step(r, "sent", "committed") /\ HandlerFrame
        /\ UNCHANGED <<answer, events, call>>
    BY <1>0, <1>5 DEF CreateIssue, Step, HandlerFrame
  <2>3. HoldsOwn(r)'
    <3>1. call[r] \in Calls /\ call[r].op = "create"
      BY <2>1, <2>2 DEF CreateRow, Asks, IssuesInv, RequestInv
    <3>2. pc'[r] # "loaded"
      BY <2>2 DEF Step, IssuesInv, IssuesTypeOK
    <3>. QED
      BY <2>1, <2>2, <3>1, <3>2, CreateRowKeeps DEF HoldsOwn, Own
  <2>. QED
    BY <2>1, <2>2, <2>3, CreateRowKeeps, MoveKeepsInv DEF InFlight
<1>6. ASSUME NEW r \in Request, LoadIssue(r) PROVE IssuesInv'
  <2>1. TablesKept /\ HandlerFrame /\ UNCHANGED <<events, call, born>>
        /\ call[r].op \in {"update", "delete"}
    BY <1>0, <1>6, TablesUntouched DEF LoadIssue, HandlerFrame, Asks
  <2>2. CASE call[r].id \in VisibleTo(call[r].tenant)
    <3>1. Step(r, "sent", "loaded") /\ copy' = [copy EXCEPT ![r] = rows[call[r].id]]
          /\ UNCHANGED answer
      BY <1>6, <2>2 DEF LoadIssue
    <3>2. /\ rows[call[r].id] \in Row /\ rows[call[r].id].id = call[r].id
          /\ rows[call[r].id].tenant = call[r].tenant /\ Own(r, call[r].id)
      BY <2>2, VisibleIsOwn
    <3>3. /\ copy' \in [Request -> Row \cup {None}]
          /\ copy'[r] = rows[call[r].id] /\ \A q \in Request : q # r => copy'[q] = copy[q]
      BY <1>0, <3>1, <3>2
    <3>4. HoldsOwn(r)'
      BY <2>1, <3>2, <3>3 DEF HoldsOwn, Own
    <3>. QED
      BY <2>1, <3>1, <3>3, <3>4, MoveKeepsInv DEF InFlight
  <2>3. CASE call[r].id \notin VisibleTo(call[r].tenant)
    <3>1. Respond(r, "sent", 404, {}) /\ UNCHANGED copy
      BY <1>6, <2>3 DEF LoadIssue
    <3>. QED
      BY <1>0, <2>1, <3>1, AnswerKeepsInv DEF InFlight
  <2>. QED
    BY <2>2, <2>3
<1>7. ASSUME NEW r \in Request, UpdateIssue(r) PROVE IssuesInv'
  <2>1. pc[r] = "loaded" /\ UpdateRow(r) /\ Step(r, "loaded", "committed") /\ HandlerFrame
        /\ UNCHANGED <<born, call, copy, answer, events>>
    BY <1>0, <1>7 DEF UpdateIssue, HandlerFrame
  <2>2. HoldsOwn(r)'
    BY <2>1 DEF IssuesInv, RequestInv, HoldsOwn, Own, Step, IssuesTypeOK
  <2>. QED
    BY <1>0, <2>1, <2>2, UpdateRowKeeps, MoveKeepsInv DEF InFlight
<1>8. ASSUME NEW r \in Request, UpdateRaises(r) PROVE IssuesInv'
  <2>1. TablesKept /\ HandlerFrame
    BY <1>0, <1>8, TablesUntouched DEF UpdateRaises, HandlerFrame
  <2>. QED
    BY <1>0, <1>8, <2>1, AnswerKeepsInv DEF UpdateRaises, InFlight
<1>9. ASSUME NEW r \in Request, DeleteIssue(r) PROVE IssuesInv'
  <2>1. pc[r] = "loaded" /\ DeleteRow(r) /\ Step(r, "loaded", "refreshed") /\ HandlerFrame
        /\ UNCHANGED <<born, call, copy, answer, events>>
    BY <1>0, <1>9 DEF DeleteIssue, HandlerFrame
  <2>2. HoldsOwn(r)'
    BY <2>1 DEF IssuesInv, RequestInv, HoldsOwn, Own, Step, IssuesTypeOK
  <2>. QED
    BY <1>0, <2>1, <2>2, DeleteRowKeeps, MoveKeepsInv DEF InFlight
<1>10. ASSUME NEW r \in Request, RefreshIssue(r) PROVE IssuesInv'
  <2>1. TablesKept /\ HandlerFrame /\ UNCHANGED <<events, call, born>> /\ pc[r] = "committed"
    BY <1>0, <1>10, TablesUntouched DEF RefreshIssue, HandlerFrame
  <2>2. HoldsOwn(r)
    BY <2>1 DEF IssuesInv, RequestInv
  <2>3. CASE copy[r].id \in DOMAIN rows
    <3>1. Step(r, "committed", "refreshed") /\ copy' = [copy EXCEPT ![r] = rows[copy[r].id]]
          /\ UNCHANGED answer
      BY <1>10, <2>3 DEF RefreshIssue
    <3>2. /\ rows[copy[r].id] \in Row /\ rows[copy[r].id].id = copy[r].id
          /\ rows[copy[r].id].tenant = call[r].tenant
      BY <2>2, <2>3, TableDomain DEF IssuesInv, IssuesTypeOK, RowsKeepTenant, HoldsOwn, Own
    <3>3. /\ copy' \in [Request -> Row \cup {None}]
          /\ copy'[r] = rows[copy[r].id] /\ \A q \in Request : q # r => copy'[q] = copy[q]
      BY <1>0, <3>1, <3>2
    <3>4. pc'[r] = "refreshed"
      BY <3>1 DEF Step, IssuesInv, IssuesTypeOK
    <3>5. HoldsOwn(r)'
      BY <2>1, <2>2, <3>2, <3>3, <3>4 DEF HoldsOwn, Own
    <3>. QED
      BY <2>1, <3>1, <3>3, <3>5, MoveKeepsInv DEF InFlight
  <2>4. CASE copy[r].id \notin DOMAIN rows
    <3>1. Respond(r, "committed", 500, {}) /\ UNCHANGED copy
      BY <1>10, <2>4 DEF RefreshIssue
    <3>. QED
      BY <1>0, <2>1, <3>1, AnswerKeepsInv DEF InFlight
  <2>. QED
    BY <2>3, <2>4
<1>11. ASSUME NEW r \in Request, PublishEvent(r) \/ PublishFails(r) PROVE IssuesInv'
  <2>1. TablesKept /\ HandlerFrame /\ UNCHANGED <<call, born, copy, answer>>
        /\ Step(r, "refreshed", "told")
    BY <1>0, <1>11, TablesUntouched DEF PublishEvent, PublishFails, HandlerFrame
  <2>2. HoldsOwn(r)'
    BY <2>1 DEF IssuesInv, RequestInv, HoldsOwn, Own, Step, IssuesTypeOK
  <2>3. UNCHANGED events \/ events' = Append(events, EventOf(r))
    BY <1>11 DEF PublishEvent, PublishFails
  <2>4. pc[r] = "refreshed"
    BY <2>1 DEF Step
  <2>. QED
    BY <1>0, <2>1, <2>2, <2>3, <2>4, EventIsOwn, MoveKeepsInv DEF InFlight
<1>12. ASSUME NEW r \in Request, Finish(r) PROVE IssuesInv'
  <2>1. TablesKept /\ HandlerFrame /\ UNCHANGED <<events, copy>>
        /\ Respond(r, "told", SuccessCode(r), SuccessBody(r))
    BY <1>0, <1>12, TablesUntouched DEF Finish, HandlerFrame
  <2>2. HoldsOwn(r) /\ call[r] \in Calls
    BY <2>1 DEF Respond, Step, IssuesInv, RequestInv
  <2>3. SuccessCode(r) \in {200, 201, 204}
    BY DEF SuccessCode
  <2>4. SuccessBody(r) \in SUBSET Row /\ \A row \in SuccessBody(r) : row.tenant = call[r].tenant
    BY <2>2 DEF SuccessBody, HoldsOwn
  <2>5. call[r].id # None => Own(r, call[r].id)
    BY <2>2, CallTypes DEF HoldsOwn
  <2>. QED
    BY <1>0, <2>1, <2>3, <2>4, <2>5, AnswerKeepsInv DEF InFlight
<1>13. ASSUME NEW r \in Request, DatabaseFails(r) PROVE IssuesInv'
  <2>1. PICK from \in {"sent", "loaded", "committed"} : Respond(r, from, 500, {})
    BY <1>13 DEF DatabaseFails
  <2>2. HandlerFrame /\ UNCHANGED events
    BY <1>0, <1>13 DEF DatabaseFails, HandlerFrame
  <2>3. /\ TablesKept /\ copy' \in [Request -> Row \cup {None}]
        /\ \A q \in Request : q # r => copy'[q] = copy[q]
    BY <1>0, <1>13, TablesUntouched, CreateRowKeeps, UpdateRowKeeps, DeleteRowKeeps
    DEF DatabaseFails
  <2>. QED
    BY <1>0, <2>1, <2>2, <2>3, AnswerKeepsInv DEF InFlight
<1>14. ASSUME Crash PROVE IssuesInv'
  <2>. USE <1>14 DEF Crash
  <2>1. TablesKept
    BY TablesUntouched
  <2>2. pc' \in [Request -> {"new", "answered", "lost"} \cup InFlight] /\ faults' \in 0 .. MaxFaults
    BY <1>0 DEF IssuesInv, IssuesTypeOK
  <2>3. IssuesTypeOK'
    BY <2>2 DEF IssuesInv, IssuesTypeOK
  <2>4. \A r \in Request : RequestInv(r)'
    BY DEF IssuesInv, RequestInv, HoldsOwn, Own, InFlight
  <2>5. EventsAreOwn'
    <3>1. \A k \in DOMAIN events : events[k].by \in Request
      <4>1. \A k \in DOMAIN events : events[k] \in Event
        BY DEF IssuesInv, IssuesTypeOK
      <4>. QED
        BY <4>1 DEF Event
    <3>. QED
      BY <3>1 DEF IssuesInv, EventsAreOwn, Own
  <2>. QED
    BY <2>1, <2>3, <2>4, <2>5 DEF IssuesInv, TablesKept
<1>. QED
  BY <1>1, <1>2, <1>3, <1>4, <1>5, <1>6, <1>7, <1>8, <1>9, <1>10, <1>11, <1>12, <1>13, <1>14
  DEF IssuesNext

(* Rows keep their tenant and handlers hold only their caller's issues, at *)
(* all times.                                                              *)
THEOREM IssuesInvariant == IssuesSpec => []IssuesInv
<1>1. IssuesInit => IssuesInv
  BY IssuesInvInit
<1>2. IssuesInv /\ [IssuesNext]_issuesVars => IssuesInv'
  <2>1. ASSUME IssuesInv, UNCHANGED issuesVars PROVE IssuesInv'
    BY <2>1 DEF issuesVars, IssuesInv, IssuesTypeOK, RowsKeepTenant, RequestInv, HoldsOwn,
       Own, EventsAreOwn
  <2>. QED
    BY <2>1, IssuesInvKept
<1>. QED
  BY <1>1, <1>2, PTL DEF IssuesSpec

(* The table, the requests and the events keep their types, whatever fails *)
(* and whatever was sent: no required column becomes null (models.py).     *)
THEOREM IssuesTypeCorrect == IssuesSpec => []IssuesTypeOK
<1>1. IssuesInv => IssuesTypeOK
  BY DEF IssuesInv
<1>. QED
  BY <1>1, IssuesInvariant, PTL

(* Tenant isolation (routes.py): no answer and no event carries an issue   *)
(* of another tenant, and naming one is answered as naming none.           *)
THEOREM TenantsAreIsolated == IssuesSpec => []NothingCrossesTenants
<1>1. ASSUME IssuesInv PROVE NothingCrossesTenants
  <2>. USE <1>1 DEF IssuesInv
  <2>1. \A r \in Request : \A row \in answer[r].shown : row.tenant = call[r].tenant
    BY DEF RequestInv
  <2>2. \A k \in DOMAIN events : /\ events[k].tenant = call[events[k].by].tenant
                                 /\ events[k].tenant = born[events[k].id].tenant
    BY DEF EventsAreOwn, Own
  <2>3. ASSUME NEW r \in Request, pc[r] = "answered", call[r].tenant # None,
               call[r].id \in DOMAIN born, born[call[r].id].tenant # call[r].tenant
        PROVE  answer[r].code \in {404, 500}
    <3>1. call[r].id # None
      BY <2>3, TableDomain, IssuesAssumption DEF IssuesTypeOK
    <3>. QED
      BY <2>3, <3>1 DEF RequestInv, Own
  <2>. QED
    BY <2>1, <2>2, <2>3 DEF NothingCrossesTenants
<1>. QED
  BY <1>1, IssuesInvariant, PTL

-----------------------------------------------------------------------------
(* What one step may do to the table. *)
ChangesStep ==
  /\ \A i \in DOMAIN rows' \ DOMAIN rows :
       /\ i \notin DOMAIN born
       /\ \E r \in Request :
            /\ Committing(r, "create", i)
            /\ rows'[i].tenant = call[r].tenant
            /\ rows'[i].data = call[r].body
  /\ \A i \in DOMAIN rows \ DOMAIN rows' :
       \E r \in Request :
         /\ Committing(r, "delete", i)
         /\ call[r].tenant = rows[i].tenant
  /\ \A i \in DOMAIN rows \cap DOMAIN rows' :
       /\ rows'[i].tenant = rows[i].tenant
       /\ \A f \in Field : rows'[i].data[f] # rows[i].data[f] =>
            \E r \in Request :
              /\ Committing(r, "update", i)
              /\ call[r].tenant = rows[i].tenant
              /\ f \in DOMAIN call[r].body
              /\ rows'[i].data[f] = call[r].body[f]

LEMMA CreateIsAskedFor ==
  ASSUME IssuesInv, NEW r \in Request, pc[r] = "sent", pc'[r] # pc[r],
         NEW i \in IssueId, CreateRow(r, i)
  PROVE  ChangesStep
<1>. DEFINE row == [id |-> i, tenant |-> call[r].tenant, data |-> call[r].body]
<1>1. rows' = Stored(i, row) /\ i \notin DOMAIN born /\ Asks(r, "create")
  BY DEF CreateRow
<1>2. i \notin DOMAIN rows
  BY <1>1 DEF IssuesInv, IssuesTypeOK
<1>3. /\ DOMAIN rows' = DOMAIN rows \cup {i} /\ rows'[i] = row
      /\ \A j \in DOMAIN rows : rows'[j] = rows[j]
  BY <1>1, <1>2 DEF Stored
<1>4. Committing(r, "create", i)
  BY <1>1 DEF Committing
<1>. QED
  BY <1>1, <1>3, <1>4 DEF ChangesStep

(* The row a handler holds is the one its call names, of the same tenant.  *)
LEMMA HeldRow ==
  ASSUME IssuesInv, NEW r \in Request, pc[r] = "loaded"
  PROVE  /\ copy[r].id = call[r].id
         /\ copy[r].id \in DOMAIN rows => rows[copy[r].id].tenant = call[r].tenant
BY DEF IssuesInv, RowsKeepTenant, RequestInv, HoldsOwn, Own

LEMMA UpdateIsAskedFor ==
  ASSUME IssuesInv, NEW r \in Request, pc[r] = "loaded", pc'[r] # pc[r],
         UpdateRow(r), UNCHANGED born
  PROVE  ChangesStep
<1>. DEFINE i == copy[r].id
<1>1. /\ DOMAIN rows' = DOMAIN rows
      /\ \A j \in DOMAIN rows : j # i => rows'[j] = rows[j]
      /\ i \in DOMAIN rows => rows'[i] = Patched(rows[i], Dirty(r))
  BY UpdateRowKeeps
<1>2. ASSUME i \in DOMAIN rows
      PROVE  /\ rows'[i].tenant = rows[i].tenant
             /\ \A f \in Field : rows'[i].data[f] # rows[i].data[f] =>
                  f \in DOMAIN call[r].body /\ rows'[i].data[f] = call[r].body[f]
  <2>1. rows[i] \in Row /\ call[r] \in Call
    BY <1>2, TableDomain, CallTypes DEF IssuesInv, IssuesTypeOK, RequestInv
  <2>2. rows'[i].tenant = rows[i].tenant
    BY <1>1, <1>2, <2>1 DEF Patched, Row
  <2>3. \A f \in Field : rows'[i].data[f] =
          IF f \in DOMAIN Dirty(r) THEN Dirty(r)[f] ELSE rows[i].data[f]
    BY <1>1, <1>2, <2>1 DEF Patched, Row
  <2>. QED
    BY <2>1, <2>2, <2>3, DirtyProperties
<1>3. Committing(r, "update", i)
  BY HeldRow DEF Committing, UpdateRow
<1>. QED
  BY <1>1, <1>2, <1>3, HeldRow DEF ChangesStep

LEMMA DeleteIsAskedFor ==
  ASSUME IssuesInv, NEW r \in Request, pc[r] = "loaded", pc'[r] # pc[r],
         DeleteRow(r), UNCHANGED born
  PROVE  ChangesStep
<1>1. DOMAIN rows' = DOMAIN rows \ {copy[r].id} /\ \A i \in DOMAIN rows' : rows'[i] = rows[i]
  BY DeleteRowKeeps
<1>2. Committing(r, "delete", copy[r].id)
  BY HeldRow DEF Committing, DeleteRow
<1>. QED
  BY <1>1, <1>2, HeldRow DEF ChangesStep

LEMMA EveryStepIsAskedFor ==
  ASSUME IssuesInv, IssuesNext
  PROVE  ChangesStep
<1>1. CASE UNCHANGED rows
  BY <1>1 DEF ChangesStep
<1>0. pc \in [Request -> {"new", "answered", "lost"} \cup InFlight]
  BY DEF IssuesInv, IssuesTypeOK
<1>2. ASSUME NEW r \in Request, CreateIssue(r) PROVE ChangesStep
  BY <1>0, <1>2, CreateIsAskedFor DEF CreateIssue, Step
<1>3. ASSUME NEW r \in Request, UpdateIssue(r) PROVE ChangesStep
  BY <1>0, <1>3, UpdateIsAskedFor DEF UpdateIssue, Step
<1>4. ASSUME NEW r \in Request, DeleteIssue(r) PROVE ChangesStep
  BY <1>0, <1>4, DeleteIsAskedFor DEF DeleteIssue, Step
<1>5. ASSUME NEW r \in Request, DatabaseFails(r) PROVE ChangesStep
  <2>1. pc[r] \in {"sent", "loaded", "committed"} /\ pc'[r] = "answered"
    BY <1>0, <1>5 DEF DatabaseFails, Respond, Step
  <2>. QED
    BY <1>1, <1>5, <2>1, CreateIsAskedFor, UpdateIsAskedFor, DeleteIsAskedFor DEF DatabaseFails
<1>6. ASSUME NEW r \in Request,
             \/ Send(r) \/ Forbid(r) \/ ListIssues(r) \/ GetIssue(r) \/ LoadIssue(r)
             \/ UpdateRaises(r) \/ RefreshIssue(r) \/ PublishEvent(r) \/ PublishFails(r)
             \/ Finish(r)
      PROVE  ChangesStep
  <2>1. UNCHANGED rows
    BY <1>6 DEF Send, Forbid, ListIssues, GetIssue, LoadIssue, UpdateRaises, RefreshIssue,
       PublishEvent, PublishFails, Finish
  <2>. QED
    BY <1>1, <2>1
<1>7. CASE Crash
  BY <1>1, <1>7 DEF Crash
<1>. QED
  BY <1>2, <1>3, <1>4, <1>5, <1>6, <1>7 DEF IssuesNext

(* create_issue, update_issue, delete_issue: every change of the table is  *)
(* one that a request of the issue's own tenant asked for, column by       *)
(* column, however SELECTs and commits interleave and whatever fails.      *)
THEOREM ChangesAreAskedFor == IssuesSpec => EveryChangeWasAskedFor
<1>1. IssuesInv /\ [IssuesNext]_issuesVars => [ChangesStep]_issuesVars
  BY EveryStepIsAskedFor
<1>. QED
  BY <1>1, IssuesInvariant, PTL DEF IssuesSpec, EveryChangeWasAskedFor, ChangesStep

-----------------------------------------------------------------------------
(***************************************************************************)
(* What the events tell was committed, in the order a client asked for it, *)
(* and what was deleted stays so.                                          *)
(***************************************************************************)

(* r has committed a change of issue i. *)
CommitBy(r, i) == \E j \in DOMAIN commits : commits[j].by = r /\ commits[j].id = i

(* It has, and the issue was row then or after a later commit. *)
HadRow(r, i, row) ==
  \E j \in DOMAIN commits : \E m \in j .. Len(commits) :
    /\ commits[j].by = r /\ commits[j].id = i
    /\ commits[m].id = i /\ commits[m].row = row
    /\ row = None => m = j

(* The table holds what was committed last. *)
TableIsLast ==
  \A j \in DOMAIN commits : commits[j].id \in DOMAIN rows =>
    \E m \in j .. Len(commits) :
      commits[m].id = commits[j].id /\ commits[m].row = rows[commits[j].id]

CommitsAreSent == \A j \in DOMAIN commits : pc[commits[j].by] # "new"

(* A handler beyond its commit has made it, or has updated no column of an *)
(* issue that is gone, and then its refresh will fail.                     *)
CommittedByThen ==
  \A r \in Request :
    /\ pc[r] = "committed" =>
         /\ call[r].op # "delete"
         /\ CommitBy(r, copy[r].id) \/ copy[r].id \notin DOMAIN rows
    /\ pc[r] = "refreshed" =>
         HadRow(r, copy[r].id, IF call[r].op = "delete" THEN None ELSE copy[r])

Past == {"told", "answered", "lost"}

(* An event tells what its request committed. *)
Tells(e) ==
  /\ e.event = EventName[call[e.by].op]
  /\ pc[e.by] \in Past
  /\ IF e.event = "issue.deleted"
       THEN HadRow(e.by, e.id, None)
       ELSE \E row \in Row : HadRow(e.by, e.id, row) /\ Restrict(row.data, Told) = e.data

EventsTellCommits == \A k \in DOMAIN events : Tells(events[k])

(* A request publishes at most once. *)
EventsDiffer == \A k, l \in DOMAIN events : events[k].by = events[l].by => k = l

ToldInv == TableIsLast /\ CommitsAreSent /\ CommittedByThen /\ EventsTellCommits /\ EventsDiffer

-----------------------------------------------------------------------------
(* What a step of issues-service does to all that. *)

CallsStay ==
  \A r \in Request :
    /\ pc[r] # "new" => call'[r] = call[r] /\ pc'[r] # "new"
    /\ pc[r] \in Past => pc'[r] \in Past

CommitsGrow ==
  \/ UNCHANGED <<rows, commits>>
  \/ \E r \in Request, i \in IssueId, row \in Row \cup {None} :
       /\ Logged(r, i, row)
       /\ \A k \in DOMAIN rows' :
            IF k = i THEN rows'[k] = row ELSE k \in DOMAIN rows /\ rows'[k] = rows[k]
       /\ pc[r] \in {"sent", "loaded"}
       /\ call[r].op \in DOMAIN EventName /\ call[r].tenant \in Tenant

NoneReborn == \A i \in DOMAIN born : i \notin DOMAIN rows => i \notin DOMAIN rows'

CommitsFirst ==
  \A r \in Request :
    /\ pc'[r] = "committed" =>
         \/ pc[r] = "committed" /\ copy'[r] = copy[r]
         \/ /\ call'[r].op # "delete"
            /\ CommitBy(r, copy[r].id)' \/ copy'[r].id \notin DOMAIN rows'
    /\ pc'[r] = "refreshed" =>
         \/ pc[r] = "refreshed" /\ copy'[r] = copy[r]
         \/ call'[r].op = "delete" /\ HadRow(r, copy[r].id, None)'
         \/ /\ pc[r] = "committed" /\ copy[r].id \in DOMAIN rows
            /\ copy'[r] = rows[copy[r].id] /\ UNCHANGED commits

EventsGrow ==
  \/ UNCHANGED events
  \/ \E r \in Request :
       pc[r] = "refreshed" /\ pc'[r] = "told" /\ events' = Append(events, EventOf(r))

ToldStep == CallsStay /\ CommitsGrow /\ NoneReborn /\ CommitsFirst /\ EventsGrow

(* The history types the lemmas below need. *)
LEMMA Histories ==
  ASSUME IssuesInv
  PROVE  /\ commits \in Seq(CommitRecord) /\ events \in Seq(Event)
         /\ pc \in [Request -> {"new", "answered", "lost"} \cup InFlight]
         /\ call \in [Request -> Calls \cup {None}]
         /\ copy \in [Request -> Row \cup {None}]
         /\ DOMAIN rows \subseteq DOMAIN born
BY DEF IssuesInv, IssuesTypeOK, CommitRecord

LEMMA CommitsKept ==
  ASSUME IssuesInv, CommitsGrow
  PROVE  /\ Len(commits) \in Nat /\ DOMAIN commits = 1 .. Len(commits)
         /\ Len(commits') \in Nat /\ DOMAIN commits' = 1 .. Len(commits')
         /\ Len(commits) <= Len(commits')
         /\ \A j \in DOMAIN commits : j \in DOMAIN commits' /\ commits'[j] = commits[j]
         /\ \A r, i : CommitBy(r, i) => CommitBy(r, i)'
         /\ \A r, i, row : HadRow(r, i, row) => HadRow(r, i, row)'
<1>1. commits \in Seq(CommitRecord)
  BY Histories
<1>2. Len(commits) \in Nat /\ DOMAIN commits = 1 .. Len(commits)
  BY <1>1, LenProperties
<1>3. /\ Len(commits') \in Nat /\ DOMAIN commits' = 1 .. Len(commits')
      /\ Len(commits) <= Len(commits')
      /\ \A j \in DOMAIN commits : j \in DOMAIN commits' /\ commits'[j] = commits[j]
  <2>1. CASE UNCHANGED commits
    BY <1>2, <2>1
  <2>2. ASSUME NEW r \in Request, NEW i \in IssueId, NEW row \in Row \cup {None},
               Logged(r, i, row)
        PROVE  /\ Len(commits') \in Nat /\ DOMAIN commits' = 1 .. Len(commits')
               /\ Len(commits) <= Len(commits')
               /\ \A j \in DOMAIN commits : j \in DOMAIN commits' /\ commits'[j] = commits[j]
    <3>1. [by |-> r, id |-> i, row |-> row] \in CommitRecord
      BY DEF CommitRecord
    <3>2. /\ commits' \in Seq(CommitRecord) /\ Len(commits') = Len(commits) + 1
          /\ \A j \in 1 .. Len(commits) : commits'[j] = commits[j]
      BY <1>1, <2>2, <3>1, AppendProperties DEF Logged
    <3>3. DOMAIN commits' = 1 .. Len(commits')
      BY <3>2, LenProperties
    <3>. QED
      BY <1>2, <3>2, <3>3
  <2>. QED
    BY <2>1, <2>2 DEF CommitsGrow
<1>4. ASSUME NEW r, NEW i, NEW row, HadRow(r, i, row) PROVE HadRow(r, i, row)'
  <2>1. PICK j \in DOMAIN commits : \E m \in j .. Len(commits) :
          /\ commits[j].by = r /\ commits[j].id = i
          /\ commits[m].id = i /\ commits[m].row = row
          /\ row = None => m = j
    BY <1>4 DEF HadRow
  <2>2. PICK m \in j .. Len(commits) :
          /\ commits[j].by = r /\ commits[j].id = i
          /\ commits[m].id = i /\ commits[m].row = row
          /\ row = None => m = j
    BY <2>1
  <2>3. m \in DOMAIN commits /\ m \in j .. Len(commits')
    BY <1>2, <1>3
  <2>. QED
    BY <1>3, <2>2, <2>3 DEF HadRow
<1>. QED
  BY <1>2, <1>3, <1>4 DEF CommitBy

(* The new commit is the last. *)
LEMMA LoggedIsCommit ==
  ASSUME IssuesInv, NEW r \in Request, NEW i \in IssueId, NEW row \in Row \cup {None},
         Logged(r, i, row)
  PROVE  /\ CommitBy(r, i)' /\ HadRow(r, i, row)'
         /\ \A j \in DOMAIN commits' :
              \/ j \in DOMAIN commits /\ commits'[j] = commits[j]
              \/ commits'[j].by = r /\ commits'[j].id = i
         /\ Len(commits') \in DOMAIN commits'
         /\ commits'[Len(commits')] = [by |-> r, id |-> i, row |-> row]
<1>1. commits \in Seq(CommitRecord) /\ [by |-> r, id |-> i, row |-> row] \in CommitRecord
  BY Histories DEF CommitRecord
<1>. DEFINE n == Len(commits)
<1>2. /\ commits' \in Seq(CommitRecord) /\ Len(commits') = n + 1
      /\ \A j \in 1 .. n : commits'[j] = commits[j]
      /\ commits'[n + 1] = [by |-> r, id |-> i, row |-> row]
  BY <1>1, AppendProperties DEF Logged
<1>3. n \in Nat /\ DOMAIN commits = 1 .. n /\ DOMAIN commits' = 1 .. n + 1
  BY <1>1, <1>2, LenProperties
<1>4. \A j \in DOMAIN commits' : j \in DOMAIN commits \/ j = n + 1
  BY <1>3
<1>5. n + 1 \in DOMAIN commits' /\ n + 1 \in (n + 1) .. Len(commits')
  BY <1>2, <1>3
<1>. QED
  BY <1>2, <1>3, <1>4, <1>5 DEF CommitBy, HadRow

(* A handler that holds something, and its call. *)
LEMMA Held ==
  ASSUME IssuesInv, NEW r \in Request,
         pc[r] \in {"loaded", "committed", "refreshed", "told"}
  PROVE  /\ copy[r] \in Row /\ copy[r].id \in IssueId /\ copy[r].id \in DOMAIN born
         /\ call[r] \in Calls /\ call[r].op \in DOMAIN EventName
         /\ call[r].tenant \in Tenant /\ copy[r].tenant = call[r].tenant
<1>1. HoldsOwn(r) /\ call[r] \in Calls
  BY DEF IssuesInv, RequestInv
<1>2. DOMAIN EventName = {"create", "update", "delete"}
  BY DEF EventName
<1>. QED
  BY <1>1, <1>2, RowFields DEF HoldsOwn, Own

-----------------------------------------------------------------------------
(* The three ways to commit. *)

LEMMA CreateTells ==
  ASSUME IssuesInv, NEW r \in Request, pc[r] = "sent", NEW i \in IssueId, CreateRow(r, i)
  PROVE  CommitsGrow /\ NoneReborn /\ copy'[r].id = i /\ CommitBy(r, i)'
<1>. DEFINE row == [id |-> i, tenant |-> call[r].tenant, data |-> call[r].body]
<1>1. call[r] \in Calls /\ call[r].op = "create" /\ call[r].tenant \in Tenant
  BY CallTypes DEF IssuesInv, RequestInv, CreateRow, Asks
<1>2. row \in Row
  BY <1>1, CallTypes DEF Row
<1>3. Logged(r, i, row) /\ rows' = Stored(i, row) /\ i \notin DOMAIN born
  BY DEF CreateRow
<1>4. CommitsGrow
  BY <1>1, <1>2, <1>3 DEF CommitsGrow, EventName, Stored
<1>5. NoneReborn
  BY <1>3 DEF NoneReborn, Stored
<1>6. PICK new \in Row : new = row
  BY <1>2
<1>7. CommitBy(r, i)'
  BY <1>3, <1>6, LoggedIsCommit
<1>. QED
  BY <1>4, <1>5, <1>7, CreateRowKeeps

LEMMA UpdateTells ==
  ASSUME IssuesInv, NEW r \in Request, pc[r] = "loaded", UpdateRow(r), UNCHANGED <<born, copy>>
  PROVE  /\ CommitsGrow /\ NoneReborn
         /\ CommitBy(r, copy[r].id)' \/ copy'[r].id \notin DOMAIN rows'
<1>. DEFINE i == copy[r].id
<1>1. DOMAIN rows' = DOMAIN rows /\ rows' \in Table
  BY UpdateRowKeeps DEF TablesKept
<1>2. NoneReborn
  BY <1>1 DEF NoneReborn
<1>3. i \in IssueId /\ call[r].op \in DOMAIN EventName /\ call[r].tenant \in Tenant
  BY Held
<1>4. CASE i \in DOMAIN rows
  <2>1. Logged(r, i, rows'[i])
    BY <1>4 DEF UpdateRow
  <2>2. rows'[i] \in Row
    BY <1>1, <1>4, TableDomain
  <2>3. CommitsGrow
    BY <1>1, <1>3, <2>1, <2>2, UpdateRowKeeps DEF CommitsGrow
  <2>4. CommitBy(r, copy[r].id)'
    <3>1. PICK j \in IssueId : j = copy[r].id
      BY <1>3
    <3>2. CommitBy(r, j)'
      BY <2>1, <2>2, <3>1, LoggedIsCommit
    <3>. QED
      BY <3>1, <3>2 DEF CommitBy
  <2>. QED
    BY <1>2, <2>3, <2>4
<1>5. CASE i \notin DOMAIN rows
  BY <1>1, <1>2, <1>5 DEF UpdateRow, CommitsGrow
<1>. QED
  BY <1>4, <1>5

LEMMA DeleteTells ==
  ASSUME IssuesInv, NEW r \in Request, pc[r] = "loaded", DeleteRow(r), UNCHANGED <<born, copy>>
  PROVE  CommitsGrow /\ NoneReborn /\ HadRow(r, copy[r].id, None)'
<1>1. DOMAIN rows' = DOMAIN rows \ {copy[r].id} /\ \A k \in DOMAIN rows' : rows'[k] = rows[k]
  BY DeleteRowKeeps
<1>2. /\ Logged(r, copy[r].id, None) /\ copy[r].id \in IssueId
      /\ call[r].op \in DOMAIN EventName /\ call[r].tenant \in Tenant
  BY Held DEF DeleteRow
<1>3. CommitsGrow
  BY <1>1, <1>2 DEF CommitsGrow
<1>4. HadRow(r, copy[r].id, None)'
  <2>1. PICK i \in IssueId : i = copy[r].id
    BY <1>2
  <2>2. HadRow(r, i, None)'
    BY <1>2, <2>1, LoggedIsCommit
  <2>. QED
    BY <2>1, <2>2 DEF HadRow
<1>. QED
  BY <1>1, <1>3, <1>4 DEF NoneReborn

-----------------------------------------------------------------------------
(* One request moves. *)
LEMMA MoveTells ==
  ASSUME IssuesInv, NEW r \in Request,
         NEW to \in {"answered"} \cup InFlight, pc' = [pc EXCEPT ![r] = to],
         pc[r] \in Past => to \in Past,
         \A q \in Request : q # r => copy'[q] = copy[q],
         \A q \in Request : pc[q] # "new" => call'[q] = call[q],
         CommitsGrow, NoneReborn, EventsGrow,
         to = "committed" =>
           /\ call'[r].op # "delete"
           /\ CommitBy(r, copy[r].id)' \/ copy'[r].id \notin DOMAIN rows',
         to = "refreshed" =>
           \/ call'[r].op = "delete" /\ HadRow(r, copy[r].id, None)'
           \/ /\ pc[r] = "committed" /\ copy[r].id \in DOMAIN rows
              /\ copy'[r] = rows[copy[r].id] /\ UNCHANGED commits
  PROVE  ToldStep
<1>1. pc \in [Request -> {"new", "answered", "lost"} \cup InFlight]
  BY Histories
<1>2. pc'[r] = to /\ to # "new" /\ \A q \in Request : q # r => pc'[q] = pc[q]
  BY <1>1 DEF InFlight
<1>3. CallsStay
  <2>. SUFFICES ASSUME NEW q \in Request
                PROVE  /\ pc[q] # "new" => call'[q] = call[q] /\ pc'[q] # "new"
                       /\ pc[q] \in Past => pc'[q] \in Past
    BY DEF CallsStay
  <2>1. CASE q = r
    BY <1>2, <2>1
  <2>2. CASE q # r
    BY <1>2, <2>2
  <2>. QED
    BY <2>1, <2>2
<1>4. CommitsFirst
  <2>. SUFFICES ASSUME NEW q \in Request
                PROVE  /\ pc'[q] = "committed" =>
                            \/ pc[q] = "committed" /\ copy'[q] = copy[q]
                            \/ /\ call'[q].op # "delete"
                               /\ CommitBy(q, copy[q].id)' \/ copy'[q].id \notin DOMAIN rows'
                       /\ pc'[q] = "refreshed" =>
                            \/ pc[q] = "refreshed" /\ copy'[q] = copy[q]
                            \/ call'[q].op = "delete" /\ HadRow(q, copy[q].id, None)'
                            \/ /\ pc[q] = "committed" /\ copy[q].id \in DOMAIN rows
                               /\ copy'[q] = rows[copy[q].id] /\ UNCHANGED commits
    BY DEF CommitsFirst
  <2>1. CASE q = r
    BY <1>2, <2>1
  <2>2. CASE q # r
    BY <1>2, <2>2
  <2>. QED
    BY <2>1, <2>2
<1>. QED
  BY <1>3, <1>4 DEF ToldStep

(* One that leaves the tables and the events alone, and is not a refresh.  *)
LEMMA QuietMoveTells ==
  ASSUME IssuesInv, NEW r \in Request,
         NEW to \in {"sent", "loaded", "told", "answered"}, pc' = [pc EXCEPT ![r] = to],
         pc[r] \in Past => to \in Past,
         \A q \in Request : q # r => copy'[q] = copy[q],
         \A q \in Request : pc[q] # "new" => call'[q] = call[q],
         UNCHANGED <<rows, commits, events>>
  PROVE  ToldStep
<1>1. CommitsGrow /\ NoneReborn /\ EventsGrow
  BY DEF CommitsGrow, NoneReborn, EventsGrow
<1>2. to \in {"answered"} \cup InFlight
  BY DEF InFlight
<1>. QED
  BY <1>1, <1>2, MoveTells

LEMMA NextTells ==
  ASSUME IssuesInv, IssuesNext
  PROVE  ToldStep
<1>0. /\ pc \in [Request -> {"new", "answered", "lost"} \cup InFlight]
      /\ call \in [Request -> Calls \cup {None}]
      /\ copy \in [Request -> Row \cup {None}]
  BY Histories
<1>. USE DEF Past
<1>1. ASSUME NEW r \in Request, Send(r) PROVE ToldStep
  <2>1. /\ pc' = [pc EXCEPT ![r] = "sent"] /\ pc[r] = "new"
        /\ UNCHANGED <<rows, copy, commits, events>>
        /\ \E q \in Calls : call' = [call EXCEPT ![r] = q]
    BY <1>1 DEF Send, Step
  <2>2. \A q \in Request : pc[q] # "new" => call'[q] = call[q]
    BY <1>0, <2>1
  <2>. QED
    BY <2>1, <2>2, QuietMoveTells
<1>2. ASSUME NEW r \in Request,
             Forbid(r) \/ ListIssues(r) \/ GetIssue(r) \/ UpdateRaises(r) \/ Finish(r)
      PROVE  ToldStep
  <2>1. /\ pc' = [pc EXCEPT ![r] = "answered"]
        /\ UNCHANGED <<rows, copy, call, commits, events>>
    BY <1>2 DEF Forbid, ListIssues, GetIssue, UpdateRaises, Finish, Respond, Step
  <2>. QED
    BY <2>1, QuietMoveTells
<1>3. ASSUME NEW r \in Request, LoadIssue(r) PROVE ToldStep
  <2>1. /\ pc' = [pc EXCEPT ![r] = "answered"] \/ pc' = [pc EXCEPT ![r] = "loaded"]
        /\ UNCHANGED copy \/ copy' = [copy EXCEPT ![r] = rows[call[r].id]]
        /\ pc[r] = "sent" /\ UNCHANGED <<rows, call, commits, events>>
    BY <1>3 DEF LoadIssue, Respond, Step
  <2>2. \A q \in Request : q # r => copy'[q] = copy[q]
    BY <1>0, <2>1
  <2>. QED
    BY <2>1, <2>2, QuietMoveTells
<1>4. ASSUME NEW r \in Request, CreateIssue(r) PROVE ToldStep
  <2>1. PICK i \in IssueId : CreateRow(r, i)
    BY <1>4 DEF CreateIssue
  <2>2. /\ pc[r] = "sent" /\ pc' = [pc EXCEPT ![r] = "committed"]
        /\ UNCHANGED <<call, events>>
    BY <1>4 DEF CreateIssue, Step
  <2>3. CommitsGrow /\ NoneReborn /\ copy'[r].id = i /\ CommitBy(r, i)'
    BY <2>1, <2>2, CreateTells
  <2>4. \A q \in Request : q # r => copy'[q] = copy[q]
    BY <2>1, <2>2, CreateRowKeeps
  <2>5. CommitBy(r, copy[r].id)' /\ call'[r].op # "delete"
    BY <2>1, <2>2, <2>3 DEF CommitBy, CreateRow, Asks
  <2>. QED
    BY <2>2, <2>3, <2>4, <2>5, MoveTells DEF EventsGrow, InFlight
<1>5. ASSUME NEW r \in Request, UpdateIssue(r) PROVE ToldStep
  <2>1. /\ pc[r] = "loaded" /\ pc' = [pc EXCEPT ![r] = "committed"] /\ UpdateRow(r)
        /\ UNCHANGED <<born, call, copy, events>>
    BY <1>5 DEF UpdateIssue, Step
  <2>2. /\ CommitsGrow /\ NoneReborn /\ call'[r].op # "delete"
        /\ CommitBy(r, copy[r].id)' \/ copy'[r].id \notin DOMAIN rows'
    BY <2>1, UpdateTells DEF UpdateRow, Asks
  <2>. QED
    BY <2>1, <2>2, MoveTells DEF EventsGrow, InFlight
<1>6. ASSUME NEW r \in Request, DeleteIssue(r) PROVE ToldStep
  <2>1. /\ pc[r] = "loaded" /\ pc' = [pc EXCEPT ![r] = "refreshed"] /\ DeleteRow(r)
        /\ UNCHANGED <<born, call, copy, events>>
    BY <1>6 DEF DeleteIssue, Step
  <2>2. /\ CommitsGrow /\ NoneReborn /\ call'[r].op = "delete"
        /\ HadRow(r, copy[r].id, None)'
    BY <2>1, DeleteTells DEF DeleteRow, Asks
  <2>. QED
    BY <2>1, <2>2, MoveTells DEF EventsGrow, InFlight
<1>7. ASSUME NEW r \in Request, RefreshIssue(r) PROVE ToldStep
  <2>1. pc[r] = "committed" /\ UNCHANGED <<rows, born, call, events, commits>>
    BY <1>7 DEF RefreshIssue
  <2>2. CASE copy[r].id \in DOMAIN rows
    <3>1. /\ pc' = [pc EXCEPT ![r] = "refreshed"]
          /\ copy' = [copy EXCEPT ![r] = rows[copy[r].id]]
      BY <1>7, <2>2 DEF RefreshIssue, Step
    <3>2. copy'[r] = rows[copy[r].id] /\ \A q \in Request : q # r => copy'[q] = copy[q]
      BY <1>0, <3>1
    <3>. QED
      BY <2>1, <2>2, <3>1, <3>2, MoveTells DEF EventsGrow, CommitsGrow, NoneReborn, InFlight
  <2>3. CASE copy[r].id \notin DOMAIN rows
    <3>1. pc' = [pc EXCEPT ![r] = "answered"] /\ UNCHANGED copy
      BY <1>7, <2>3 DEF RefreshIssue, Respond, Step
    <3>. QED
      BY <2>1, <3>1, QuietMoveTells
  <2>. QED
    BY <2>2, <2>3
<1>8. ASSUME NEW r \in Request, PublishEvent(r) PROVE ToldStep
  <2>1. /\ pc[r] = "refreshed" /\ pc' = [pc EXCEPT ![r] = "told"]
        /\ events' = Append(events, EventOf(r)) /\ UNCHANGED <<rows, call, copy, commits>>
    BY <1>8 DEF PublishEvent, Step
  <2>2. EventsGrow /\ CommitsGrow /\ NoneReborn
    BY <1>0, <2>1 DEF EventsGrow, CommitsGrow, NoneReborn
  <2>. QED
    BY <2>1, <2>2, MoveTells DEF InFlight
<1>9. ASSUME NEW r \in Request, PublishFails(r) PROVE ToldStep
  <2>1. /\ pc[r] = "refreshed" /\ pc' = [pc EXCEPT ![r] = "told"]
        /\ UNCHANGED <<rows, call, copy, commits, events>>
    BY <1>9 DEF PublishFails, Step
  <2>. QED
    BY <2>1, QuietMoveTells
<1>10. ASSUME NEW r \in Request, DatabaseFails(r) PROVE ToldStep
  <2>1. /\ pc[r] \in {"sent", "loaded", "committed"} /\ pc' = [pc EXCEPT ![r] = "answered"]
        /\ UNCHANGED <<call, events>>
    BY <1>10 DEF DatabaseFails, Respond, Step
  <2>2. CommitsGrow /\ NoneReborn /\ \A q \in Request : q # r => copy'[q] = copy[q]
    <3>1. CASE UNCHANGED <<rows, born, copy, commits>>
      BY <3>1 DEF CommitsGrow, NoneReborn
    <3>2. CASE pc[r] = "sent" /\ \E i \in IssueId : CreateRow(r, i)
      BY <3>2, CreateTells, CreateRowKeeps
    <3>3. CASE pc[r] = "loaded" /\ UpdateRow(r) /\ UNCHANGED <<born, copy>>
      BY <3>3, UpdateTells
    <3>4. CASE pc[r] = "loaded" /\ DeleteRow(r) /\ UNCHANGED <<born, copy>>
      BY <3>4, DeleteTells
    <3>. QED
      BY <1>10, <3>1, <3>2, <3>3, <3>4 DEF DatabaseFails
  <2>. QED
    BY <2>1, <2>2, MoveTells DEF EventsGrow
<1>11. CASE Crash
  <2>1. /\ pc' = [r \in Request |-> IF pc[r] \in InFlight THEN "lost" ELSE pc[r]]
        /\ UNCHANGED <<rows, call, copy, commits, events>>
    BY <1>11 DEF Crash
  <2>2. \A r \in Request : pc'[r] \notin InFlight /\ (pc[r] # "new" => pc'[r] # "new")
                           /\ (pc[r] \in Past => pc'[r] \in Past)
    BY <1>0, <2>1 DEF InFlight
  <2>. QED
    BY <2>1, <2>2
    DEF ToldStep, CallsStay, CommitsGrow, NoneReborn, CommitsFirst, EventsGrow, InFlight
<1>. QED
  BY <1>1, <1>2, <1>3, <1>4, <1>5, <1>6, <1>7, <1>8, <1>9, <1>10, <1>11 DEF IssuesNext

-----------------------------------------------------------------------------
(* So that what events tell was committed, always. *)

LEMMA ToldInvInit ==
  ASSUME IssuesInit
  PROVE  ToldInv
BY DEF IssuesInit, ToldInv, TableIsLast, CommitsAreSent, CommittedByThen, EventsTellCommits,
   EventsDiffer

LEMMA TableStaysLast ==
  ASSUME IssuesInv, TableIsLast, CommitsGrow
  PROVE  TableIsLast'
<1>1. CASE UNCHANGED <<rows, commits>>
  BY <1>1 DEF TableIsLast
<1>2. ASSUME NEW r \in Request, NEW i \in IssueId, NEW row \in Row \cup {None},
             Logged(r, i, row),
             \A k \in DOMAIN rows' :
               IF k = i THEN rows'[k] = row ELSE k \in DOMAIN rows /\ rows'[k] = rows[k]
      PROVE  TableIsLast'
  <2>. DEFINE n == Len(commits')
  <2>. SUFFICES ASSUME NEW j \in DOMAIN commits', commits'[j].id \in DOMAIN rows'
                PROVE  \E m \in j .. n :
                         /\ commits'[m].id = commits'[j].id
                         /\ commits'[m].row = rows'[commits'[j].id]
    BY DEF TableIsLast
  <2>1. CASE commits'[j].id = i
    <3>1. n \in Nat /\ n \in j .. n
      BY CommitsKept
    <3>2. commits'[n] = [by |-> r, id |-> i, row |-> row]
      BY <1>2, LoggedIsCommit
    <3>. QED
      BY <1>2, <2>1, <3>1, <3>2
  <2>2. CASE commits'[j].id # i
    <3>1. j \in DOMAIN commits /\ commits'[j] = commits[j]
      BY <1>2, <2>2, LoggedIsCommit
    <3>2. commits[j].id \in DOMAIN rows /\ rows'[commits[j].id] = rows[commits[j].id]
      BY <1>2, <2>2, <3>1
    <3>3. PICK m \in j .. Len(commits) :
            commits[m].id = commits[j].id /\ commits[m].row = rows[commits[j].id]
      BY <3>1, <3>2 DEF TableIsLast
    <3>4. m \in DOMAIN commits /\ m \in j .. n
      BY <3>1, <3>3, CommitsKept
    <3>5. commits'[m] = commits[m]
      BY <3>4, CommitsKept
    <3>. QED
      BY <3>1, <3>2, <3>3, <3>4, <3>5
  <2>. QED
    BY <2>1, <2>2
<1>. QED
  BY <1>1, <1>2 DEF CommitsGrow

LEMMA StillCommitted ==
  ASSUME IssuesInv, CommitsGrow, NEW r \in Request, copy'[r] = copy[r]
  PROVE  /\ CommitBy(r, copy[r].id) => CommitBy(r, copy[r].id)'
         /\ \A row : HadRow(r, copy[r].id, row) => HadRow(r, copy[r].id, row)'
<1>1. PICK i : i = copy[r].id
  OBVIOUS
<1>2. /\ CommitBy(r, i) => CommitBy(r, i)'
      /\ \A row : HadRow(r, i, row) => HadRow(r, i, row)'
  BY CommitsKept
<1>. QED
  BY <1>1, <1>2 DEF CommitBy, HadRow

(* What the refresh reads was committed with its own change, or later. *)
LEMMA RefreshedWas ==
  ASSUME IssuesInv, TableIsLast, NEW r \in Request, copy[r].id \in DOMAIN rows,
         CommitBy(r, copy[r].id)
  PROVE  HadRow(r, copy[r].id, rows[copy[r].id])
<1>1. PICK j \in DOMAIN commits : commits[j].by = r /\ commits[j].id = copy[r].id
  BY DEF CommitBy
<1>2. PICK m \in j .. Len(commits) :
        commits[m].id = commits[j].id /\ commits[m].row = rows[commits[j].id]
  BY <1>1 DEF TableIsLast
<1>3. rows[copy[r].id] \in Row
  BY TableDomain DEF IssuesInv, IssuesTypeOK
<1>4. rows[copy[r].id] # None
  BY <1>3, IssuesAssumption
<1>. QED
  BY <1>1, <1>2, <1>4 DEF HadRow

LEMMA StillTells ==
  ASSUME IssuesInv, CommitsGrow, CallsStay, NEW e \in Event, Tells(e)
  PROVE  Tells(e)'
<1>1. e.by \in Request /\ pc[e.by] # "new"
  BY DEF Event, Tells, Past
<1>2. \A row : HadRow(e.by, e.id, row) => HadRow(e.by, e.id, row)'
  BY CommitsKept
<1>3. e.event = EventName[call'[e.by].op] /\ pc'[e.by] \in Past
  BY <1>1 DEF Tells, CallsStay
<1>. QED
  BY <1>2, <1>3 DEF Tells

LEMMA ToldInvKept ==
  ASSUME IssuesInv, ToldInv, ToldStep
  PROVE  ToldInv'
<1>. USE DEF ToldInv, ToldStep
<1>1. ASSUME NEW j \in DOMAIN commits' PROVE pc'[commits'[j].by] # "new"
  <2>1. ASSUME NEW k \in DOMAIN commits PROVE pc'[commits[k].by] # "new"
    <3>1. commits[k] \in CommitRecord
      BY Histories
    <3>2. commits[k].by \in Request
      BY <3>1 DEF CommitRecord
    <3>. QED
      BY <3>2 DEF CommitsAreSent, CallsStay
  <2>2. CASE UNCHANGED commits
    BY <2>1, <2>2
  <2>3. ASSUME NEW r \in Request, NEW i \in IssueId, NEW row \in Row \cup {None},
               Logged(r, i, row), pc[r] \in {"sent", "loaded"}
        PROVE  pc'[commits'[j].by] # "new"
    <3>1. (j \in DOMAIN commits /\ commits'[j] = commits[j]) \/ commits'[j].by = r
      BY <2>3, LoggedIsCommit
    <3>. QED
      BY <2>1, <2>3, <3>1 DEF CallsStay
  <2>. QED
    BY <2>2, <2>3 DEF CommitsGrow
<1>2. ASSUME NEW r \in Request
      PROVE  /\ pc'[r] = "committed" =>
                  /\ call'[r].op # "delete"
                  /\ CommitBy(r, copy[r].id)' \/ copy'[r].id \notin DOMAIN rows'
             /\ pc'[r] = "refreshed" =>
                  HadRow(r, copy[r].id, IF call[r].op = "delete" THEN None ELSE copy[r])'
  <2>1. ASSUME pc[r] = "committed", copy[r].id \notin DOMAIN rows
        PROVE  copy[r].id \notin DOMAIN rows'
    BY <2>1, Held DEF NoneReborn
  <2>2. CASE pc'[r] = "committed" /\ pc[r] = "committed" /\ copy'[r] = copy[r]
    BY <2>1, <2>2, StillCommitted DEF CommittedByThen, CallsStay
  <2>3. CASE pc'[r] = "refreshed" /\ pc[r] = "refreshed" /\ copy'[r] = copy[r]
    <3>1. call'[r] = call[r]
      BY <2>3 DEF CallsStay
    <3>2. PICK row : row = IF call[r].op = "delete" THEN None ELSE copy[r]
      OBVIOUS
    <3>3. HadRow(r, copy[r].id, row)
      BY <2>3, <3>2 DEF CommittedByThen
    <3>4. HadRow(r, copy[r].id, row)'
      BY <2>3, <3>3, StillCommitted
    <3>. QED
      BY <2>3, <3>1, <3>2, <3>4 DEF HadRow
  <2>4. CASE /\ pc'[r] = "refreshed" /\ pc[r] = "committed" /\ copy[r].id \in DOMAIN rows
             /\ copy'[r] = rows[copy[r].id] /\ UNCHANGED commits
    <3>1. HadRow(r, copy[r].id, rows[copy[r].id]) /\ call[r].op # "delete"
      BY <2>4, RefreshedWas DEF CommittedByThen
    <3>2. call'[r] = call[r] /\ copy'[r].id = copy[r].id
      BY <2>4 DEF CallsStay, IssuesInv, RowsKeepTenant
    <3>. QED
      BY <2>4, <3>1, <3>2 DEF HadRow
  <2>5. CASE pc'[r] = "refreshed" /\ call'[r].op = "delete" /\ HadRow(r, copy[r].id, None)'
    BY <2>5 DEF HadRow
  <2>. QED
    BY <2>2, <2>3, <2>4, <2>5 DEF CommitsFirst
<1>3. ASSUME NEW k \in DOMAIN events
      PROVE  \E e \in Event : e = events[k] /\ Tells(e) /\ Tells(e)'
  <2>1. PICK e \in Event : e = events[k]
    BY Histories
  <2>2. Tells(e)
    BY <2>1 DEF EventsTellCommits
  <2>3. Tells(e)'
    BY <2>2, StillTells
  <2>. QED
    BY <2>1, <2>2, <2>3
<1>4. EventsTellCommits' /\ EventsDiffer'
  <2>1. CASE UNCHANGED events
    <3>1. EventsDiffer'
      BY <2>1 DEF EventsDiffer
    <3>2. ASSUME NEW k \in DOMAIN events PROVE Tells(events[k])'
      BY <1>3, <2>1 DEF Tells, HadRow
    <3>. QED
      BY <2>1, <3>1, <3>2 DEF EventsTellCommits
  <2>2. ASSUME NEW r \in Request, pc[r] = "refreshed", pc'[r] = "told",
               events' = Append(events, EventOf(r))
        PROVE  EventsTellCommits' /\ EventsDiffer'
    <3>1. PICK e \in Event : e = EventOf(r)
      BY <2>2, EventIsOwn
    <3>2. e.by = r /\ e.id = copy[r].id /\ e.event = EventName[call[r].op]
      BY <3>1 DEF EventOf
    <3>3. Tells(e)'
      <4>1. PICK row : row = IF call[r].op = "delete" THEN None ELSE copy[r]
        OBVIOUS
      <4>2. HadRow(e.by, e.id, row)'
        BY <2>2, <3>2, <4>1, CommitsKept DEF CommittedByThen
      <4>3. call'[r] = call[r] /\ call[r].op \in DOMAIN EventName /\ copy[r] \in Row
        BY <2>2, Held DEF CallsStay
      <4>4. CASE call[r].op = "delete"
        BY <2>2, <3>2, <4>1, <4>2, <4>3, <4>4 DEF Tells, Past, EventName
      <4>5. CASE call[r].op # "delete"
        <5>1. e.event # "issue.deleted" /\ Restrict(row.data, Told) = e.data
          BY <3>1, <3>2, <4>1, <4>3, <4>5 DEF EventOf, EventName
        <5>. QED
          BY <2>2, <3>2, <4>1, <4>2, <4>3, <4>5, <5>1 DEF Tells, Past
      <4>. QED
        BY <4>4, <4>5
    <3>. DEFINE n == Len(events)
    <3>4. /\ n \in Nat /\ DOMAIN events = 1 .. n /\ DOMAIN events' = 1 .. n + 1
          /\ \A k \in 1 .. n : events'[k] = events[k]
          /\ events'[n + 1] = e
      <4>1. events \in Seq(Event)
        BY Histories
      <4>2. /\ events' \in Seq(Event) /\ Len(events') = n + 1
            /\ \A k \in 1 .. n : events'[k] = events[k]
            /\ events'[n + 1] = e
        BY <2>2, <3>1, <4>1, AppendProperties
      <4>. QED
        BY <4>1, <4>2, LenProperties
    <3>5. \A k \in 1 .. n : events[k].by # r
      BY <1>3, <2>2, <3>4 DEF Tells, Past
    <3>6. EventsDiffer'
      BY <3>2, <3>4, <3>5 DEF EventsDiffer
    <3>7. ASSUME NEW k \in 1 .. n + 1 PROVE Tells(events[k])'
      <4>1. CASE k \in 1 .. n
        <5>1. PICK f \in Event : f = events[k] /\ Tells(f)'
          BY <1>3, <3>4, <4>1
        <5>2. events'[k] = f
          BY <3>4, <4>1, <5>1
        <5>. QED
          BY <5>1, <5>2 DEF Tells, HadRow
      <4>2. CASE k = n + 1
        BY <3>3, <3>4, <4>2 DEF Tells, HadRow
      <4>. QED
        BY <4>1, <4>2, <3>4
    <3>. QED
      BY <3>4, <3>6, <3>7 DEF EventsTellCommits
  <2>. QED
    BY <2>1, <2>2 DEF EventsGrow
<1>. QED
  BY <1>1, <1>2, <1>4, TableStaysLast DEF CommitsAreSent, CommittedByThen

LEMMA IssuesInvStutters ==
  ASSUME IssuesInv, UNCHANGED issuesVars
  PROVE  IssuesInv'
BY DEF issuesVars, IssuesInv, IssuesTypeOK, RowsKeepTenant, RequestInv, HoldsOwn, Own, EventsAreOwn

LEMMA ToldInvStutters ==
  ASSUME ToldInv, UNCHANGED issuesVars
  PROVE  ToldInv'
BY DEF issuesVars, ToldInv, TableIsLast, CommitsAreSent, CommittedByThen, EventsTellCommits,
   EventsDiffer, Tells, CommitBy, HadRow

(* What handlers beyond their commit hold, and what events tell, was       *)
(* committed, at all times.                                                *)
THEOREM ToldInvariant == IssuesSpec => [](IssuesInv /\ ToldInv)
<1>1. IssuesInit => IssuesInv /\ ToldInv
  BY IssuesInvInit, ToldInvInit
<1>2. ASSUME IssuesInv, ToldInv, [IssuesNext]_issuesVars PROVE IssuesInv' /\ ToldInv'
  <2>1. CASE IssuesNext
    BY <1>2, <2>1, IssuesInvKept, NextTells, ToldInvKept
  <2>2. CASE UNCHANGED issuesVars
    BY <1>2, <2>2, IssuesInvStutters, ToldInvStutters
  <2>. QED
    BY <1>2, <2>1, <2>2
<1>. QED
  BY <1>1, <1>2, PTL DEF IssuesSpec

-----------------------------------------------------------------------------
(* What a request sent after another one was answered can still see of it: *)
(* its event comes later, and an issue the other has deleted is gone.      *)

Holding == {"loaded", "committed", "refreshed", "told"}

(* d has deleted its issue, and answered so. *)
SaidGone(d) == call[d].op = "delete" /\ answer[d].code = 204

LaterInv ==
  /\ \A r \in Request :
       /\ \A q \in before[r] : pc[q] = "answered"
       /\ pc[r] # "answered" => answer[r].code = 0
       /\ SaidGone(r) \/ (call[r].op = "delete" /\ pc[r] \in {"refreshed", "told"}) =>
            call[r].id \in DOMAIN born /\ call[r].id \notin DOMAIN rows
       /\ \A d \in before[r] : SaidGone(d) /\ pc[r] \in Holding => copy[r].id # call[d].id
  /\ EventsFollowClientOrder
  /\ GoneIsGone

BeforeGrows ==
  \/ UNCHANGED before
  \/ \E r \in Request :
       /\ pc[r] = "new" /\ pc'[r] = "sent"
       /\ before' = [before EXCEPT ![r] = {q \in Request : pc[q] = "answered"}]

(* What a handler comes to hold was in the table, or never before. *)
HoldsFrom(r) ==
  pc'[r] \in Holding =>
    \/ pc[r] \in Holding /\ copy'[r].id = copy[r].id
    \/ copy'[r].id \in DOMAIN rows
    \/ copy'[r].id \notin DOMAIN born

DeletedFrom(r) ==
  call'[r].op = "delete" /\ pc'[r] \in {"refreshed", "told"} =>
    pc[r] \in {"refreshed", "told"} \/ call'[r].id \notin DOMAIN rows'

(* What an answer says was in the table, or is what the handler holds. *)
AnswerFrom(r) ==
  \/ answer'[r] = answer[r] /\ (pc'[r] = "answered" => pc[r] = "answered")
  \/ /\ pc[r] \in InFlight /\ pc'[r] = "answered"
     /\ \/ answer'[r].shown = {} /\ answer'[r].code \notin {200, 204}
        \/ /\ pc[r] = "told" /\ answer'[r].shown \subseteq {copy[r]}
           /\ answer'[r].code \in {200, 204} => copy[r].id = call[r].id
        \/ /\ answer'[r].code = 200
           /\ call[r].op # "delete"
           /\ call[r].id \in DOMAIN rows \cup {None}
           /\ \A row \in answer'[r].shown : row.id \in DOMAIN rows

LaterStep ==
  /\ BeforeGrows
  /\ \A r \in Request :
       /\ pc[r] = "answered" => pc'[r] = "answered" /\ answer'[r] = answer[r]
       /\ HoldsFrom(r) /\ DeletedFrom(r) /\ AnswerFrom(r)

OnlyMoves(r) ==
  \A q \in Request : q # r => pc'[q] = pc[q] /\ copy'[q] = copy[q] /\ answer'[q] = answer[q]

LEMMA MoveIsLater ==
  ASSUME NEW r \in Request, pc[r] # "answered", OnlyMoves(r),
         BeforeGrows, HoldsFrom(r), DeletedFrom(r), AnswerFrom(r)
  PROVE  LaterStep
<1>1. ASSUME NEW q \in Request, q # r
      PROVE  /\ pc[q] = "answered" => pc'[q] = "answered" /\ answer'[q] = answer[q]
             /\ HoldsFrom(q) /\ DeletedFrom(q) /\ AnswerFrom(q)
  BY <1>1 DEF OnlyMoves, HoldsFrom, DeletedFrom, AnswerFrom
<1>. QED
  BY <1>1 DEF LaterStep

(* An answer that shows nothing and grants nothing. *)
LEMMA FailureIsLater ==
  ASSUME IssuesInv, NEW r \in Request, NEW from \in InFlight, NEW code \in {403, 404, 500},
         Respond(r, from, code, {}), UNCHANGED before,
         \A q \in Request : q # r => copy'[q] = copy[q]
  PROVE  LaterStep
<1>1. /\ pc[r] = from /\ pc' = [pc EXCEPT ![r] = "answered"]
      /\ answer' = [answer EXCEPT ![r] = [code |-> code, shown |-> {}]]
  BY DEF Respond, Step
<1>2. /\ pc \in [Request -> {"new", "answered", "lost"} \cup InFlight]
      /\ answer \in [Request -> [code : {0, 200, 201, 204, 403, 404, 500}, shown : SUBSET Row]]
  BY DEF IssuesInv, IssuesTypeOK
<1>3. pc'[r] = "answered" /\ answer'[r] = [code |-> code, shown |-> {}]
  BY <1>1, <1>2
<1>4. HoldsFrom(r) /\ DeletedFrom(r) /\ BeforeGrows
  BY <1>3 DEF HoldsFrom, DeletedFrom, BeforeGrows, Holding
<1>5. AnswerFrom(r)
  BY <1>1, <1>3 DEF AnswerFrom
<1>6. OnlyMoves(r)
  BY <1>1, <1>2 DEF OnlyMoves
<1>7. pc[r] # "answered"
  BY <1>1 DEF InFlight
<1>. QED
  BY <1>4, <1>5, <1>6, <1>7, MoveIsLater

(* A move inside the handler. *)
LEMMA WorkIsLater ==
  ASSUME IssuesInv, NEW r \in Request, pc[r] # "answered",
         NEW to \in InFlight, pc' = [pc EXCEPT ![r] = to],
         \A q \in Request : q # r => copy'[q] = copy[q],
         UNCHANGED answer, BeforeGrows, HoldsFrom(r), DeletedFrom(r)
  PROVE  LaterStep
<1>1. pc'[r] = to /\ OnlyMoves(r)
  BY Histories DEF OnlyMoves
<1>2. AnswerFrom(r)
  BY <1>1 DEF AnswerFrom, InFlight
<1>. QED
  BY <1>1, <1>2, MoveIsLater

LEMMA NextIsLater ==
  ASSUME IssuesInv, ToldInv, IssuesNext
  PROVE  LaterStep
<1>0. /\ pc \in [Request -> {"new", "answered", "lost"} \cup InFlight]
      /\ call \in [Request -> Calls \cup {None}]
      /\ copy \in [Request -> Row \cup {None}]
      /\ answer \in [Request -> [code : {0, 200, 201, 204, 403, 404, 500}, shown : SUBSET Row]]
      /\ before \in [Request -> SUBSET Request]
  BY DEF IssuesInv, IssuesTypeOK
<1>1. ASSUME NEW r \in Request, Send(r) PROVE LaterStep
  <2>1. /\ pc' = [pc EXCEPT ![r] = "sent"] /\ pc[r] = "new" /\ UNCHANGED <<copy, answer>>
        /\ before' = [before EXCEPT ![r] = {q \in Request : pc[q] = "answered"}]
    BY <1>1 DEF Send, Step
  <2>2. pc'[r] = "sent"
    BY <1>0, <2>1
  <2>3. BeforeGrows /\ HoldsFrom(r) /\ DeletedFrom(r)
    BY <2>1, <2>2 DEF BeforeGrows, HoldsFrom, DeletedFrom, Holding
  <2>. QED
    BY <2>1, <2>3, WorkIsLater DEF InFlight
<1>2. ASSUME NEW r \in Request, Forbid(r) \/ UpdateRaises(r) PROVE LaterStep
  <2>1. /\ Respond(r, "sent", 403, {}) \/ Respond(r, "loaded", 500, {})
        /\ UNCHANGED <<before, copy>>
    BY <1>2 DEF Forbid, UpdateRaises
  <2>. QED
    BY <2>1, FailureIsLater DEF InFlight
<1>3. ASSUME NEW r \in Request, NEW shown \in SUBSET Row,
             Respond(r, "sent", 200, shown), UNCHANGED <<before, copy>>,
             call[r].op # "delete", call[r].id \in DOMAIN rows \cup {None},
             \A row \in shown : row.id \in DOMAIN rows
      PROVE  LaterStep
  <2>1. /\ pc[r] = "sent" /\ pc' = [pc EXCEPT ![r] = "answered"]
        /\ answer' = [answer EXCEPT ![r] = [code |-> 200, shown |-> shown]]
    BY <1>3 DEF Respond, Step
  <2>2. /\ pc'[r] = "answered" /\ answer'[r] = [code |-> 200, shown |-> shown]
        /\ OnlyMoves(r)
    BY <1>0, <1>3, <2>1 DEF OnlyMoves
  <2>3. BeforeGrows /\ HoldsFrom(r) /\ DeletedFrom(r)
    BY <1>3, <2>2 DEF BeforeGrows, HoldsFrom, DeletedFrom, Holding
  <2>4. AnswerFrom(r)
    BY <1>3, <2>1, <2>2 DEF AnswerFrom, InFlight
  <2>. QED
    BY <2>1, <2>2, <2>3, <2>4, MoveIsLater
<1>4. ASSUME NEW r \in Request, ListIssues(r) PROVE LaterStep
  <2>1. PICK found \in SUBSET DOMAIN rows : Respond(r, "sent", 200, {rows[i] : i \in found})
    BY <1>4 DEF ListIssues, VisibleTo
  <2>2. /\ UNCHANGED <<before, copy>> /\ call[r].op = "list" /\ call[r] \in Calls
    BY <1>4 DEF ListIssues, Asks, IssuesInv, RequestInv
  <2>3. {rows[i] : i \in found} \in SUBSET Row
    BY TableDomain DEF IssuesInv, IssuesTypeOK
  <2>4. \A i \in found : rows[i].id \in DOMAIN rows
    BY DEF IssuesInv, RowsKeepTenant
  <2>5. call[r].id = None
    BY <2>2, CallTypes
  <2>. QED
    BY <1>3, <2>1, <2>2, <2>3, <2>4, <2>5
<1>5. ASSUME NEW r \in Request, GetIssue(r) PROVE LaterStep
  <2>1. UNCHANGED <<before, copy>> /\ call[r].op = "get"
    BY <1>5 DEF GetIssue, Asks
  <2>2. CASE call[r].id \in VisibleTo(call[r].tenant)
    <3>1. Respond(r, "sent", 200, {rows[call[r].id]}) /\ call[r].id \in DOMAIN rows
      BY <1>5, <2>2 DEF GetIssue, VisibleTo
    <3>2. rows[call[r].id] \in Row /\ rows[call[r].id].id = call[r].id
      BY <3>1, TableDomain DEF IssuesInv, IssuesTypeOK, RowsKeepTenant
    <3>. QED
      BY <1>3, <2>1, <3>1, <3>2
  <2>3. CASE call[r].id \notin VisibleTo(call[r].tenant)
    BY <1>5, <2>1, <2>3, FailureIsLater DEF GetIssue, InFlight
  <2>. QED
    BY <2>2, <2>3
<1>6. ASSUME NEW r \in Request, CreateIssue(r) PROVE LaterStep
  <2>1. PICK i \in IssueId : CreateRow(r, i)
    BY <1>6 DEF CreateIssue
  <2>2. /\ pc[r] = "sent" /\ pc' = [pc EXCEPT ![r] = "committed"]
        /\ UNCHANGED <<answer, before>>
    BY <1>6 DEF CreateIssue, Step
  <2>3. copy'[r].id = i /\ i \notin DOMAIN born /\ \A q \in Request : q # r => copy'[q] = copy[q]
    BY <2>1, <2>2, CreateRowKeeps DEF CreateRow
  <2>4. pc'[r] = "committed"
    BY <1>0, <2>2
  <2>5. BeforeGrows /\ HoldsFrom(r) /\ DeletedFrom(r)
    BY <2>2, <2>3, <2>4 DEF BeforeGrows, HoldsFrom, DeletedFrom
  <2>. QED
    BY <2>2, <2>3, <2>5, WorkIsLater DEF InFlight
<1>7. ASSUME NEW r \in Request, LoadIssue(r) PROVE LaterStep
  <2>1. pc[r] = "sent" /\ UNCHANGED before
    BY <1>7 DEF LoadIssue
  <2>2. CASE call[r].id \in VisibleTo(call[r].tenant)
    <3>1. /\ pc' = [pc EXCEPT ![r] = "loaded"] /\ UNCHANGED answer
          /\ copy' = [copy EXCEPT ![r] = rows[call[r].id]] /\ call[r].id \in DOMAIN rows
      BY <1>7, <2>2 DEF LoadIssue, Step, VisibleTo
    <3>2. /\ pc'[r] = "loaded" /\ copy'[r].id \in DOMAIN rows
          /\ \A q \in Request : q # r => copy'[q] = copy[q]
      BY <1>0, <3>1 DEF IssuesInv, RowsKeepTenant
    <3>3. BeforeGrows /\ HoldsFrom(r) /\ DeletedFrom(r)
      BY <2>1, <3>2 DEF BeforeGrows, HoldsFrom, DeletedFrom
    <3>. QED
      BY <2>1, <3>1, <3>2, <3>3, WorkIsLater DEF InFlight
  <2>3. CASE call[r].id \notin VisibleTo(call[r].tenant)
    BY <1>7, <2>1, <2>3, FailureIsLater DEF LoadIssue, InFlight
  <2>. QED
    BY <2>2, <2>3
<1>8. ASSUME NEW r \in Request, UpdateIssue(r) PROVE LaterStep
  <2>1. /\ pc[r] = "loaded" /\ pc' = [pc EXCEPT ![r] = "committed"]
        /\ UNCHANGED <<copy, answer, before>>
    BY <1>8 DEF UpdateIssue, Step
  <2>2. BeforeGrows /\ HoldsFrom(r) /\ DeletedFrom(r)
    BY <1>0, <2>1 DEF BeforeGrows, HoldsFrom, DeletedFrom, Holding
  <2>. QED
    BY <2>1, <2>2, WorkIsLater DEF InFlight
<1>9. ASSUME NEW r \in Request, DeleteIssue(r) PROVE LaterStep
  <2>1. /\ pc[r] = "loaded" /\ pc' = [pc EXCEPT ![r] = "refreshed"] /\ DeleteRow(r)
        /\ UNCHANGED <<born, call, copy, answer, before>>
    BY <1>9 DEF DeleteIssue, Step
  <2>2. copy[r].id \notin DOMAIN rows'
    BY <2>1, DeleteRowKeeps
  <2>3. copy[r].id = call[r].id
    BY <2>1 DEF IssuesInv, RequestInv, HoldsOwn
  <2>4. BeforeGrows /\ HoldsFrom(r) /\ DeletedFrom(r)
    BY <2>1, <2>2, <2>3 DEF BeforeGrows, HoldsFrom, DeletedFrom, Holding
  <2>. QED
    BY <2>1, <2>4, WorkIsLater DEF InFlight
<1>10. ASSUME NEW r \in Request, RefreshIssue(r) PROVE LaterStep
  <2>1. /\ pc[r] = "committed" /\ UNCHANGED <<call, before>> /\ call[r].op # "delete"
    BY <1>10 DEF RefreshIssue, ToldInv, CommittedByThen
  <2>2. CASE copy[r].id \in DOMAIN rows
    <3>1. /\ pc' = [pc EXCEPT ![r] = "refreshed"] /\ UNCHANGED answer
          /\ copy' = [copy EXCEPT ![r] = rows[copy[r].id]]
      BY <1>10, <2>2 DEF RefreshIssue, Step
    <3>2. copy'[r].id = copy[r].id /\ \A q \in Request : q # r => copy'[q] = copy[q]
      BY <1>0, <2>2, <3>1 DEF IssuesInv, RowsKeepTenant
    <3>3. BeforeGrows /\ HoldsFrom(r) /\ DeletedFrom(r)
      BY <2>1, <3>2 DEF BeforeGrows, HoldsFrom, DeletedFrom, Holding
    <3>. QED
      BY <2>1, <3>1, <3>2, <3>3, WorkIsLater DEF InFlight
  <2>3. CASE copy[r].id \notin DOMAIN rows
    BY <1>10, <2>1, <2>3, FailureIsLater DEF RefreshIssue, InFlight
  <2>. QED
    BY <2>2, <2>3
<1>11. ASSUME NEW r \in Request, PublishEvent(r) \/ PublishFails(r) PROVE LaterStep
  <2>1. /\ pc[r] = "refreshed" /\ pc' = [pc EXCEPT ![r] = "told"]
        /\ UNCHANGED <<copy, answer, before>>
    BY <1>11 DEF PublishEvent, PublishFails, Step
  <2>2. BeforeGrows /\ HoldsFrom(r) /\ DeletedFrom(r)
    BY <2>1 DEF BeforeGrows, HoldsFrom, DeletedFrom, Holding
  <2>. QED
    BY <2>1, <2>2, WorkIsLater DEF InFlight
<1>12. ASSUME NEW r \in Request, Finish(r) PROVE LaterStep
  <2>1. /\ pc[r] = "told" /\ pc' = [pc EXCEPT ![r] = "answered"] /\ UNCHANGED <<copy, before>>
        /\ answer' = [answer EXCEPT ![r] = [code |-> SuccessCode(r), shown |-> SuccessBody(r)]]
    BY <1>12 DEF Finish, Respond, Step
  <2>2. /\ pc'[r] = "answered" /\ answer'[r].code = SuccessCode(r)
        /\ answer'[r].shown = SuccessBody(r)
        /\ OnlyMoves(r)
    BY <1>0, <2>1 DEF OnlyMoves
  <2>3. BeforeGrows /\ HoldsFrom(r) /\ DeletedFrom(r)
    BY <2>1, <2>2 DEF BeforeGrows, HoldsFrom, DeletedFrom, Holding
  <2>4. call[r].op = "create" => SuccessCode(r) = 201
    BY DEF SuccessCode
  <2>5. call[r].op # "create" => copy[r].id = call[r].id
    BY <2>1 DEF IssuesInv, RequestInv, HoldsOwn
  <2>6. AnswerFrom(r)
    BY <2>1, <2>2, <2>4, <2>5 DEF AnswerFrom, InFlight, SuccessBody
  <2>. QED
    BY <2>1, <2>2, <2>3, <2>6, MoveIsLater
<1>13. ASSUME NEW r \in Request, DatabaseFails(r) PROVE LaterStep
  <2>1. PICK from \in {"sent", "loaded", "committed"} : Respond(r, from, 500, {})
    BY <1>13 DEF DatabaseFails
  <2>2. \A q \in Request : q # r => copy'[q] = copy[q]
    <3>1. CASE \E i \in IssueId : CreateRow(r, i)
      BY <1>0, <3>1 DEF CreateRow
    <3>2. CASE UNCHANGED copy
      BY <3>2
    <3>. QED
      BY <1>13, <3>1, <3>2 DEF DatabaseFails
  <2>3. UNCHANGED before
    BY <1>13 DEF DatabaseFails
  <2>. QED
    BY <2>1, <2>2, <2>3, FailureIsLater DEF InFlight
<1>14. CASE Crash
  <2>1. /\ pc' = [r \in Request |-> IF pc[r] \in InFlight THEN "lost" ELSE pc[r]]
        /\ UNCHANGED <<answer, before>>
    BY <1>14 DEF Crash
  <2>2. \A r \in Request : pc'[r] \notin InFlight /\ (pc'[r] = "answered" <=> pc[r] = "answered")
    BY <1>0, <2>1 DEF InFlight
  <2>. QED
    BY <2>1, <2>2 DEF LaterStep, BeforeGrows, HoldsFrom, DeletedFrom, AnswerFrom, Holding, InFlight
<1>. QED
  BY <1>1, <1>2, <1>4, <1>5, <1>6, <1>7, <1>8, <1>9, <1>10, <1>11, <1>12, <1>13, <1>14
  DEF IssuesNext

LEMMA LaterInvInit ==
  ASSUME IssuesInit
  PROVE  LaterInv
BY DEF IssuesInit, LaterInv, SaidGone, EventsFollowClientOrder, GoneIsGone

LEMMA LaterInvStutters ==
  ASSUME LaterInv, UNCHANGED issuesVars
  PROVE  LaterInv'
BY DEF issuesVars, LaterInv, SaidGone, EventsFollowClientOrder, GoneIsGone

(* Who was answered before keeps its answer and its call, and is not one   *)
(* of those that are answered only now.                                    *)
LEMMA BeforeStays ==
  ASSUME IssuesInv, LaterInv, CallsStay, LaterStep, NEW r \in Request, NEW d \in before'[r]
  PROVE  /\ d \in Request /\ pc[d] = "answered" /\ pc'[d] = "answered"
         /\ call'[d] = call[d] /\ answer'[d] = answer[d]
         /\ d \in before[r] \/ (pc[r] = "new" /\ pc'[r] = "sent")
<1>1. before \in [Request -> SUBSET Request]
  BY DEF IssuesInv, IssuesTypeOK
<1>2. d \in before[r] \/ (pc[r] = "new" /\ pc'[r] = "sent" /\ d \in Request /\ pc[d] = "answered")
  BY <1>1 DEF LaterStep, BeforeGrows
<1>3. d \in Request /\ pc[d] = "answered"
  BY <1>1, <1>2 DEF LaterInv
<1>. QED
  BY <1>2, <1>3 DEF LaterStep, CallsStay

(* The events' order. *)
LEMMA OrderKept ==
  ASSUME IssuesInv, ToldInv, LaterInv, ToldStep, LaterStep
  PROVE  EventsFollowClientOrder'
<1>. USE DEF ToldStep
<1>1. \A k \in DOMAIN events : /\ events[k].by \in Request /\ pc[events[k].by] \in Past
  <2>1. ASSUME NEW k \in DOMAIN events PROVE events[k].by \in Request
    <3>1. events[k] \in Event
      BY Histories
    <3>. QED
      BY <3>1 DEF Event
  <2>. QED
    BY <2>1 DEF ToldInv, EventsTellCommits, Tells
<1>2. ASSUME NEW j \in DOMAIN events, NEW k \in DOMAIN events,
             events[j].by \in before'[events[k].by]
      PROVE  j < k
  <2>1. PICK r \in Request : r = events[k].by /\ pc[r] # "new"
    BY <1>1 DEF Past
  <2>2. events[j].by \in before[r]
    BY <1>2, <2>1, BeforeStays
  <2>. QED
    BY <2>1, <2>2 DEF LaterInv, EventsFollowClientOrder
<1>3. CASE UNCHANGED events
  BY <1>2, <1>3 DEF EventsFollowClientOrder
<1>4. ASSUME NEW r \in Request, pc[r] = "refreshed", events' = Append(events, EventOf(r))
      PROVE  EventsFollowClientOrder'
  <2>. DEFINE n == Len(events)
  <2>1. /\ n \in Nat /\ DOMAIN events = 1 .. n /\ DOMAIN events' = 1 .. n + 1
        /\ \A k \in 1 .. n : events'[k] = events[k]
        /\ events'[n + 1].by = r
    <3>1. events \in Seq(Event) /\ EventOf(r) \in Event /\ EventOf(r).by = r
      BY <1>4, Histories, EventIsOwn
    <3>2. /\ events' \in Seq(Event) /\ Len(events') = n + 1
          /\ \A k \in 1 .. n : events'[k] = events[k]
          /\ events'[n + 1] = EventOf(r)
      BY <1>4, <3>1, AppendProperties
    <3>. QED
      BY <3>1, <3>2, LenProperties
  <2>2. ASSUME NEW q \in Request PROVE r \notin before'[q]
    BY <1>4, BeforeStays
  <2>3. ASSUME NEW j \in 1 .. n + 1, NEW k \in 1 .. n + 1,
               events'[j].by \in before'[events'[k].by]
        PROVE  j < k
    <3>1. events'[k].by \in Request
      BY <1>1, <2>1
    <3>2. j # n + 1
      BY <2>1, <2>2, <2>3, <3>1
    <3>3. j \in 1 .. n /\ (k \in 1 .. n \/ k = n + 1)
      BY <2>1, <3>2
    <3>4. CASE k \in 1 .. n
      BY <1>2, <2>1, <2>3, <3>3, <3>4
    <3>. QED
      BY <2>1, <3>3, <3>4
  <2>. QED
    BY <2>1, <2>3 DEF EventsFollowClientOrder
<1>. QED
  BY <1>3, <1>4 DEF EventsGrow

(* What is gone. *)
LEMMA GoneKept ==
  ASSUME IssuesInv, IssuesInv', LaterInv, ToldStep, LaterStep,
         \A i \in DOMAIN born : i \in DOMAIN born', NEW r \in Request
  PROVE  /\ pc'[r] # "answered" => answer'[r].code = 0
         /\ (SaidGone(r) \/ (call[r].op = "delete" /\ pc[r] \in {"refreshed", "told"}))' =>
              call'[r].id \in DOMAIN born' /\ call'[r].id \notin DOMAIN rows'
<1>1. ASSUME pc'[r] # "answered" PROVE answer'[r].code = 0
  BY <1>1 DEF LaterStep, AnswerFrom, LaterInv
<1>. DEFINE Ends == call'[r].op = "delete" /\ pc'[r] \in {"refreshed", "told"}
<1>2. ASSUME Ends PROVE call'[r].id \in DOMAIN born' /\ call'[r].id \notin DOMAIN rows'
  <2>1. call'[r].id \in DOMAIN born'
    BY <1>2 DEF IssuesInv, RequestInv, HoldsOwn, Own
  <2>2. CASE pc[r] \in {"refreshed", "told"}
    BY <1>2, <2>1, <2>2 DEF ToldStep, CallsStay, LaterInv, NoneReborn
  <2>. QED
    BY <1>2, <2>1, <2>2 DEF LaterStep, DeletedFrom
<1>3. ASSUME call'[r].op = "delete", answer'[r].code = 204
      PROVE  call'[r].id \in DOMAIN born' /\ call'[r].id \notin DOMAIN rows'
  <2>1. pc'[r] = "answered"
    BY <1>1, <1>3
  <2>2. CASE answer'[r] = answer[r] /\ pc[r] = "answered"
    BY <1>3, <2>2 DEF ToldStep, CallsStay, LaterInv, SaidGone, NoneReborn
  <2>3. CASE pc[r] = "told"
    BY <1>3, <2>3 DEF ToldStep, CallsStay, LaterInv, NoneReborn
  <2>4. CASE pc[r] \in InFlight /\ answer'[r].code = 200
    BY <1>3, <2>4
  <2>. QED
    BY <1>3, <2>1, <2>2, <2>3, <2>4 DEF LaterStep, AnswerFrom
<1>. QED
  BY <1>1, <1>2, <1>3 DEF SaidGone

LEMMA UnseenKept ==
  ASSUME IssuesInv, LaterInv, ToldStep, LaterStep,
         NEW r \in Request, NEW d \in before'[r], SaidGone(d)'
  PROVE  /\ pc'[r] \in Holding => copy'[r].id # call'[d].id
         /\ \A row \in answer'[r].shown : row.id # call'[d].id
         /\ call'[r].id = call'[d].id => answer'[r].code \notin {200, 204}
<1>1. /\ d \in Request /\ SaidGone(d) /\ call'[d] = call[d]
      /\ d \in before[r] \/ (pc[r] = "new" /\ pc'[r] = "sent")
  BY BeforeStays DEF SaidGone, ToldStep
<1>2. call[d].id \in DOMAIN born /\ call[d].id \notin DOMAIN rows
  BY <1>1 DEF LaterInv
<1>3. call[d].id # None
  <2>1. DOMAIN born \subseteq IssueId
    BY TableDomain DEF IssuesInv, IssuesTypeOK
  <2>. QED
    BY <1>2, <2>1, IssuesAssumption
<1>4. ASSUME pc'[r] \in Holding PROVE copy'[r].id # call[d].id
  <2>1. CASE pc[r] \in Holding /\ copy'[r].id = copy[r].id
    BY <1>1, <2>1 DEF LaterInv, Holding
  <2>. QED
    BY <1>2, <1>4, <2>1 DEF LaterStep, HoldsFrom
<1>5. CASE answer'[r] = answer[r] /\ pc[r] # "answered"
  <2>1. answer'[r].shown = {} /\ answer'[r].code = 0
    BY <1>5 DEF IssuesInv, RequestInv, LaterInv
  <2>. QED
    BY <1>1, <1>4, <2>1
<1>6. CASE answer'[r] = answer[r] /\ pc[r] = "answered"
  <2>1. d \in before[r] /\ call'[r] = call[r]
    BY <1>1, <1>6 DEF ToldStep, CallsStay
  <2>2. /\ \A row \in answer[r].shown : row.id # call[d].id
        /\ call[r].id = call[d].id => answer[r].code \notin {200, 204}
    BY <1>1, <2>1 DEF LaterInv, GoneIsGone, SaidGone
  <2>. QED
    BY <1>1, <1>4, <1>6, <2>1, <2>2
<1>7. CASE pc[r] \in InFlight /\ pc'[r] = "answered" /\ answer'[r] # answer[r]
  <2>1. d \in before[r] /\ call'[r] = call[r]
    BY <1>1, <1>7 DEF ToldStep, CallsStay, InFlight
  <2>2. pc[r] = "told" => copy[r].id # call[d].id
    BY <1>1, <2>1 DEF LaterInv, Holding
  <2>3. /\ \A row \in answer'[r].shown : row.id # call[d].id
        /\ call[r].id = call[d].id => answer'[r].code \notin {200, 204}
    BY <1>2, <1>3, <1>7, <2>2 DEF LaterStep, AnswerFrom
  <2>. QED
    BY <1>1, <1>4, <2>1, <2>3
<1>. QED
  BY <1>5, <1>6, <1>7 DEF LaterStep, AnswerFrom

LEMMA LaterInvKept ==
  ASSUME IssuesInv, IssuesInv', ToldInv, LaterInv, ToldStep, LaterStep,
         \A i \in DOMAIN born : i \in DOMAIN born'
  PROVE  LaterInv'
<1>1. ASSUME NEW r \in Request, NEW q \in before'[r] PROVE pc'[q] = "answered"
  BY <1>1, BeforeStays DEF ToldStep
<1>2. GoneIsGone'
  <2>1. before' \in [Request -> SUBSET Request]
    BY DEF IssuesInv, IssuesTypeOK
  <2>. QED
    BY <2>1, UnseenKept DEF GoneIsGone, SaidGone
<1>. QED
  BY <1>1, <1>2, OrderKept, GoneKept, UnseenKept DEF LaterInv

LEMMA BornStays ==
  ASSUME IssuesNext
  PROVE  \A i \in DOMAIN born : i \in DOMAIN born'
<1>1. UNCHANGED born \/ \E r \in Request, i \in IssueId : CreateRow(r, i)
  BY DEF IssuesNext, Send, Forbid, ListIssues, GetIssue, CreateIssue, LoadIssue, UpdateIssue,
     UpdateRaises, DeleteIssue, RefreshIssue, PublishEvent, PublishFails, Finish,
     DatabaseFails, Crash
<1>2. ASSUME NEW r \in Request, NEW i \in IssueId, CreateRow(r, i)
      PROVE  \A j \in DOMAIN born : j \in DOMAIN born'
  BY <1>2 DEF CreateRow
<1>. QED
  BY <1>1, <1>2

(* What a request finds is as late as what was answered before it was      *)
(* sent, at all times.                                                     *)
THEOREM LaterInvariant == IssuesSpec => []LaterInv
<1>1. IssuesInit => LaterInv
  BY LaterInvInit
<1>2. ASSUME IssuesInv, IssuesInv', ToldInv, LaterInv, [IssuesNext]_issuesVars PROVE LaterInv'
  BY <1>2, NextTells, NextIsLater, BornStays, LaterInvKept, LaterInvStutters
<1>. QED
  BY <1>1, <1>2, ToldInvariant, PTL DEF IssuesSpec

(* Of two requests of which one was sent after the other was answered, the *)
(* events come in that order.                                              *)
THEOREM EventsAreInOrder == IssuesSpec => []EventsFollowClientOrder
<1>1. LaterInv => EventsFollowClientOrder
  BY DEF LaterInv
<1>. QED
  BY <1>1, LaterInvariant, PTL

(* What was answered as deleted is never seen, found or changed again.     *)
THEOREM DeletedStaysGone == IssuesSpec => []GoneIsGone
<1>1. LaterInv => GoneIsGone
  BY DEF LaterInv
<1>. QED
  BY <1>1, LaterInvariant, PTL

-----------------------------------------------------------------------------
(* What has told of an issue, or holds it, ran beside the DELETE that took *)
(* its row away, if one has.                                               *)
RemovalInv ==
  /\ DOMAIN removedBy = DOMAIN born \ DOMAIN rows
  /\ \A i \in DOMAIN removedBy : removedBy[i] \in Request /\ pc[removedBy[i]] # "new"
  /\ \A r \in Request :
       pc[r] \in Holding /\ copy[r].id \in DOMAIN removedBy => RemovedWhile(r, copy[r].id)
  /\ \A k \in DOMAIN events :
       events[k].event = "issue.deleted" => RemovedWhile(events[k].by, events[k].id)

(* The request d takes away the row it has loaded. *)
Removes(d) ==
  /\ pc[d] = "loaded" /\ copy[d].id \in DOMAIN rows
  /\ removedBy' = [i \in DOMAIN removedBy \cup {copy[d].id} |->
                     IF i = copy[d].id THEN d ELSE removedBy[i]]
  /\ DOMAIN rows' = DOMAIN rows \ {copy[d].id}
  /\ UNCHANGED <<born, copy, events>>
  /\ \A q \in Request : q # d => pc'[q] = pc[q]

(* RemovedWhile, of what the step leaves. *)
RemovedThen(r, i) ==
  i \in DOMAIN removedBy' /\ removedBy'[i] \notin before'[r] /\ r \notin before'[removedBy'[i]]

RemovalStep ==
  \/ UNCHANGED removedBy /\ DOMAIN born' \ DOMAIN rows' = DOMAIN born \ DOMAIN rows
  \/ \E d \in Request : Removes(d)

LEMMA DeleteRemoves ==
  ASSUME IssuesInv, NEW r \in Request, pc[r] = "loaded", DeleteRow(r),
         UNCHANGED <<born, copy, events>>, \A q \in Request : q # r => pc'[q] = pc[q]
  PROVE  RemovalStep
<1>1. DOMAIN rows' = DOMAIN rows \ {copy[r].id}
  BY DeleteRowKeeps
<1>2. CASE copy[r].id \in DOMAIN rows
  BY <1>1, <1>2 DEF DeleteRow, RemovalStep, Removes
<1>3. CASE copy[r].id \notin DOMAIN rows
  BY <1>1, <1>3 DEF DeleteRow, RemovalStep
<1>. QED
  BY <1>2, <1>3

LEMMA UpdateRemovesNone ==
  ASSUME IssuesInv, NEW r \in Request, pc[r] = "loaded", UpdateRow(r), UNCHANGED born
  PROVE  RemovalStep
BY UpdateRowKeeps DEF UpdateRow, RemovalStep

LEMMA CreateRemovesNone ==
  ASSUME IssuesInv, NEW r \in Request, NEW i \in IssueId, CreateRow(r, i)
  PROVE  RemovalStep
<1>1. /\ DOMAIN rows' = DOMAIN rows \cup {i} /\ DOMAIN born' = DOMAIN born \cup {i}
      /\ i \notin DOMAIN born /\ UNCHANGED removedBy
  BY DEF CreateRow, Stored
<1>. QED
  BY <1>1 DEF RemovalStep

LEMMA NextRemoves ==
  ASSUME IssuesInv, IssuesNext
  PROVE  RemovalStep
<1>0. pc \in [Request -> {"new", "answered", "lost"} \cup InFlight]
  BY Histories
<1>1. CASE UNCHANGED <<rows, born, removedBy>>
  BY <1>1 DEF RemovalStep
<1>2. ASSUME NEW r \in Request, CreateIssue(r) PROVE RemovalStep
  BY <1>2, CreateRemovesNone DEF CreateIssue
<1>3. ASSUME NEW r \in Request, UpdateIssue(r) PROVE RemovalStep
  BY <1>3, UpdateRemovesNone DEF UpdateIssue
<1>4. ASSUME NEW r \in Request, DeleteIssue(r) PROVE RemovalStep
  BY <1>0, <1>4, DeleteRemoves DEF DeleteIssue, Step
<1>5. ASSUME NEW r \in Request, DatabaseFails(r) PROVE RemovalStep
  <2>1. UNCHANGED events /\ \A q \in Request : q # r => pc'[q] = pc[q]
    BY <1>0, <1>5 DEF DatabaseFails, Respond, Step
  <2>2. \/ UNCHANGED <<rows, born, removedBy>>
        \/ \E i \in IssueId : CreateRow(r, i)
        \/ pc[r] = "loaded" /\ UpdateRow(r) /\ UNCHANGED born
        \/ pc[r] = "loaded" /\ DeleteRow(r) /\ UNCHANGED <<born, copy>>
    BY <1>5 DEF DatabaseFails
  <2>. QED
    BY <1>1, <2>1, <2>2, CreateRemovesNone, UpdateRemovesNone, DeleteRemoves
<1>6. ASSUME NEW r \in Request,
             \/ Send(r) \/ Forbid(r) \/ ListIssues(r) \/ GetIssue(r) \/ LoadIssue(r)
             \/ UpdateRaises(r) \/ RefreshIssue(r) \/ PublishEvent(r) \/ PublishFails(r)
             \/ Finish(r)
      PROVE  RemovalStep
  BY <1>1, <1>6 DEF Send, Forbid, ListIssues, GetIssue, LoadIssue, UpdateRaises, RefreshIssue,
     PublishEvent, PublishFails, Finish
<1>7. CASE Crash
  BY <1>1, <1>7 DEF Crash
<1>. QED
  BY <1>2, <1>3, <1>4, <1>5, <1>6, <1>7 DEF IssuesNext

(* Two requests that have come ran beside one another for good. *)
LEMMA BesideStays ==
  ASSUME IssuesInv, BeforeGrows, NEW p \in Request, NEW r \in Request,
         pc[p] # "new", pc[r] # "new", Beside(p, r)
  PROVE  p \notin before'[r] /\ r \notin before'[p]
<1>1. before \in [Request -> SUBSET Request]
  BY DEF IssuesInv, IssuesTypeOK
<1>2. before'[p] = before[p] /\ before'[r] = before[r]
  BY <1>1 DEF BeforeGrows
<1>. QED
  BY <1>2 DEF Beside

LEMMA RemovedStays ==
  ASSUME IssuesInv, RemovalInv, BeforeGrows, RemovalStep,
         NEW r \in Request, pc[r] # "new", NEW i, RemovedWhile(r, i)
  PROVE  RemovedThen(r, i)
<1>1. i \in DOMAIN removedBy /\ i \notin DOMAIN rows /\ Beside(removedBy[i], r)
      /\ removedBy[i] \in Request /\ pc[removedBy[i]] # "new"
  BY DEF RemovedWhile, RemovalInv
<1>2. i \in DOMAIN removedBy' /\ removedBy'[i] = removedBy[i]
  BY <1>1 DEF RemovalStep, Removes
<1>3. removedBy[i] \notin before'[r] /\ r \notin before'[removedBy[i]]
  BY <1>1, BesideStays
<1>. QED
  BY <1>2, <1>3 DEF RemovedThen

(* What a request holds of an issue that is gone. *)
LEMMA HeldWhileRemoved ==
  ASSUME IssuesInv, LaterInv, RemovalInv, CallsStay, LaterStep, RemovalStep,
         NEW r \in Request, pc'[r] \in Holding, copy'[r].id \in DOMAIN removedBy'
  PROVE  RemovedThen(r, copy'[r].id)
<1>. DEFINE i == copy'[r].id
<1>1. ASSUME i \in DOMAIN removedBy PROVE RemovedThen(r, i)
  <2>1. i \in DOMAIN born /\ i \notin DOMAIN rows
    BY <1>1 DEF RemovalInv
  <2>2. pc[r] \in Holding /\ copy[r].id = i
    BY <2>1 DEF LaterStep, HoldsFrom
  <2>3. RemovedWhile(r, i) /\ pc[r] # "new"
    BY <1>1, <2>2 DEF RemovalInv, Holding
  <2>. QED
    BY <2>3, RemovedStays DEF LaterStep
<1>2. ASSUME i \notin DOMAIN removedBy PROVE RemovedThen(r, i)
  <2>1. PICK d \in Request : Removes(d)
    BY <1>2 DEF RemovalStep
  <2>2. i = copy[d].id /\ removedBy'[i] = d /\ pc[d] = "loaded"
    BY <1>2, <2>1 DEF Removes
  <2>3. pc[r] \notin {"new", "answered"}
    BY <2>1, <2>2 DEF Removes, Holding
  <2>4. d \notin before'[r] /\ r \notin before'[d]
    BY <2>2, <2>3, BeforeStays
  <2>. QED
    BY <1>2, <2>1, <2>2, <2>4 DEF RemovedThen, Removes
<1>. QED
  BY <1>1, <1>2

LEMMA RemovalInvKept ==
  ASSUME IssuesInv, ToldInv, LaterInv, RemovalInv, ToldStep, LaterStep, RemovalStep
  PROVE  RemovalInv'
<1>. USE DEF ToldStep
<1>1. DOMAIN removedBy' = DOMAIN born' \ DOMAIN rows'
  <2>1. DOMAIN rows \subseteq DOMAIN born
    BY Histories
  <2>2. ASSUME NEW d \in Request, Removes(d) PROVE DOMAIN removedBy' = DOMAIN born' \ DOMAIN rows'
    BY <2>1, <2>2 DEF Removes, RemovalInv
  <2>. QED
    BY <2>2 DEF RemovalStep, RemovalInv
<1>2. ASSUME NEW i \in DOMAIN removedBy'
      PROVE  removedBy'[i] \in Request /\ pc'[removedBy'[i]] # "new"
  <2>1. CASE i \in DOMAIN removedBy /\ removedBy'[i] = removedBy[i]
    BY <2>1 DEF RemovalInv, CallsStay
  <2>2. ASSUME NEW d \in Request, Removes(d), i = copy[d].id
        PROVE  removedBy'[i] \in Request /\ pc'[removedBy'[i]] # "new"
    BY <2>2 DEF Removes, CallsStay
  <2>3. ASSUME NEW d \in Request, Removes(d), i # copy[d].id
        PROVE  i \in DOMAIN removedBy /\ removedBy'[i] = removedBy[i]
    BY <1>2, <2>3 DEF Removes
  <2>4. CASE UNCHANGED removedBy
    BY <1>2, <2>1, <2>4
  <2>. QED
    BY <2>1, <2>2, <2>3, <2>4 DEF RemovalStep
<1>3. \A r \in Request :
        pc'[r] \in Holding /\ copy'[r].id \in DOMAIN removedBy' => RemovedThen(r, copy'[r].id)
  BY HeldWhileRemoved
<1>4. ASSUME NEW k \in DOMAIN events, events[k].event = "issue.deleted"
      PROVE  RemovedThen(events[k].by, events[k].id)
  <2>1. events[k].by \in Request /\ pc[events[k].by] # "new"
    <3>1. events[k] \in Event
      BY Histories
    <3>. QED
      BY <3>1 DEF Event, IssuesInv, EventsAreOwn
  <2>2. RemovedWhile(events[k].by, events[k].id)
    BY <1>4 DEF RemovalInv
  <2>. QED
    BY <2>1, <2>2, RemovedStays DEF LaterStep
<1>5. ASSUME NEW r \in Request, pc[r] = "refreshed", EventOf(r).event = "issue.deleted"
      PROVE  RemovedThen(EventOf(r).by, EventOf(r).id)
  <2>1. HoldsOwn(r)
    BY <1>5 DEF IssuesInv, RequestInv
  <2>2. call[r].op = "delete"
    BY <1>5, <2>1 DEF EventOf, EventName, HoldsOwn
  <2>3. copy[r].id = call[r].id /\ copy[r].id \in DOMAIN removedBy
    BY <1>5, <2>1, <2>2 DEF HoldsOwn, LaterInv, RemovalInv
  <2>4. RemovedWhile(r, copy[r].id)
    BY <1>5, <2>3 DEF RemovalInv, Holding
  <2>5. RemovedThen(r, copy[r].id)
    BY <1>5, <2>4, RemovedStays DEF LaterStep
  <2>. QED
    BY <2>5 DEF EventOf
<1>6. \A k \in DOMAIN events' :
        events'[k].event = "issue.deleted" => RemovedThen(events'[k].by, events'[k].id)
  <2>1. CASE UNCHANGED events
    BY <1>4, <2>1
  <2>2. ASSUME NEW r \in Request, pc[r] = "refreshed", events' = Append(events, EventOf(r))
        PROVE  \A k \in DOMAIN events' : events'[k].event = "issue.deleted" =>
                 RemovedThen(events'[k].by, events'[k].id)
    <3>1. events \in Seq(Event) /\ EventOf(r) \in Event
      BY <2>2, Histories, EventIsOwn
    <3>2. \A k \in DOMAIN events' :
            (k \in DOMAIN events /\ events'[k] = events[k]) \/ events'[k] = EventOf(r)
      BY <2>2, <3>1, AppendProperties
    <3>. QED
      BY <1>4, <1>5, <2>2, <3>2
  <2>. QED
    BY <2>1, <2>2 DEF EventsGrow
<1>. QED
  BY <1>1, <1>2, <1>3, <1>6 DEF RemovalInv, RemovedWhile, RemovedThen, Beside

LEMMA RemovalInvInit ==
  ASSUME IssuesInit
  PROVE  RemovalInv
BY DEF IssuesInit, RemovalInv, Holding

LEMMA RemovalInvStutters ==
  ASSUME RemovalInv, UNCHANGED issuesVars
  PROVE  RemovalInv'
BY DEF issuesVars, RemovalInv, RemovedWhile, Beside

(* Who held or told of an issue that is gone ran beside its one DELETE, at *)
(* all times.                                                              *)
THEOREM RemovalInvariant == IssuesSpec => []RemovalInv
<1>1. IssuesInit => RemovalInv
  BY RemovalInvInit
<1>2. ASSUME IssuesInv, ToldInv, LaterInv, RemovalInv, [IssuesNext]_issuesVars PROVE RemovalInv'
  BY <1>2, NextTells, NextIsLater, NextRemoves, RemovalInvKept, RemovalInvStutters
<1>. QED
  BY <1>1, <1>2, ToldInvariant, LaterInvariant, PTL DEF IssuesSpec

(* What an event tells has happened: it follows a commit of its own        *)
(* request, the values it carries were in the row then or later, and an    *)
(* issue told as deleted was removed while its request ran.                *)
THEOREM EventsAreTrue == IssuesSpec => []EventTellsWhatHappened
<1>1. ASSUME IssuesInv, ToldInv, RemovalInv PROVE EventTellsWhatHappened
  <2>. SUFFICES ASSUME NEW k \in DOMAIN events
                PROVE  \E j \in DOMAIN commits :
                         /\ commits[j].by = events[k].by
                         /\ commits[j].id = events[k].id
                         /\ IF events[k].event = "issue.deleted"
                              THEN /\ commits[j].row = None
                                   /\ RemovedWhile(events[k].by, events[k].id)
                              ELSE \E m \in j .. Len(commits) :
                                     /\ commits[m].id = events[k].id
                                     /\ commits[m].row # None
                                     /\ Restrict(commits[m].row.data, Told) = events[k].data
    BY DEF EventTellsWhatHappened
  <2>1. Tells(events[k])
    BY <1>1 DEF ToldInv, EventsTellCommits
  <2>2. CASE events[k].event = "issue.deleted"
    BY <1>1, <2>1, <2>2 DEF Tells, HadRow, RemovalInv
  <2>3. CASE events[k].event # "issue.deleted"
    <3>1. PICK row \in Row : /\ HadRow(events[k].by, events[k].id, row)
                             /\ Restrict(row.data, Told) = events[k].data
      BY <2>1, <2>3 DEF Tells
    <3>2. row # None
      BY IssuesAssumption
    <3>. QED
      BY <2>3, <3>1, <3>2 DEF HadRow
  <2>. QED
    BY <2>2, <2>3
<1>. QED
  BY <1>1, ToldInvariant, RemovalInvariant, PTL

-----------------------------------------------------------------------------
(***************************************************************************)
(* No answer is stale.                                                     *)
(***************************************************************************)

(* No answer is stale.  The inductive invariant says of every column of    *)
(* the table, of what a handler will answer and of what was answered, that *)
(* some PATCH wrote the value and no PATCH that counts was sent after that *)
(* one had been answered; or that no PATCH counts.                         *)

AsksToSet(q, i, f) == call[q].op = "update" /\ call[q].id = i /\ f \in DOMAIN call[q].body

BeyondCommit(q) == pc[q] \notin {"new", "sent", "loaded"}

(* p has asked for the value v and, for all that its answer says, set it.  *)
Wrote(p, i, f, v) ==
  /\ BeyondCommit(p) /\ answer[p].code \notin {403, 404}
  /\ AsksToSet(p, i, f) /\ call[p].body[f] = v

(* The PATCHes that count for the table: those that have committed, and    *)
(* those that will not UPDATE a column whose value has changed since they  *)
(* loaded it, because it was then what they ask for.                       *)
Counts(q, i, f) ==
  /\ pc[q] # "new"
  /\ AsksToSet(q, i, f)
  /\ \/ pc[q] \in {"committed", "refreshed", "told"}
     \/ pc[q] = "answered" /\ answer[q].code = 200
     \/ pc[q] = "loaded" /\ copy[q].data[f] # rows[i].data[f]

ColumnIsFresh(i, f) ==
  \/ rows[i].data[f] = born[i].data[f] /\ \A q \in Request : ~ Counts(q, i, f)
  \/ \E p \in Request : /\ Wrote(p, i, f, rows[i].data[f])
                        /\ \A q \in Request : Counts(q, i, f) => p \notin before[q]

TableIsFresh == \A i \in DOMAIN rows : \A f \in Field : ColumnIsFresh(i, f)

(* The PATCHes that count for the answer to r: its own, and those that     *)
(* were answered before it was sent. *)
Earlier(q, r, i, f) ==
  /\ AsksToSet(q, i, f)
  /\ (q \in before[r] /\ answer[q].code = 200) \/ q = r

IsFresh(r, row) ==
  \A f \in Field :
    \/ row.data[f] = born[row.id].data[f] /\ \A q \in Request : ~ Earlier(q, r, row.id, f)
    \/ \E p \in Request : /\ Wrote(p, row.id, f, row.data[f]) /\ r \notin before[p]
                          /\ \A q \in Request : Earlier(q, r, row.id, f) => p \notin before[q]

PatchesFoundTheirIssue ==
  \A q \in Request : answer[q].code = 200 /\ call[q].op = "update" => call[q].id \in DOMAIN born

FreshInv ==
  /\ TableIsFresh
  /\ PatchesFoundTheirIssue
  /\ \A r \in Request :
       /\ pc[r] \in {"refreshed", "told"} /\ call[r].op # "delete" => IsFresh(r, copy[r])
       /\ \A row \in answer[r].shown : row.id \in DOMAIN born /\ IsFresh(r, row)

-----------------------------------------------------------------------------
(* What a step does to columns, copies and answers. *)

(* A value of the table is that of a new row, or was there before and no   *)
(* PATCH newly counts, or a PATCH commits it now. *)
ValueFrom(i, f) ==
  \/ i \in DOMAIN born' /\ rows'[i].data = born'[i].data /\ \A q \in Request : ~ Counts(q, i, f)'
  \/ /\ i \in DOMAIN rows /\ rows'[i].data[f] = rows[i].data[f]
     /\ \A q \in Request : Counts(q, i, f)' => Counts(q, i, f)
  \/ \E p \in Request, v \in Value \cup {None} :
       pc[p] = "loaded" /\ v = rows'[i].data[f] /\ Wrote(p, i, f, v)'

WriterStays(p) ==
  BeyondCommit(p) => /\ BeyondCommit(p)'
                     /\ answer'[p] = answer[p] \/ answer'[p].code \notin {403, 404}

CopyFrom(r) ==
  pc'[r] \in {"refreshed", "told"} /\ call'[r].op # "delete" =>
    \/ pc[r] \in {"refreshed", "told"} /\ copy'[r] = copy[r]
    \/ pc[r] = "committed" /\ copy[r].id \in DOMAIN rows /\ copy'[r] = rows[copy[r].id]

ShownFrom(r) ==
  \A row \in answer'[r].shown :
    \/ row \in answer[r].shown
    \/ pc[r] = "told" /\ call[r].op # "delete" /\ row = copy[r]
    \/ pc[r] = "sent" /\ call[r].op # "update" /\ \E i \in DOMAIN rows : row = rows[i]

FreshStep ==
  /\ \A i \in DOMAIN rows' : \A f \in Field : ValueFrom(i, f)
  /\ \A r \in Request : WriterStays(r) /\ CopyFrom(r) /\ ShownFrom(r)

Others(r) ==
  \A q \in Request : q # r =>
    pc'[q] = pc[q] /\ copy'[q] = copy[q] /\ call'[q] = call[q] /\ answer'[q] = answer[q]

(* One request moves, and the others with it are as they were. *)
LEMMA MoveIsFresh ==
  ASSUME NEW r \in Request, Others(r),
         \A i \in DOMAIN rows' : \A f \in Field : ValueFrom(i, f),
         WriterStays(r), CopyFrom(r), ShownFrom(r)
  PROVE  FreshStep
<1>1. ASSUME NEW q \in Request, q # r PROVE WriterStays(q) /\ CopyFrom(q) /\ ShownFrom(q)
  BY <1>1 DEF Others, WriterStays, CopyFrom, ShownFrom, BeyondCommit
<1>. QED
  BY <1>1 DEF FreshStep

(* The rows that stay, stay as they were, and r's PATCH does not come to   *)
(* count. *)
LEMMA QuietTableIsFresh ==
  ASSUME NEW r \in Request, Others(r),
         \A i \in DOMAIN rows' : i \in DOMAIN rows /\ rows'[i] = rows[i],
         \A i \in DOMAIN rows' : \A f \in Field : Counts(r, i, f)' => Counts(r, i, f)
  PROVE  \A i \in DOMAIN rows' : \A f \in Field : ValueFrom(i, f)
<1>. SUFFICES ASSUME NEW i \in DOMAIN rows', NEW f \in Field
              PROVE  \A q \in Request : Counts(q, i, f)' => Counts(q, i, f)
  BY DEF ValueFrom
<1>1. ASSUME NEW q \in Request, q # r, Counts(q, i, f)' PROVE Counts(q, i, f)
  BY <1>1 DEF Others, Counts, AsksToSet
<1>. QED
  BY <1>1

(* Whose PATCH counts, found its issue. *)
LEMMA CountsOwn ==
  ASSUME IssuesInv, PatchesFoundTheirIssue, NEW q \in Request, NEW i, NEW f, Counts(q, i, f)
  PROVE  i \in DOMAIN born
<1>1. CASE pc[q] \in {"loaded", "committed", "refreshed", "told"}
  <2>1. HoldsOwn(q)
    BY <1>1 DEF IssuesInv, RequestInv
  <2>. QED
    BY <2>1 DEF Counts, AsksToSet, HoldsOwn, Own
<1>2. CASE answer[q].code = 200
  BY <1>2 DEF Counts, AsksToSet, PatchesFoundTheirIssue
<1>. QED
  BY <1>1, <1>2 DEF Counts

(* INSERT. *)
LEMMA CreateIsFresh ==
  ASSUME IssuesInv, PatchesFoundTheirIssue, NEW r \in Request, Others(r), call' = call,
         pc[r] = "sent", NEW i \in IssueId, CreateRow(r, i)
  PROVE  \A j \in DOMAIN rows' : \A f \in Field : ValueFrom(j, f)
<1>1. /\ call[r].op = "create" /\ i \notin DOMAIN born
      /\ DOMAIN born' = DOMAIN born \cup {i}
      /\ DOMAIN rows' = DOMAIN rows \cup {i} /\ rows'[i] = born'[i]
      /\ \A j \in DOMAIN rows : j # i => rows'[j] = rows[j]
  BY DEF CreateRow, Asks, Stored
<1>2. DOMAIN rows \subseteq DOMAIN born
  BY Histories
<1>. SUFFICES ASSUME NEW j \in DOMAIN rows', NEW f \in Field PROVE ValueFrom(j, f)
  OBVIOUS
<1>3. ~ Counts(r, j, f)'
  BY <1>1 DEF Counts, AsksToSet
<1>4. CASE j = i
  <2>1. ASSUME NEW q \in Request, q # r, Counts(q, i, f)' PROVE FALSE
    <3>1. call[q].op = "update" /\ call[q].id = i /\ pc[q] # "new"
      BY <2>1 DEF Others, Counts, AsksToSet
    <3>2. CASE pc[q] = "loaded"
      BY <1>1, <3>1, <3>2 DEF IssuesInv, RequestInv, HoldsOwn, Own
    <3>3. CASE pc[q] # "loaded"
      <4>1. Counts(q, i, f)
        BY <2>1, <3>3 DEF Others, Counts, AsksToSet
      <4>. QED
        BY <1>1, <4>1, CountsOwn
    <3>. QED
      BY <3>2, <3>3
  <2>. QED
    BY <1>1, <1>3, <1>4, <2>1 DEF ValueFrom
<1>5. CASE j # i
  <2>1. j \in DOMAIN rows /\ rows'[j] = rows[j]
    BY <1>1, <1>5
  <2>2. ASSUME NEW q \in Request, q # r, Counts(q, j, f)' PROVE Counts(q, j, f)
    BY <2>1, <2>2 DEF Others, Counts, AsksToSet
  <2>. QED
    BY <1>3, <2>1, <2>2 DEF ValueFrom
<1>. QED
  BY <1>4, <1>5

(* UPDATE. *)
LEMMA UpdateIsFresh ==
  ASSUME IssuesInv, NEW r \in Request, Others(r), pc[r] = "loaded", call' = call,
         UpdateRow(r), UNCHANGED <<born, copy>>,
         pc'[r] = "committed" \/ pc'[r] = "answered", answer'[r].code \in {0, 500}
  PROVE  \A i \in DOMAIN rows' : \A f \in Field : ValueFrom(i, f)
<1>1. /\ DOMAIN rows' = DOMAIN rows /\ rows' \in Table
      /\ \A i \in DOMAIN rows : i # copy[r].id => rows'[i] = rows[i]
      /\ copy[r].id \in DOMAIN rows =>
           rows'[copy[r].id] = Patched(rows[copy[r].id], Dirty(r))
  BY UpdateRowKeeps DEF TablesKept
<1>2. /\ call[r].op = "update" /\ copy[r].id = call[r].id /\ call[r] \in Call
      /\ call[r].body \in Body
  BY CallTypes DEF UpdateRow, Asks, IssuesInv, RequestInv, HoldsOwn
<1>. SUFFICES ASSUME NEW i \in DOMAIN rows', NEW f \in Field PROVE ValueFrom(i, f)
  OBVIOUS
<1>3. ASSUME NEW q \in Request, q # r, Counts(q, i, f)', rows'[i].data[f] = rows[i].data[f]
      PROVE  Counts(q, i, f)
  BY <1>3 DEF Others, Counts, AsksToSet
<1>4. CASE i # call[r].id \/ f \notin DOMAIN call[r].body
  <2>1. ~ Counts(r, i, f)'
    BY <1>4 DEF Counts, AsksToSet
  <2>2. rows'[i].data[f] = rows[i].data[f]
    <3>1. CASE i # call[r].id
      BY <1>1, <1>2, <3>1
    <3>2. CASE i = call[r].id /\ f \notin DOMAIN call[r].body
      <4>1. f \notin DOMAIN Dirty(r)
        BY <1>2, <3>2, DirtyProperties
      <4>2. rows[i] \in Row
        BY <1>1, TableDomain DEF IssuesInv, IssuesTypeOK
      <4>. QED
        BY <1>1, <1>2, <3>2, <4>1, <4>2 DEF Patched, Row
    <3>. QED
      BY <1>4, <3>1, <3>2
  <2>. QED
    BY <1>1, <1>3, <2>1, <2>2 DEF ValueFrom
<1>5. CASE i = call[r].id /\ f \in DOMAIN call[r].body /\ rows'[i].data[f] = call[r].body[f]
  <2>1. call[r].body[f] \in Value \cup {None}
    BY <1>2, <1>5, BodyDomain
  <2>2. PICK v \in Value \cup {None} : v = rows'[i].data[f]
    BY <1>5, <2>1
  <2>3. Wrote(r, i, f, v)'
    BY <1>2, <1>5, <2>2 DEF Wrote, BeyondCommit, AsksToSet
  <2>. QED
    BY <2>2, <2>3 DEF ValueFrom
<1>6. CASE i = call[r].id /\ f \in DOMAIN call[r].body /\ rows'[i].data[f] # call[r].body[f]
  <2>1. \A g \in Field : rows'[i].data[g] =
          IF g \in DOMAIN Dirty(r) THEN Dirty(r)[g] ELSE rows[i].data[g]
    <3>1. rows[i] \in Row
      BY <1>1, TableDomain DEF IssuesInv, IssuesTypeOK
    <3>. QED
      BY <1>1, <1>2, <1>6, <3>1 DEF Patched, Row
  <2>2. f \notin DOMAIN Dirty(r)
    BY <1>2, <1>6, <2>1, DirtyProperties
  <2>3. rows'[i].data[f] = rows[i].data[f] /\ copy[r].data[f] = call[r].body[f]
    BY <1>6, <2>1, <2>2 DEF Dirty, ChangedFields
  <2>4. Counts(r, i, f)
    BY <1>2, <1>6, <2>3 DEF Counts, AsksToSet
  <2>. QED
    BY <1>1, <1>3, <2>3, <2>4 DEF ValueFrom
<1>. QED
  BY <1>4, <1>5, <1>6

(* A move that leaves the rows alone. *)
LEMMA QuietMoveIsFresh ==
  ASSUME NEW r \in Request, Others(r), UNCHANGED rows,
         \A i \in DOMAIN rows' : \A f \in Field : Counts(r, i, f)' => Counts(r, i, f),
         WriterStays(r), CopyFrom(r), ShownFrom(r)
  PROVE  FreshStep
BY MoveIsFresh, QuietTableIsFresh

(* An answer that shows nothing, from a handler that has set nothing, or   *)
(* with a 500. *)
LEMMA FailureIsFresh ==
  ASSUME IssuesInv, NEW r \in Request, NEW from \in InFlight, NEW code \in {403, 404, 500},
         Respond(r, from, code, {}), from \in {"sent", "loaded"} \/ code = 500,
         UNCHANGED call, \A q \in Request : q # r => copy'[q] = copy[q]
  PROVE  /\ Others(r) /\ WriterStays(r) /\ CopyFrom(r) /\ ShownFrom(r)
         /\ pc'[r] = "answered" /\ answer'[r].code = code
         /\ \A i, f : ~ Counts(r, i, f)'
<1>1. /\ pc[r] = from /\ pc' = [pc EXCEPT ![r] = "answered"]
      /\ answer' = [answer EXCEPT ![r] = [code |-> code, shown |-> {}]]
  BY DEF Respond, Step
<1>2. /\ pc \in [Request -> {"new", "answered", "lost"} \cup InFlight]
      /\ answer \in [Request -> [code : {0, 200, 201, 204, 403, 404, 500}, shown : SUBSET Row]]
  BY DEF IssuesInv, IssuesTypeOK
<1>3. pc'[r] = "answered" /\ answer'[r] = [code |-> code, shown |-> {}]
  BY <1>1, <1>2
<1>4. Others(r)
  BY <1>1, <1>2 DEF Others
<1>5. WriterStays(r) /\ CopyFrom(r) /\ ShownFrom(r)
  BY <1>1, <1>3 DEF WriterStays, CopyFrom, ShownFrom, BeyondCommit
<1>6. \A i, f : ~ Counts(r, i, f)'
  BY <1>3 DEF Counts
<1>. QED
  BY <1>3, <1>4, <1>5, <1>6

(* What a reading handler answers. *)
LEMMA ReadIsFresh ==
  ASSUME IssuesInv, NEW r \in Request, NEW shown \in SUBSET Row,
         Respond(r, "sent", 200, shown), UNCHANGED <<rows, call, copy>>,
         call[r].op # "update", \A row \in shown : \E i \in DOMAIN rows : row = rows[i]
  PROVE  FreshStep
<1>1. /\ pc[r] = "sent" /\ pc' = [pc EXCEPT ![r] = "answered"]
      /\ answer' = [answer EXCEPT ![r] = [code |-> 200, shown |-> shown]]
  BY DEF Respond, Step
<1>2. /\ pc \in [Request -> {"new", "answered", "lost"} \cup InFlight]
      /\ answer \in [Request -> [code : {0, 200, 201, 204, 403, 404, 500}, shown : SUBSET Row]]
  BY DEF IssuesInv, IssuesTypeOK
<1>3. pc'[r] = "answered" /\ answer'[r] = [code |-> 200, shown |-> shown] /\ Others(r)
  BY <1>1, <1>2 DEF Others
<1>4. WriterStays(r) /\ CopyFrom(r)
  BY <1>1, <1>3 DEF WriterStays, CopyFrom, BeyondCommit
<1>5. ShownFrom(r)
  BY <1>1, <1>3 DEF ShownFrom
<1>6. \A i, f : ~ Counts(r, i, f)'
  BY DEF Counts, AsksToSet
<1>. QED
  BY <1>3, <1>4, <1>5, <1>6, QuietMoveIsFresh

LEMMA NextIsFresh ==
  ASSUME IssuesInv, ToldInv, LaterInv, PatchesFoundTheirIssue, IssuesNext
  PROVE  FreshStep
<1>0. /\ pc \in [Request -> {"new", "answered", "lost"} \cup InFlight]
      /\ call \in [Request -> Calls \cup {None}]
      /\ copy \in [Request -> Row \cup {None}]
      /\ answer \in [Request -> [code : {0, 200, 201, 204, 403, 404, 500}, shown : SUBSET Row]]
  BY DEF IssuesInv, IssuesTypeOK
<1>1. ASSUME NEW r \in Request, Send(r) PROVE FreshStep
  <2>1. /\ pc' = [pc EXCEPT ![r] = "sent"] /\ pc[r] = "new" /\ UNCHANGED <<rows, copy, answer>>
        /\ \E q \in Calls : call' = [call EXCEPT ![r] = q]
    BY <1>1 DEF Send, Step
  <2>2. pc'[r] = "sent" /\ Others(r)
    BY <1>0, <2>1 DEF Others
  <2>3. WriterStays(r) /\ CopyFrom(r) /\ ShownFrom(r)
    BY <2>1, <2>2 DEF WriterStays, CopyFrom, ShownFrom, BeyondCommit
  <2>4. \A i, f : ~ Counts(r, i, f)'
    BY <2>2 DEF Counts
  <2>. QED
    BY <2>1, <2>2, <2>3, <2>4, QuietMoveIsFresh
<1>2. ASSUME NEW r \in Request, Forbid(r) \/ UpdateRaises(r) PROVE FreshStep
  <2>1. /\ Respond(r, "sent", 403, {}) \/ Respond(r, "loaded", 500, {})
        /\ UNCHANGED <<rows, call, copy>>
    BY <1>2 DEF Forbid, UpdateRaises
  <2>2. /\ Others(r) /\ WriterStays(r) /\ CopyFrom(r) /\ ShownFrom(r)
        /\ \A i, f : ~ Counts(r, i, f)'
    BY <2>1, FailureIsFresh DEF InFlight
  <2>. QED
    BY <2>1, <2>2, QuietMoveIsFresh
<1>3. ASSUME NEW r \in Request, ListIssues(r) PROVE FreshStep
  <2>1. PICK found \in SUBSET DOMAIN rows : Respond(r, "sent", 200, {rows[i] : i \in found})
    BY <1>3 DEF ListIssues, VisibleTo
  <2>2. UNCHANGED <<rows, call, copy>> /\ call[r].op = "list"
    BY <1>3 DEF ListIssues, Asks
  <2>3. PICK shown : shown = {rows[i] : i \in found}
    OBVIOUS
  <2>4. shown \in SUBSET Row /\ \A row \in shown : \E i \in DOMAIN rows : row = rows[i]
    BY <2>3, TableDomain DEF IssuesInv, IssuesTypeOK
  <2>. QED
    BY <2>1, <2>2, <2>3, <2>4, ReadIsFresh
<1>4. ASSUME NEW r \in Request, GetIssue(r) PROVE FreshStep
  <2>1. UNCHANGED <<rows, call, copy>> /\ call[r].op = "get"
    BY <1>4 DEF GetIssue, Asks
  <2>2. CASE call[r].id \in VisibleTo(call[r].tenant)
    <3>1. Respond(r, "sent", 200, {rows[call[r].id]}) /\ call[r].id \in DOMAIN rows
      BY <1>4, <2>2 DEF GetIssue, VisibleTo
    <3>2. {rows[call[r].id]} \in SUBSET Row
      BY <3>1, TableDomain DEF IssuesInv, IssuesTypeOK
    <3>. QED
      BY <2>1, <3>1, <3>2, ReadIsFresh
  <2>3. CASE call[r].id \notin VisibleTo(call[r].tenant)
    <3>1. Respond(r, "sent", 404, {})
      BY <1>4, <2>3 DEF GetIssue
    <3>2. /\ Others(r) /\ WriterStays(r) /\ CopyFrom(r) /\ ShownFrom(r)
          /\ \A i, f : ~ Counts(r, i, f)'
      BY <2>1, <3>1, FailureIsFresh DEF InFlight
    <3>. QED
      BY <2>1, <3>2, QuietMoveIsFresh
  <2>. QED
    BY <2>2, <2>3
<1>5. ASSUME NEW r \in Request, CreateIssue(r) PROVE FreshStep
  <2>1. PICK i \in IssueId : CreateRow(r, i)
    BY <1>5 DEF CreateIssue
  <2>2. /\ pc[r] = "sent" /\ pc' = [pc EXCEPT ![r] = "committed"]
        /\ UNCHANGED <<call, answer>>
    BY <1>5 DEF CreateIssue, Step
  <2>3. pc'[r] = "committed" /\ Others(r)
    BY <1>0, <2>1, <2>2, CreateRowKeeps DEF Others
  <2>4. WriterStays(r) /\ CopyFrom(r) /\ ShownFrom(r)
    BY <2>2, <2>3 DEF WriterStays, CopyFrom, ShownFrom, BeyondCommit
  <2>. QED
    BY <2>1, <2>2, <2>3, <2>4, CreateIsFresh, MoveIsFresh
<1>6. ASSUME NEW r \in Request, LoadIssue(r) PROVE FreshStep
  <2>1. pc[r] = "sent" /\ UNCHANGED <<rows, call>>
    BY <1>6 DEF LoadIssue
  <2>2. CASE call[r].id \in VisibleTo(call[r].tenant)
    <3>1. /\ pc' = [pc EXCEPT ![r] = "loaded"] /\ UNCHANGED answer
          /\ copy' = [copy EXCEPT ![r] = rows[call[r].id]]
      BY <1>6, <2>2 DEF LoadIssue, Step
    <3>2. pc'[r] = "loaded" /\ copy'[r] = rows[call[r].id] /\ Others(r)
      BY <1>0, <2>1, <3>1 DEF Others
    <3>3. WriterStays(r) /\ CopyFrom(r) /\ ShownFrom(r)
      BY <2>1, <3>1, <3>2 DEF WriterStays, CopyFrom, ShownFrom, BeyondCommit
    <3>4. \A i, f : ~ Counts(r, i, f)'
      BY <2>1, <3>2 DEF Counts, AsksToSet
    <3>. QED
      BY <2>1, <3>2, <3>3, <3>4, QuietMoveIsFresh
  <2>3. CASE call[r].id \notin VisibleTo(call[r].tenant)
    <3>1. Respond(r, "sent", 404, {}) /\ UNCHANGED copy
      BY <1>6, <2>3 DEF LoadIssue
    <3>2. /\ Others(r) /\ WriterStays(r) /\ CopyFrom(r) /\ ShownFrom(r)
          /\ \A i, f : ~ Counts(r, i, f)'
      BY <2>1, <3>1, FailureIsFresh DEF InFlight
    <3>. QED
      BY <2>1, <3>2, QuietMoveIsFresh
  <2>. QED
    BY <2>2, <2>3
<1>7. ASSUME NEW r \in Request, UpdateIssue(r) PROVE FreshStep
  <2>1. /\ pc[r] = "loaded" /\ pc' = [pc EXCEPT ![r] = "committed"] /\ UpdateRow(r)
        /\ UNCHANGED <<born, call, copy, answer>>
    BY <1>7 DEF UpdateIssue, Step
  <2>2. pc'[r] = "committed" /\ Others(r) /\ answer'[r].code = 0
    BY <1>0, <2>1 DEF Others, LaterInv
  <2>3. WriterStays(r) /\ CopyFrom(r) /\ ShownFrom(r)
    BY <2>1, <2>2 DEF WriterStays, CopyFrom, ShownFrom, BeyondCommit
  <2>. QED
    BY <2>1, <2>2, <2>3, UpdateIsFresh, MoveIsFresh
<1>8. ASSUME NEW r \in Request, DeleteIssue(r) PROVE FreshStep
  <2>1. /\ pc[r] = "loaded" /\ pc' = [pc EXCEPT ![r] = "refreshed"] /\ DeleteRow(r)
        /\ call[r].op = "delete" /\ UNCHANGED <<born, call, copy, answer>>
    BY <1>8 DEF DeleteIssue, DeleteRow, Asks, Step
  <2>2. pc'[r] = "refreshed" /\ Others(r)
    BY <1>0, <2>1 DEF Others
  <2>3. WriterStays(r) /\ CopyFrom(r) /\ ShownFrom(r)
    BY <2>1, <2>2 DEF WriterStays, CopyFrom, ShownFrom, BeyondCommit
  <2>4. \A i, f : ~ Counts(r, i, f)'
    BY <2>1 DEF Counts, AsksToSet
  <2>5. \A i \in DOMAIN rows' : i \in DOMAIN rows /\ rows'[i] = rows[i]
    BY <2>1, DeleteRowKeeps
  <2>. QED
    BY <2>2, <2>3, <2>4, <2>5, QuietTableIsFresh, MoveIsFresh
<1>9. ASSUME NEW r \in Request, RefreshIssue(r) PROVE FreshStep
  <2>1. pc[r] = "committed" /\ UNCHANGED <<rows, call>>
    BY <1>9 DEF RefreshIssue
  <2>2. CASE copy[r].id \in DOMAIN rows
    <3>1. /\ pc' = [pc EXCEPT ![r] = "refreshed"] /\ UNCHANGED answer
          /\ copy' = [copy EXCEPT ![r] = rows[copy[r].id]]
      BY <1>9, <2>2 DEF RefreshIssue, Step
    <3>2. pc'[r] = "refreshed" /\ copy'[r] = rows[copy[r].id] /\ Others(r)
      BY <1>0, <2>1, <3>1 DEF Others
    <3>3. WriterStays(r) /\ CopyFrom(r) /\ ShownFrom(r)
      BY <2>1, <2>2, <3>1, <3>2 DEF WriterStays, CopyFrom, ShownFrom, BeyondCommit
    <3>4. \A i, f : Counts(r, i, f)' => Counts(r, i, f)
      BY <2>1 DEF Counts, AsksToSet
    <3>. QED
      BY <2>1, <3>2, <3>3, <3>4, QuietMoveIsFresh
  <2>3. CASE copy[r].id \notin DOMAIN rows
    <3>1. Respond(r, "committed", 500, {}) /\ UNCHANGED copy
      BY <1>9, <2>3 DEF RefreshIssue
    <3>2. /\ Others(r) /\ WriterStays(r) /\ CopyFrom(r) /\ ShownFrom(r)
          /\ \A i, f : ~ Counts(r, i, f)'
      BY <2>1, <3>1, FailureIsFresh DEF InFlight
    <3>. QED
      BY <2>1, <3>2, QuietMoveIsFresh
  <2>. QED
    BY <2>2, <2>3
<1>10. ASSUME NEW r \in Request, PublishEvent(r) \/ PublishFails(r) PROVE FreshStep
  <2>1. /\ pc[r] = "refreshed" /\ pc' = [pc EXCEPT ![r] = "told"]
        /\ UNCHANGED <<rows, call, copy, answer>>
    BY <1>10 DEF PublishEvent, PublishFails, Step
  <2>2. pc'[r] = "told" /\ Others(r)
    BY <1>0, <2>1 DEF Others
  <2>3. WriterStays(r) /\ CopyFrom(r) /\ ShownFrom(r)
    BY <2>1, <2>2 DEF WriterStays, CopyFrom, ShownFrom, BeyondCommit
  <2>4. \A i, f : Counts(r, i, f)' => Counts(r, i, f)
    BY <2>1 DEF Counts, AsksToSet
  <2>. QED
    BY <2>1, <2>2, <2>3, <2>4, QuietMoveIsFresh
<1>11. ASSUME NEW r \in Request, Finish(r) PROVE FreshStep
  <2>1. /\ pc[r] = "told" /\ pc' = [pc EXCEPT ![r] = "answered"]
        /\ UNCHANGED <<rows, call, copy>>
        /\ answer' = [answer EXCEPT ![r] = [code |-> SuccessCode(r), shown |-> SuccessBody(r)]]
    BY <1>11 DEF Finish, Respond, Step
  <2>2. /\ pc'[r] = "answered" /\ answer'[r].code = SuccessCode(r)
        /\ answer'[r].shown = SuccessBody(r) /\ Others(r)
    BY <1>0, <2>1 DEF Others
  <2>3. SuccessCode(r) \notin {403, 404}
    BY DEF SuccessCode
  <2>4. WriterStays(r) /\ CopyFrom(r) /\ ShownFrom(r)
    BY <2>1, <2>2, <2>3 DEF WriterStays, CopyFrom, ShownFrom, BeyondCommit, SuccessBody
  <2>5. \A i, f : Counts(r, i, f)' => Counts(r, i, f)
    BY <2>1 DEF Counts, AsksToSet
  <2>. QED
    BY <2>1, <2>2, <2>4, <2>5, QuietMoveIsFresh
<1>12. ASSUME NEW r \in Request, DatabaseFails(r) PROVE FreshStep
  <2>1. PICK from \in {"sent", "loaded", "committed"} : Respond(r, from, 500, {})
    BY <1>12 DEF DatabaseFails
  <2>2. UNCHANGED call /\ \A q \in Request : q # r => copy'[q] = copy[q]
    <3>1. CASE \E i \in IssueId : CreateRow(r, i)
      BY <1>0, <1>12, <3>1 DEF CreateRow, DatabaseFails
    <3>2. CASE UNCHANGED copy
      BY <1>12, <3>2 DEF DatabaseFails
    <3>. QED
      BY <1>12, <3>1, <3>2 DEF DatabaseFails
  <2>3. /\ Others(r) /\ WriterStays(r) /\ CopyFrom(r) /\ ShownFrom(r)
        /\ pc'[r] = "answered" /\ answer'[r].code = 500
        /\ \A i, f : ~ Counts(r, i, f)'
    BY <2>1, <2>2, FailureIsFresh DEF InFlight
  <2>4. CASE UNCHANGED <<rows, born, copy, commits>>
    BY <2>3, <2>4, QuietMoveIsFresh
  <2>5. CASE pc[r] = "sent" /\ \E i \in IssueId : CreateRow(r, i)
    BY <2>2, <2>3, <2>5, CreateIsFresh, MoveIsFresh
  <2>6. CASE pc[r] = "loaded" /\ UpdateRow(r) /\ UNCHANGED <<born, copy>>
    BY <2>2, <2>3, <2>6, UpdateIsFresh, MoveIsFresh
  <2>7. CASE pc[r] = "loaded" /\ DeleteRow(r) /\ UNCHANGED <<born, copy>>
    <3>1. \A i \in DOMAIN rows' : i \in DOMAIN rows /\ rows'[i] = rows[i]
      BY <2>7, DeleteRowKeeps
    <3>. QED
      BY <2>3, <3>1, QuietTableIsFresh, MoveIsFresh
  <2>. QED
    BY <1>12, <2>4, <2>5, <2>6, <2>7 DEF DatabaseFails
<1>13. CASE Crash
  <2>1. /\ pc' = [r \in Request |-> IF pc[r] \in InFlight THEN "lost" ELSE pc[r]]
        /\ UNCHANGED <<rows, call, copy, answer>>
    BY <1>13 DEF Crash
  <2>2. \A r \in Request : \/ pc'[r] = pc[r] /\ pc[r] \notin InFlight
                           \/ pc'[r] = "lost"
    BY <2>1
  <2>3. \A r \in Request : WriterStays(r) /\ CopyFrom(r) /\ ShownFrom(r)
    BY <2>1, <2>2 DEF WriterStays, CopyFrom, ShownFrom, BeyondCommit, InFlight
  <2>4. \A r \in Request : \A i, f : Counts(r, i, f)' => Counts(r, i, f)
    BY <2>1, <2>2 DEF Counts, AsksToSet
  <2>. QED
    BY <2>1, <2>3, <2>4 DEF FreshStep, ValueFrom
<1>. QED
  BY <1>1, <1>2, <1>3, <1>4, <1>5, <1>6, <1>7, <1>8, <1>9, <1>10, <1>11, <1>12, <1>13
  DEF IssuesNext

-----------------------------------------------------------------------------
(* So that columns, copies and answers stay fresh. *)

BornKept == \A i \in DOMAIN born : i \in DOMAIN born' /\ born'[i] = born[i]

LEMMA BornIsKept ==
  ASSUME IssuesNext
  PROVE  BornKept
<1>1. UNCHANGED born \/ \E r \in Request, i \in IssueId : CreateRow(r, i)
  BY DEF IssuesNext, Send, Forbid, ListIssues, GetIssue, CreateIssue, LoadIssue, UpdateIssue,
     UpdateRaises, DeleteIssue, RefreshIssue, PublishEvent, PublishFails, Finish,
     DatabaseFails, Crash
<1>2. ASSUME NEW r \in Request, NEW i \in IssueId, CreateRow(r, i) PROVE BornKept
  BY <1>2 DEF CreateRow, BornKept
<1>. QED
  BY <1>1, <1>2 DEF BornKept

LEMMA WroteStays ==
  ASSUME CallsStay, FreshStep, NEW p \in Request, NEW i, NEW f, NEW v, Wrote(p, i, f, v)
  PROVE  Wrote(p, i, f, v)'
<1>1. call'[p] = call[p]
  BY DEF CallsStay, Wrote, BeyondCommit
<1>2. WriterStays(p)
  BY DEF FreshStep
<1>. QED
  BY <1>1, <1>2 DEF Wrote, WriterStays, AsksToSet

LEMMA TableStaysFresh ==
  ASSUME IssuesInv, LaterInv, TableIsFresh, CallsStay, LaterStep, FreshStep, BornKept
  PROVE  TableIsFresh'
<1>. SUFFICES ASSUME NEW i \in DOMAIN rows', NEW f \in Field PROVE ColumnIsFresh(i, f)'
  BY DEF TableIsFresh
<1>0. ValueFrom(i, f)
  BY DEF FreshStep
<1>1. CASE rows'[i].data = born'[i].data /\ \A q \in Request : ~ Counts(q, i, f)'
  BY <1>1 DEF ColumnIsFresh
<1>2. CASE /\ i \in DOMAIN rows /\ rows'[i].data[f] = rows[i].data[f]
           /\ \A q \in Request : Counts(q, i, f)' => Counts(q, i, f)
  <2>1. i \in DOMAIN born /\ ColumnIsFresh(i, f)
    BY <1>2, Histories DEF TableIsFresh
  <2>2. CASE rows[i].data[f] = born[i].data[f] /\ \A q \in Request : ~ Counts(q, i, f)
    BY <1>2, <2>1, <2>2 DEF ColumnIsFresh, BornKept
  <2>3. ASSUME NEW p \in Request, Wrote(p, i, f, rows[i].data[f]),
               \A q \in Request : Counts(q, i, f) => p \notin before[q]
        PROVE  ColumnIsFresh(i, f)'
    <3>1. PICK v : v = rows[i].data[f]
      OBVIOUS
    <3>2. Wrote(p, i, f, v)'
      BY <2>3, <3>1, WroteStays
    <3>3. ASSUME NEW q \in Request, Counts(q, i, f)' PROVE p \notin before'[q]
      <4>1. Counts(q, i, f)
        BY <1>2, <3>3
      <4>2. p \notin before[q] /\ pc[q] # "new"
        BY <2>3, <4>1 DEF Counts
      <4>. QED
        BY <4>2, BeforeStays
    <3>4. Wrote(p, i, f, rows[i].data[f])'
      BY <1>2, <3>1, <3>2 DEF Wrote, BeyondCommit, AsksToSet
    <3>. QED
      BY <3>3, <3>4 DEF ColumnIsFresh
  <2>. QED
    BY <2>1, <2>2, <2>3 DEF ColumnIsFresh
<1>3. ASSUME NEW p \in Request, NEW v \in Value \cup {None}, pc[p] = "loaded",
             v = rows'[i].data[f], Wrote(p, i, f, v)'
      PROVE  ColumnIsFresh(i, f)'
  <2>1. ASSUME NEW q \in Request PROVE p \notin before'[q]
    BY <1>3, BeforeStays
  <2>2. Wrote(p, i, f, rows[i].data[f])'
    BY <1>3 DEF Wrote, BeyondCommit, AsksToSet
  <2>. QED
    BY <2>1, <2>2 DEF ColumnIsFresh
<1>. QED
  BY <1>0, <1>1, <1>2, <1>3 DEF ValueFrom

(* What the table holds is fresh for a request that reads it now. *)
LEMMA ReadsFresh ==
  ASSUME IssuesInv, LaterInv, TableIsFresh, NEW r \in Request, NEW i \in DOMAIN rows,
         pc[r] = "committed" \/ (pc[r] = "sent" /\ call[r].op # "update")
  PROVE  rows[i].id = i /\ i \in DOMAIN born /\ IsFresh(r, rows[i])
<1>1. rows[i].id = i /\ i \in DOMAIN born
  BY Histories DEF IssuesInv, RowsKeepTenant
<1>2. ASSUME NEW f \in Field, NEW q \in Request, Earlier(q, r, i, f) PROVE Counts(q, i, f)
  <2>1. CASE q \in before[r] /\ answer[q].code = 200
    BY <1>2, <2>1 DEF Earlier, Counts, LaterInv, AsksToSet
  <2>2. CASE q = r
    BY <1>2, <2>2 DEF Earlier, Counts, AsksToSet
  <2>. QED
    BY <1>2, <2>1, <2>2 DEF Earlier
<1>3. ASSUME NEW p \in Request PROVE r \notin before[p]
  BY <1>3 DEF LaterInv
<1>4. ASSUME NEW f \in Field
      PROVE  \/ /\ rows[i].data[f] = born[rows[i].id].data[f]
                /\ \A q \in Request : ~ Earlier(q, r, rows[i].id, f)
             \/ \E p \in Request :
                  /\ Wrote(p, rows[i].id, f, rows[i].data[f]) /\ r \notin before[p]
                  /\ \A q \in Request : Earlier(q, r, rows[i].id, f) => p \notin before[q]
  <2>1. ColumnIsFresh(i, f)
    BY DEF TableIsFresh
  <2>. QED
    BY <1>1, <1>2, <1>3, <2>1 DEF ColumnIsFresh
<1>. QED
  BY <1>1, <1>4 DEF IsFresh

(* What is fresh for a request stays so. *)
LEMMA FreshStays ==
  ASSUME IssuesInv, LaterInv, CallsStay, LaterStep, FreshStep, BornKept,
         NEW r \in Request, pc[r] # "new", NEW row, row.id \in DOMAIN born, IsFresh(r, row)
  PROVE  IsFresh(r, row)'
<1>. SUFFICES ASSUME NEW f \in Field
              PROVE  \/ /\ row.data[f] = born'[row.id].data[f]
                        /\ \A q \in Request : ~ Earlier(q, r, row.id, f)'
                     \/ \E p \in Request :
                          /\ Wrote(p, row.id, f, row.data[f])' /\ r \notin before'[p]
                          /\ \A q \in Request : Earlier(q, r, row.id, f)' => p \notin before'[q]
  BY DEF IsFresh
<1>1. ASSUME NEW q \in Request, Earlier(q, r, row.id, f)'
      PROVE  Earlier(q, r, row.id, f) /\ pc[q] # "new"
  <2>1. CASE q \in before'[r] /\ answer'[q].code = 200
    <3>1. q \in before[r] /\ call'[q] = call[q] /\ answer'[q] = answer[q] /\ pc[q] = "answered"
      BY <2>1, BeforeStays
    <3>. QED
      BY <1>1, <2>1, <3>1 DEF Earlier, AsksToSet
  <2>2. CASE q = r
    BY <1>1, <2>2 DEF Earlier, AsksToSet, CallsStay
  <2>. QED
    BY <1>1, <2>1, <2>2 DEF Earlier
<1>2. CASE row.data[f] = born[row.id].data[f] /\ \A q \in Request : ~ Earlier(q, r, row.id, f)
  BY <1>1, <1>2 DEF BornKept
<1>3. ASSUME NEW p \in Request, Wrote(p, row.id, f, row.data[f]), r \notin before[p],
             \A q \in Request : Earlier(q, r, row.id, f) => p \notin before[q]
      PROVE  /\ Wrote(p, row.id, f, row.data[f])' /\ r \notin before'[p]
             /\ \A q \in Request : Earlier(q, r, row.id, f)' => p \notin before'[q]
  <2>1. Wrote(p, row.id, f, row.data[f])'
    BY <1>3, WroteStays
  <2>2. r \notin before'[p]
    <3>1. pc[p] # "new"
      BY <1>3 DEF Wrote, BeyondCommit
    <3>. QED
      BY <1>3, <3>1, BeforeStays
  <2>3. ASSUME NEW q \in Request, Earlier(q, r, row.id, f)' PROVE p \notin before'[q]
    <3>1. p \notin before[q] /\ pc[q] # "new"
      BY <1>1, <1>3, <2>3
    <3>. QED
      BY <3>1, BeforeStays
  <2>. QED
    BY <2>1, <2>2, <2>3
<1>. QED
  BY <1>2, <1>3 DEF IsFresh

LEMMA PatchesStillFound ==
  ASSUME IssuesInv, LaterInv, PatchesFoundTheirIssue, CallsStay, LaterStep, BornKept
  PROVE  PatchesFoundTheirIssue'
<1>. SUFFICES ASSUME NEW q \in Request, answer'[q].code = 200, call'[q].op = "update"
              PROVE  call'[q].id \in DOMAIN born'
  BY DEF PatchesFoundTheirIssue
<1>0. AnswerFrom(q)
  BY DEF LaterStep
<1>1. CASE answer'[q] = answer[q]
  <2>1. pc[q] = "answered"
    BY <1>1 DEF LaterInv
  <2>. QED
    BY <1>1, <2>1 DEF PatchesFoundTheirIssue, CallsStay, BornKept
<1>2. CASE pc[q] = "told" /\ copy[q].id = call[q].id
  BY <1>2, Held DEF CallsStay, BornKept
<1>3. CASE pc[q] \in InFlight /\ call[q].id \in DOMAIN rows \cup {None}
  <2>1. call[q] \in Calls /\ call'[q] = call[q]
    BY <1>3 DEF IssuesInv, RequestInv, InFlight, CallsStay
  <2>2. call[q].id \in IssueId
    BY <2>1, CallTypes
  <2>3. call[q].id # None
    BY <2>2, IssuesAssumption
  <2>. QED
    BY <1>3, <2>1, <2>3, Histories DEF BornKept
<1>. QED
  BY <1>0, <1>1, <1>2, <1>3 DEF AnswerFrom

LEMMA FreshInvKept ==
  ASSUME IssuesInv, LaterInv, FreshInv, CallsStay, LaterStep, FreshStep, BornKept
  PROVE  FreshInv'
<1>. USE DEF FreshInv
<1>1. ASSUME NEW r \in Request, NEW row, pc[r] # "new", row.id \in DOMAIN born, IsFresh(r, row)
      PROVE  row.id \in DOMAIN born' /\ IsFresh(r, row)'
  BY <1>1, FreshStays DEF BornKept
<1>2. ASSUME NEW r \in Request, NEW row, NEW i \in DOMAIN rows, row = rows[i],
             pc[r] = "committed" \/ (pc[r] = "sent" /\ call[r].op # "update")
      PROVE  row.id \in DOMAIN born' /\ IsFresh(r, row)'
  <2>1. rows[i].id = i /\ i \in DOMAIN born /\ IsFresh(r, rows[i])
    BY <1>2, ReadsFresh
  <2>. QED
    BY <1>1, <1>2, <2>1
<1>3. ASSUME NEW r \in Request, NEW row, row = copy[r], pc[r] \in {"refreshed", "told"},
             call[r].op # "delete"
      PROVE  row.id \in DOMAIN born' /\ IsFresh(r, row)'
  <2>1. row.id \in DOMAIN born /\ IsFresh(r, row)
    BY <1>3, Held
  <2>. QED
    BY <1>1, <1>3, <2>1
<1>4. ASSUME NEW r \in Request, pc'[r] \in {"refreshed", "told"}, call'[r].op # "delete"
      PROVE  IsFresh(r, copy[r])'
  <2>1. PICK row : row = copy'[r]
    OBVIOUS
  <2>2. CopyFrom(r)
    BY DEF FreshStep
  <2>3. CASE pc[r] \in {"refreshed", "told"} /\ copy'[r] = copy[r]
    <3>1. call'[r] = call[r]
      BY <2>3 DEF CallsStay
    <3>2. IsFresh(r, row)'
      BY <1>3, <1>4, <2>1, <2>3, <3>1
    <3>. QED
      BY <2>1, <3>2 DEF IsFresh
  <2>4. CASE pc[r] = "committed" /\ copy[r].id \in DOMAIN rows /\ copy'[r] = rows[copy[r].id]
    <3>1. IsFresh(r, row)'
      BY <1>2, <2>1, <2>4
    <3>. QED
      BY <2>1, <3>1 DEF IsFresh
  <2>. QED
    BY <1>4, <2>2, <2>3, <2>4 DEF CopyFrom
<1>5. ASSUME NEW r \in Request, NEW row \in answer'[r].shown
      PROVE  row.id \in DOMAIN born' /\ IsFresh(r, row)'
  <2>1. ShownFrom(r)
    BY DEF FreshStep
  <2>2. CASE row \in answer[r].shown
    <3>1. pc[r] = "answered"
      BY <2>2 DEF IssuesInv, RequestInv
    <3>. QED
      BY <1>1, <2>2, <3>1
  <2>. QED
    BY <1>2, <1>3, <2>1, <2>2 DEF ShownFrom
<1>. QED
  BY <1>4, <1>5, TableStaysFresh, PatchesStillFound

LEMMA FreshInvInit ==
  ASSUME IssuesInit
  PROVE  FreshInv
BY DEF IssuesInit, FreshInv, TableIsFresh, ColumnIsFresh, Counts, PatchesFoundTheirIssue

LEMMA FreshInvStutters ==
  ASSUME FreshInv, UNCHANGED issuesVars
  PROVE  FreshInv'
BY DEF issuesVars, FreshInv, TableIsFresh, ColumnIsFresh, Counts, Wrote, BeyondCommit, AsksToSet,
   PatchesFoundTheirIssue, IsFresh, Earlier

(* Columns, copies and answers of issues-service are fresh at all times.   *)
THEOREM FreshInvariant == IssuesSpec => []FreshInv
<1>1. IssuesInit => FreshInv
  BY FreshInvInit
<1>2. ASSUME IssuesInv, ToldInv, LaterInv, FreshInv, [IssuesNext]_issuesVars PROVE FreshInv'
  <2>1. CASE UNCHANGED issuesVars
    BY <1>2, <2>1, FreshInvStutters
  <2>2. CASE IssuesNext
    <3>1. ToldStep /\ LaterStep /\ BornKept
      BY <1>2, <2>2, NextTells, NextIsLater, BornIsKept
    <3>2. FreshStep
      BY <1>2, <2>2, NextIsFresh DEF FreshInv
    <3>. QED
      BY <1>2, <3>1, <3>2, FreshInvKept DEF ToldStep
  <2>. QED
    BY <1>2, <2>1, <2>2
<1>. QED
  BY <1>1, <1>2, ToldInvariant, LaterInvariant, PTL DEF IssuesSpec

(* No handler answers with a value that a PATCH had overwritten before the *)
(* request was sent, and no acknowledged PATCH is undone by one that was   *)
(* sent before it: although update_issue reads, compares and writes the    *)
(* columns in separate steps and locks nothing.                            *)
THEOREM AnswersAreFresh == IssuesSpec => []NoStaleAnswer
<1>1. ASSUME FreshInv, IssuesInv PROVE NoStaleAnswer
  <2>. SUFFICES ASSUME NEW r \in Request, NEW row \in answer[r].shown, NEW f \in Field
                PROVE  \/ SetFor(r, row.id, f) = {} /\ row.data[f] = born[row.id].data[f]
                       \/ \E p \in Request :
                            /\ Sets(p, row.id, f)
                            /\ call[p].body[f] = row.data[f]
                            /\ r \notin before[p]
                            /\ \A q \in SetFor(r, row.id, f) : p \notin before[q]
    BY DEF NoStaleAnswer
  <2>1. IsFresh(r, row)
    BY <1>1 DEF FreshInv
  <2>2. ASSUME NEW q \in SetFor(r, row.id, f) PROVE q \in Request => Earlier(q, r, row.id, f)
    BY <2>2 DEF SetFor, HasSet, Sets, Earlier, AsksToSet
  <2>3. \A q \in SetFor(r, row.id, f) : q \in Request
    BY <1>1 DEF SetFor, IssuesInv, IssuesTypeOK
  <2>4. ASSUME NEW p \in Request, Wrote(p, row.id, f, row.data[f])
        PROVE  Sets(p, row.id, f) /\ call[p].body[f] = row.data[f]
    BY <2>4 DEF Wrote, Sets, AsksToSet, BeyondCommit
  <2>. QED
    BY <2>1, <2>2, <2>3, <2>4 DEF IsFresh
<1>. QED
  BY <1>1, FreshInvariant, IssuesInvariant, PTL

-----------------------------------------------------------------------------
(***************************************************************************)
(* No change goes untold.                                                  *)
(***************************************************************************)

(* No change goes untold.  While nothing has failed, whatever the events   *)
(* do not tell yet, some handler still holds and is about to publish.      *)

Announced(name, i) == \E k \in DOMAIN events : events[k].event = name /\ events[k].id = i

DeletedAreGone ==
  \A k \in DOMAIN events : events[k].event = "issue.deleted" => events[k].id \notin DOMAIN rows

GoneIsTold(i) ==
  \/ Announced("issue.deleted", i)
  \/ \E d \in Request : pc[d] = "refreshed" /\ call[d].op = "delete" /\ copy[d].id = i

CreationIsTold(r, i) ==
  \/ pc[r] \in {"committed", "refreshed"} /\ copy[r].id = i
  \/ Announced("issue.created", i)

(* The last to commit reads, after that, what all have committed. *)
RowIsTold(i) ==
  \/ \E q \in Request : pc[q] = "committed" /\ copy[q].id = i
  \/ \E q \in Request : pc[q] = "refreshed" /\ copy[q] = rows[i]
  \/ \E k \in DOMAIN events : events[k].id = i /\ events[k].data = Restrict(rows[i].data, Told)

UntoldInv ==
  /\ DeletedAreGone
  /\ faults = 0 =>
       /\ \A i \in DOMAIN born \ DOMAIN rows : GoneIsTold(i)
       /\ \A j \in DOMAIN commits : commits[j].id \in DOMAIN born
       /\ \A j \in DOMAIN commits : commits[j].id \in DOMAIN rows =>
            /\ RowIsTold(commits[j].id)
            /\ call[commits[j].by].op = "create" => CreationIsTold(commits[j].by, commits[j].id)

-----------------------------------------------------------------------------
(* What a step that is no failure does to all that. *)

(* A handler that has committed goes on to its event, unless its issue has *)
(* been deleted. *)
GoesOn(q) ==
  /\ pc[q] = "committed" =>
       \/ pc'[q] = "committed" /\ copy'[q] = copy[q]
       \/ copy[q].id \notin DOMAIN rows
       \/ /\ copy[q].id \in DOMAIN rows /\ UNCHANGED rows
          /\ pc'[q] = "refreshed" /\ copy'[q] = rows[copy[q].id]
  /\ pc[q] = "refreshed" =>
       \/ pc'[q] = "refreshed" /\ copy'[q] = copy[q]
       \/ \E k \in DOMAIN events' : events'[k] = EventOf(q)

(* A row that is not as it was, or is committed to, is its committer's.    *)
RowFrom(i) ==
  \/ /\ i \in DOMAIN rows /\ rows'[i] = rows[i]
     /\ \A j \in DOMAIN commits' : commits'[j].id = i => j \in DOMAIN commits
  \/ \E q \in Request : pc'[q] = "committed" /\ copy'[q].id = i

CommitFrom(j) ==
  \/ j \in DOMAIN commits /\ commits'[j] = commits[j]
  \/ /\ commits'[j].id \in DOMAIN born'
     /\ LET r == commits'[j].by
        IN  call'[r].op = "create" => pc'[r] = "committed" /\ copy'[r].id = commits'[j].id

GoneFrom(i) ==
  \/ i \in DOMAIN born \ DOMAIN rows
  \/ \E d \in Request : pc'[d] = "refreshed" /\ call'[d].op = "delete" /\ copy'[d].id = i

TellStep ==
  /\ \A q \in Request : GoesOn(q)
  /\ \A i \in DOMAIN rows' : RowFrom(i)
  /\ \A j \in DOMAIN commits' : CommitFrom(j)
  /\ \A i \in DOMAIN born' \ DOMAIN rows' : GoneFrom(i)

LEMMA OthersGoOn ==
  ASSUME NEW r \in Request, Others(r), GoesOn(r)
  PROVE  \A q \in Request : GoesOn(q)
BY DEF Others, GoesOn

LEMMA QuietMoveTellsAll ==
  ASSUME NEW r \in Request, Others(r), GoesOn(r), UNCHANGED <<rows, born, commits>>
  PROVE  TellStep
BY OthersGoOn DEF TellStep, RowFrom, CommitFrom, GoneFrom

LEMMA NextTellsAll ==
  ASSUME IssuesInv, IssuesNext, faults' = 0
  PROVE  TellStep /\ faults = 0
<1>0. /\ pc \in [Request -> {"new", "answered", "lost"} \cup InFlight]
      /\ call \in [Request -> Calls \cup {None}]
      /\ copy \in [Request -> Row \cup {None}]
      /\ answer \in [Request -> [code : {0, 200, 201, 204, 403, 404, 500}, shown : SUBSET Row]]
      /\ faults \in Nat
      /\ commits \in Seq(CommitRecord) /\ events \in Seq(Event)
  BY IssuesAssumption DEF IssuesInv, IssuesTypeOK, CommitRecord
<1>1. ASSUME NEW r \in Request, Send(r) PROVE TellStep
  <2>1. /\ pc' = [pc EXCEPT ![r] = "sent"] /\ pc[r] = "new"
        /\ UNCHANGED <<rows, born, copy, answer, commits>>
        /\ \E q \in Calls : call' = [call EXCEPT ![r] = q]
    BY <1>1 DEF Send, Step
  <2>2. Others(r) /\ GoesOn(r)
    BY <1>0, <2>1 DEF Others, GoesOn
  <2>. QED
    BY <2>1, <2>2, QuietMoveTellsAll
<1>2. ASSUME NEW r \in Request,
             Forbid(r) \/ ListIssues(r) \/ GetIssue(r) \/ UpdateRaises(r) \/ Finish(r)
      PROVE  TellStep
  <2>1. PICK a : answer' = [answer EXCEPT ![r] = a]
    BY <1>2 DEF Forbid, ListIssues, GetIssue, UpdateRaises, Finish, Respond
  <2>2. /\ pc' = [pc EXCEPT ![r] = "answered"] /\ pc[r] \in {"sent", "loaded", "told"}
        /\ UNCHANGED <<rows, born, copy, call, commits>>
    BY <1>2 DEF Forbid, ListIssues, GetIssue, UpdateRaises, Finish, Respond, Step
  <2>3. Others(r) /\ GoesOn(r)
    BY <1>0, <2>1, <2>2 DEF Others, GoesOn
  <2>. QED
    BY <2>2, <2>3, QuietMoveTellsAll
<1>3. ASSUME NEW r \in Request, LoadIssue(r) PROVE TellStep
  <2>1. /\ pc[r] = "sent" /\ UNCHANGED <<rows, born, call, commits>>
        /\ \E to \in {"loaded", "answered"} : pc' = [pc EXCEPT ![r] = to]
        /\ UNCHANGED copy \/ copy' = [copy EXCEPT ![r] = rows[call[r].id]]
        /\ UNCHANGED answer \/ answer' = [answer EXCEPT ![r] = [code |-> 404, shown |-> {}]]
    BY <1>3 DEF LoadIssue, Respond, Step
  <2>2. Others(r) /\ GoesOn(r)
    BY <1>0, <2>1 DEF Others, GoesOn
  <2>. QED
    BY <2>1, <2>2, QuietMoveTellsAll
<1>4. ASSUME NEW r \in Request, CreateIssue(r) PROVE TellStep
  <2>1. PICK i \in IssueId : CreateRow(r, i)
    BY <1>4 DEF CreateIssue
  <2>2. /\ pc[r] = "sent" /\ pc' = [pc EXCEPT ![r] = "committed"]
        /\ UNCHANGED <<call, answer>>
    BY <1>4 DEF CreateIssue, Step
  <2>3. pc'[r] = "committed" /\ Others(r) /\ copy'[r].id = i
    BY <1>0, <2>1, <2>2, CreateRowKeeps DEF Others
  <2>4. GoesOn(r)
    BY <2>2 DEF GoesOn
  <2>. DEFINE row == [id |-> i, tenant |-> call[r].tenant, data |-> call[r].body]
  <2>5. /\ DOMAIN rows' = DOMAIN rows \cup {i} /\ \A j \in DOMAIN rows : j # i => rows'[j] = rows[j]
        /\ DOMAIN born' = DOMAIN born \cup {i}
        /\ Logged(r, i, row)
    BY <2>1 DEF CreateRow, Stored
  <2>6. row \in Row
    <3>1. call[r] \in Calls /\ call[r].op = "create" /\ call[r].tenant \in Tenant
      BY <2>1, <2>2, CallTypes DEF IssuesInv, RequestInv, CreateRow, Asks
    <3>. QED
      BY <3>1, CallTypes DEF Row
  <2>7. \A j \in DOMAIN commits' :
          \/ j \in DOMAIN commits /\ commits'[j] = commits[j]
          \/ commits'[j].by = r /\ commits'[j].id = i
    <3>1. PICK w \in Row \cup {None} : w = row
      BY <2>6
    <3>2. Logged(r, i, w)
      BY <2>5, <3>1
    <3>. HIDE DEF row
    <3>. QED
      BY <3>2, LoggedIsCommit
  <2>8. \A j \in DOMAIN rows' : RowFrom(j)
    BY <2>3, <2>5, <2>7 DEF RowFrom
  <2>9. \A j \in DOMAIN commits' : CommitFrom(j)
    BY <2>3, <2>5, <2>7 DEF CommitFrom
  <2>10. \A j \in DOMAIN born' \ DOMAIN rows' : GoneFrom(j)
    BY <2>5 DEF GoneFrom
  <2>. QED
    BY <2>3, <2>4, <2>8, <2>9, <2>10, OthersGoOn DEF TellStep
<1>5. ASSUME NEW r \in Request, UpdateIssue(r) PROVE TellStep
  <2>1. /\ pc[r] = "loaded" /\ pc' = [pc EXCEPT ![r] = "committed"] /\ UpdateRow(r)
        /\ call[r].op = "update" /\ UNCHANGED <<born, call, copy, answer>>
    BY <1>5 DEF UpdateIssue, UpdateRow, Asks, Step
  <2>2. pc'[r] = "committed" /\ Others(r) /\ GoesOn(r)
    BY <1>0, <2>1 DEF Others, GoesOn
  <2>3. /\ DOMAIN rows' = DOMAIN rows /\ rows' \in Table
        /\ \A i \in DOMAIN rows : i # copy[r].id => rows'[i] = rows[i]
    BY <2>1, UpdateRowKeeps DEF TablesKept
  <2>4. \A j \in DOMAIN commits' :
          \/ j \in DOMAIN commits /\ commits'[j] = commits[j]
          \/ commits'[j].by = r /\ commits'[j].id = copy[r].id
    <3>1. CASE copy[r].id \in DOMAIN rows
      <4>1. PICK w : w = rows'[copy[r].id]
        OBVIOUS
      <4>2. w \in Row /\ Logged(r, copy[r].id, w) /\ copy[r].id \in IssueId
        BY <2>1, <2>3, <3>1, <4>1, Held, TableDomain DEF UpdateRow
      <4>3. PICK i \in IssueId : i = copy[r].id
        BY <4>2
      <4>. QED
        BY <4>2, <4>3, LoggedIsCommit
    <3>2. CASE copy[r].id \notin DOMAIN rows
      BY <2>1, <3>2 DEF UpdateRow
    <3>. QED
      BY <3>1, <3>2
  <2>5. \A i \in DOMAIN rows' : RowFrom(i)
    BY <2>1, <2>2, <2>3, <2>4 DEF RowFrom
  <2>6. \A j \in DOMAIN commits' : CommitFrom(j)
    BY <2>1, <2>4, Held DEF CommitFrom
  <2>7. \A i \in DOMAIN born' \ DOMAIN rows' : GoneFrom(i)
    BY <2>1, <2>3 DEF GoneFrom
  <2>. QED
    BY <2>2, <2>5, <2>6, <2>7, OthersGoOn DEF TellStep
<1>6. ASSUME NEW r \in Request, DeleteIssue(r) PROVE TellStep
  <2>1. /\ pc[r] = "loaded" /\ pc' = [pc EXCEPT ![r] = "refreshed"] /\ DeleteRow(r)
        /\ call[r].op = "delete" /\ UNCHANGED <<born, call, copy, answer>>
    BY <1>6 DEF DeleteIssue, DeleteRow, Asks, Step
  <2>2. pc'[r] = "refreshed" /\ Others(r) /\ GoesOn(r)
    BY <1>0, <2>1 DEF Others, GoesOn
  <2>3. DOMAIN rows' = DOMAIN rows \ {copy[r].id} /\ \A i \in DOMAIN rows' : rows'[i] = rows[i]
    BY <2>1, DeleteRowKeeps
  <2>4. \A j \in DOMAIN commits' :
          \/ j \in DOMAIN commits /\ commits'[j] = commits[j]
          \/ commits'[j].by = r /\ commits'[j].id = copy[r].id
    <3>1. PICK i \in IssueId : i = copy[r].id
      BY <2>1, Held
    <3>2. Logged(r, i, None)
      BY <2>1, <3>1 DEF DeleteRow
    <3>. QED
      BY <3>1, <3>2, LoggedIsCommit
  <2>5. \A i \in DOMAIN rows' : RowFrom(i)
    BY <2>3, <2>4 DEF RowFrom
  <2>6. \A j \in DOMAIN commits' : CommitFrom(j)
    BY <2>1, <2>4, Held DEF CommitFrom
  <2>7. \A i \in DOMAIN born' \ DOMAIN rows' : GoneFrom(i)
    BY <2>1, <2>2, <2>3 DEF GoneFrom
  <2>. QED
    BY <2>2, <2>5, <2>6, <2>7, OthersGoOn DEF TellStep
<1>7. ASSUME NEW r \in Request, RefreshIssue(r) PROVE TellStep
  <2>1. pc[r] = "committed" /\ UNCHANGED <<rows, born, call, commits>>
    BY <1>7 DEF RefreshIssue
  <2>2. CASE copy[r].id \in DOMAIN rows
    <3>1. /\ pc' = [pc EXCEPT ![r] = "refreshed"] /\ UNCHANGED answer
          /\ copy' = [copy EXCEPT ![r] = rows[copy[r].id]]
      BY <1>7, <2>2 DEF RefreshIssue, Step
    <3>2. Others(r) /\ GoesOn(r)
      BY <1>0, <2>1, <2>2, <3>1 DEF Others, GoesOn
    <3>. QED
      BY <2>1, <3>2, QuietMoveTellsAll
  <2>3. CASE copy[r].id \notin DOMAIN rows
    <3>1. /\ pc' = [pc EXCEPT ![r] = "answered"] /\ UNCHANGED copy
          /\ answer' = [answer EXCEPT ![r] = [code |-> 500, shown |-> {}]]
      BY <1>7, <2>3 DEF RefreshIssue, Respond, Step
    <3>2. Others(r) /\ GoesOn(r)
      BY <1>0, <2>1, <2>3, <3>1 DEF Others, GoesOn
    <3>. QED
      BY <2>1, <3>2, QuietMoveTellsAll
  <2>. QED
    BY <2>2, <2>3
<1>8. ASSUME NEW r \in Request, PublishEvent(r) PROVE TellStep
  <2>1. /\ pc[r] = "refreshed" /\ pc' = [pc EXCEPT ![r] = "told"]
        /\ events' = Append(events, EventOf(r))
        /\ UNCHANGED <<rows, born, call, copy, answer, commits>>
    BY <1>8 DEF PublishEvent, Step
  <2>2. \E k \in DOMAIN events' : events'[k] = EventOf(r)
    <3>1. PICK e \in Event : e = EventOf(r)
      BY <2>1, EventIsOwn
    <3>2. /\ events' \in Seq(Event) /\ Len(events') = Len(events) + 1
          /\ events'[Len(events) + 1] = e
      BY <1>0, <2>1, <3>1, AppendProperties
    <3>3. Len(events) + 1 \in DOMAIN events'
      BY <1>0, <3>2, LenProperties
    <3>. QED
      BY <3>1, <3>2, <3>3
  <2>3. Others(r) /\ GoesOn(r)
    BY <1>0, <2>1, <2>2 DEF Others, GoesOn
  <2>. QED
    BY <2>1, <2>3, QuietMoveTellsAll
<1>9. ~ Crash /\ \A r \in Request : ~ PublishFails(r) /\ ~ DatabaseFails(r)
  BY <1>0 DEF Crash, PublishFails, DatabaseFails
<1>10. faults = 0
  BY <1>9 DEF IssuesNext, Send, Forbid, ListIssues, GetIssue, CreateIssue, LoadIssue, UpdateIssue,
     UpdateRaises, DeleteIssue, RefreshIssue, PublishEvent, Finish
<1>. QED
  BY <1>1, <1>2, <1>3, <1>4, <1>5, <1>6, <1>7, <1>8, <1>9, <1>10 DEF IssuesNext
-----------------------------------------------------------------------------
(* So that nothing goes untold. *)

EventsKept == \A k \in DOMAIN events : k \in DOMAIN events' /\ events'[k] = events[k]

LEMMA EventsAreKept ==
  ASSUME IssuesInv, EventsGrow
  PROVE  EventsKept
<1>1. events \in Seq(Event) /\ DOMAIN events = 1 .. Len(events)
  BY Histories, LenProperties
<1>2. ASSUME NEW r \in Request, pc[r] = "refreshed", events' = Append(events, EventOf(r))
      PROVE  EventsKept
  <2>1. PICK e \in Event : e = EventOf(r)
    BY <1>2, EventIsOwn
  <2>2. /\ events' \in Seq(Event) /\ Len(events') = Len(events) + 1
        /\ \A k \in 1 .. Len(events) : events'[k] = events[k]
    BY <1>1, <1>2, <2>1, AppendProperties
  <2>3. DOMAIN events' = 1 .. Len(events) + 1 /\ Len(events) \in Nat
    BY <1>1, <2>2, LenProperties
  <2>. QED
    BY <1>1, <2>2, <2>3 DEF EventsKept
<1>. QED
  BY <1>2 DEF EventsGrow, EventsKept

(* What was announced stays so, and what a handler held, it holds or has   *)
(* published. *)
LEMMA StillTold ==
  ASSUME IssuesInv, CallsStay, EventsKept, TellStep, NEW i
  PROVE  /\ \A name : Announced(name, i) => Announced(name, i)'
         /\ GoneIsTold(i) => GoneIsTold(i)'
         /\ \A r \in Request :
              CreationIsTold(r, i) /\ call[r].op = "create" /\ i \in DOMAIN rows =>
                CreationIsTold(r, i)'
<1>1. \A name : Announced(name, i) => Announced(name, i)'
  BY DEF Announced, EventsKept
<1>2. ASSUME NEW q \in Request, pc[q] = "refreshed", copy[q].id = i,
             pc'[q] # "refreshed" \/ copy'[q] # copy[q],
             NEW name, name = EventName[call[q].op]
      PROVE  Announced(name, i)'
  <2>1. PICK k \in DOMAIN events' : events'[k] = EventOf(q)
    BY <1>2 DEF TellStep, GoesOn
  <2>. QED
    BY <1>2, <2>1 DEF Announced, EventOf
<1>3. ASSUME GoneIsTold(i) PROVE GoneIsTold(i)'
  <2>1. CASE Announced("issue.deleted", i)
    BY <1>1, <2>1 DEF GoneIsTold
  <2>2. ASSUME NEW d \in Request, pc[d] = "refreshed", call[d].op = "delete", copy[d].id = i
        PROVE  GoneIsTold(i)'
    <3>1. CASE pc'[d] = "refreshed" /\ copy'[d] = copy[d]
      BY <2>2, <3>1 DEF GoneIsTold, CallsStay
    <3>2. CASE pc'[d] # "refreshed" \/ copy'[d] # copy[d]
      <4>1. Announced("issue.deleted", i)'
        BY <1>2, <2>2, <3>2 DEF EventName
      <4>. QED
        BY <4>1 DEF GoneIsTold
    <3>. QED
      BY <3>1, <3>2
  <2>. QED
    BY <1>3, <2>1, <2>2 DEF GoneIsTold
<1>4. ASSUME NEW r \in Request, CreationIsTold(r, i), call[r].op = "create", i \in DOMAIN rows
      PROVE  CreationIsTold(r, i)'
  <2>1. CASE Announced("issue.created", i)
    BY <1>1, <2>1 DEF CreationIsTold
  <2>2. CASE pc[r] = "committed" /\ copy[r].id = i
    <3>1. rows[i].id = i
      BY <1>4 DEF IssuesInv, RowsKeepTenant
    <3>. QED
      BY <1>4, <2>2, <3>1 DEF TellStep, GoesOn, CreationIsTold
  <2>3. CASE pc[r] = "refreshed" /\ copy[r].id = i
    <3>1. CASE pc'[r] = "refreshed" /\ copy'[r] = copy[r]
      BY <2>3, <3>1 DEF CreationIsTold
    <3>2. CASE pc'[r] # "refreshed" \/ copy'[r] # copy[r]
      <4>1. Announced("issue.created", i)'
        BY <1>2, <1>4, <2>3, <3>2 DEF EventName
      <4>. QED
        BY <4>1 DEF CreationIsTold
    <3>. QED
      BY <3>1, <3>2
  <2>. QED
    BY <1>4, <2>1, <2>2, <2>3 DEF CreationIsTold
<1>. QED
  BY <1>1, <1>3, <1>4

LEMMA RowStillTold ==
  ASSUME IssuesInv, LaterInv, EventsKept, TellStep, NEW i \in DOMAIN rows, i \in DOMAIN rows',
         rows'[i] = rows[i], RowIsTold(i)
  PROVE  RowIsTold(i)'
<1>0. rows[i].id = i
  BY DEF IssuesInv, RowsKeepTenant
<1>1. ASSUME NEW q \in Request, pc[q] = "committed", copy[q].id = i PROVE RowIsTold(i)'
  BY <1>1 DEF TellStep, GoesOn, RowIsTold
<1>2. ASSUME NEW q \in Request, pc[q] = "refreshed", copy[q] = rows[i] PROVE RowIsTold(i)'
  <2>1. call[q].op # "delete"
    BY <1>0, <1>2 DEF LaterInv, IssuesInv, RequestInv, HoldsOwn
  <2>2. CASE pc'[q] = "refreshed" /\ copy'[q] = copy[q]
    BY <1>2, <2>2 DEF RowIsTold
  <2>3. CASE \E k \in DOMAIN events' : events'[k] = EventOf(q)
    BY <1>0, <1>2, <2>1, <2>3 DEF RowIsTold, EventOf
  <2>. QED
    BY <1>2, <2>2, <2>3 DEF TellStep, GoesOn
<1>3. ASSUME NEW k \in DOMAIN events, events[k].id = i,
             events[k].data = Restrict(rows[i].data, Told)
      PROVE  RowIsTold(i)'
  BY <1>3 DEF RowIsTold, EventsKept
<1>. QED
  BY <1>1, <1>2, <1>3 DEF RowIsTold

LEMMA DeletedStayGone ==
  ASSUME IssuesInv, LaterInv, DeletedAreGone, ToldStep
  PROVE  DeletedAreGone'
<1>1. ASSUME NEW k \in DOMAIN events, events[k].event = "issue.deleted"
      PROVE  events[k].id \notin DOMAIN rows'
  <2>1. events[k].id \in DOMAIN born /\ events[k].id \notin DOMAIN rows
    BY <1>1 DEF IssuesInv, EventsAreOwn, Own, DeletedAreGone
  <2>. QED
    BY <2>1 DEF ToldStep, NoneReborn
<1>2. ASSUME NEW r \in Request, pc[r] = "refreshed", events' = Append(events, EventOf(r))
      PROVE  DeletedAreGone'
  <2>1. PICK e \in Event : e = EventOf(r)
    BY <1>2, EventIsOwn
  <2>2. events \in Seq(Event)
    BY Histories
  <2>3. \A k \in DOMAIN events' :
          (k \in DOMAIN events /\ events'[k] = events[k]) \/ events'[k] = e
    BY <1>2, <2>1, <2>2, AppendProperties
  <2>4. e.event = "issue.deleted" => e.id \notin DOMAIN rows'
    <3>1. HoldsOwn(r)
      BY <1>2 DEF IssuesInv, RequestInv
    <3>2. e.event = "issue.deleted" => call[r].op = "delete"
      BY <2>1, <3>1 DEF EventOf, EventName, HoldsOwn
    <3>3. e.id = copy[r].id
      BY <2>1 DEF EventOf
    <3>. QED
      BY <1>2, <3>1, <3>2, <3>3 DEF LaterInv, HoldsOwn, ToldStep, NoneReborn
  <2>. QED
    BY <1>1, <2>3, <2>4 DEF DeletedAreGone
<1>3. CASE UNCHANGED events
  BY <1>1, <1>3 DEF DeletedAreGone
<1>. QED
  BY <1>2, <1>3 DEF ToldStep, EventsGrow

LEMMA UntoldInvKept ==
  ASSUME IssuesInv, IssuesInv', ToldInv, LaterInv, UntoldInv, IssuesNext
  PROVE  UntoldInv'
<1>0. /\ ToldStep /\ CallsStay /\ EventsKept /\ BornKept
      /\ commits \in Seq(CommitRecord) /\ commits' \in Seq(CommitRecord)
  BY NextTells, EventsAreKept, BornIsKept DEF ToldStep, IssuesInv, IssuesTypeOK, CommitRecord
<1>1. DeletedAreGone'
  BY <1>0, DeletedStayGone DEF UntoldInv
<1>2. ASSUME faults' = 0
      PROVE  /\ \A i \in DOMAIN born' \ DOMAIN rows' : GoneIsTold(i)'
             /\ \A j \in DOMAIN commits' : commits'[j].id \in DOMAIN born'
             /\ \A j \in DOMAIN commits' : commits'[j].id \in DOMAIN rows' =>
                  /\ RowIsTold(commits[j].id)'
                  /\ call'[commits'[j].by].op = "create" =>
                       CreationIsTold(commits[j].by, commits[j].id)'
  <2>1. TellStep /\ faults = 0
    BY <1>2, NextTellsAll
  <2>2. ASSUME NEW i \in DOMAIN born' \ DOMAIN rows' PROVE GoneIsTold(i)'
    <3>1. CASE i \in DOMAIN born \ DOMAIN rows
      BY <1>0, <2>1, <3>1, StillTold DEF UntoldInv
    <3>2. CASE \E d \in Request : /\ pc'[d] = "refreshed" /\ call'[d].op = "delete"
                                  /\ copy'[d].id = i
      BY <3>2 DEF GoneIsTold
    <3>. QED
      BY <2>1, <3>1, <3>2 DEF TellStep, GoneFrom
  <2>3. ASSUME NEW j \in DOMAIN commits', NEW i, NEW r, i = commits'[j].id, r = commits'[j].by,
               i \in DOMAIN rows'
        PROVE  RowIsTold(i)' /\ (call'[r].op = "create" => CreationIsTold(r, i)')
    <3>1. r \in Request
      <4>1. commits'[j] \in CommitRecord
        BY <1>0
      <4>. QED
        BY <2>3, <4>1 DEF CommitRecord
    <3>2. RowIsTold(i)'
      <4>1. CASE /\ i \in DOMAIN rows /\ rows'[i] = rows[i]
                 /\ \A m \in DOMAIN commits' : commits'[m].id = i => m \in DOMAIN commits
        <5>1. j \in DOMAIN commits /\ commits[j].id = i
          BY <1>0, <2>3, <4>1, CommitsKept DEF ToldStep
        <5>2. RowIsTold(i)
          BY <2>1, <4>1, <5>1 DEF UntoldInv
        <5>. QED
          BY <1>0, <2>1, <2>3, <4>1, <5>2, RowStillTold
      <4>2. CASE \E q \in Request : pc'[q] = "committed" /\ copy'[q].id = i
        BY <4>2 DEF RowIsTold
      <4>. QED
        BY <2>1, <2>3, <4>1, <4>2 DEF TellStep, RowFrom
    <3>3. ASSUME call'[r].op = "create" PROVE CreationIsTold(r, i)'
      <4>1. CASE j \in DOMAIN commits /\ commits'[j] = commits[j]
        <5>1. pc[r] # "new" /\ call'[r] = call[r]
          BY <1>0, <2>3, <3>1, <4>1 DEF ToldInv, CommitsAreSent, CallsStay
        <5>2. i \in DOMAIN rows
          BY <1>0, <2>1, <2>3, <4>1 DEF UntoldInv, ToldStep, NoneReborn
        <5>3. CreationIsTold(r, i)
          BY <2>1, <2>3, <3>3, <4>1, <5>1, <5>2 DEF UntoldInv
        <5>. QED
          BY <1>0, <2>1, <3>1, <3>3, <5>1, <5>2, <5>3, StillTold
      <4>2. CASE pc'[r] = "committed" /\ copy'[r].id = i
        BY <4>2 DEF CreationIsTold
      <4>. QED
        BY <2>1, <2>3, <3>3, <4>1, <4>2 DEF TellStep, CommitFrom
    <3>. QED
      BY <3>2, <3>3
  <2>4. ASSUME NEW j \in DOMAIN commits', commits'[j].id \in DOMAIN rows'
        PROVE  /\ RowIsTold(commits[j].id)'
               /\ call'[commits'[j].by].op = "create" =>
                    CreationIsTold(commits[j].by, commits[j].id)'
    <3>1. PICK i, r : i = commits'[j].id /\ r = commits'[j].by
      OBVIOUS
    <3>2. RowIsTold(i)' /\ (call'[r].op = "create" => CreationIsTold(r, i)')
      BY <2>3, <2>4, <3>1
    <3>. QED
      BY <3>1, <3>2 DEF RowIsTold, CreationIsTold, Announced
  <2>5. ASSUME NEW j \in DOMAIN commits' PROVE commits'[j].id \in DOMAIN born'
    BY <1>0, <2>1 DEF TellStep, CommitFrom, UntoldInv, BornKept
  <2>. QED
    BY <2>2, <2>4, <2>5
<1>. QED
  BY <1>1, <1>2 DEF UntoldInv

LEMMA UntoldInvInit ==
  ASSUME IssuesInit
  PROVE  UntoldInv
BY DEF IssuesInit, UntoldInv, DeletedAreGone

LEMMA UntoldInvStutters ==
  ASSUME UntoldInv, UNCHANGED issuesVars
  PROVE  UntoldInv'
BY DEF issuesVars, UntoldInv, DeletedAreGone, GoneIsTold, Announced, RowIsTold, CreationIsTold

(* While nothing has failed, what the events of issues-service do not tell *)
(* is always in the hands of a handler that will publish it.               *)
THEOREM UntoldInvariant == IssuesSpec => []UntoldInv
<1>1. IssuesInit => UntoldInv
  BY UntoldInvInit
<1>2. ASSUME IssuesInv, IssuesInv', ToldInv, LaterInv, UntoldInv, [IssuesNext]_issuesVars
      PROVE  UntoldInv'
  BY <1>2, UntoldInvKept, UntoldInvStutters
<1>. QED
  BY <1>1, <1>2, ToldInvariant, LaterInvariant, PTL DEF IssuesSpec

(* When nothing failed and every request is answered, the events tell a    *)
(* consumer that reads them as a set exactly which issues there are, and   *)
(* for each issue that was committed to, its columns as they are: although *)
(* each handler publishes on its own, after its commit, and two handlers   *)
(* may publish in the order opposite to their commits.                     *)
THEOREM NothingGoesUntold == IssuesSpec => []NoChangeGoesUntold
<1>1. ASSUME IssuesInv, UntoldInv, faults = 0,
             \A r \in Request : pc[r] \in {"new", "answered"}
      PROVE  /\ DOMAIN rows =
                  ((DOMAIN born \ Created) \cup ToldAs("issue.created")) \ ToldAs("issue.deleted")
             /\ \A j \in DOMAIN commits :
                  LET i == commits[j].id
                  IN  i \in DOMAIN rows =>
                        \E k \in DOMAIN events :
                          events[k].id = i /\ events[k].data = Restrict(rows[i].data, Told)
  <2>1. \A i, name : i \in ToldAs(name) <=> Announced(name, i)
    BY DEF ToldAs, Announced
  <2>2. ASSUME NEW i \in DOMAIN rows
        PROVE  i \in ((DOMAIN born \ Created) \cup ToldAs("issue.created"))
                      \ ToldAs("issue.deleted")
    <3>1. i \in DOMAIN born
      BY <1>1, Histories
    <3>2. ~ Announced("issue.deleted", i)
      BY <1>1 DEF UntoldInv, DeletedAreGone, Announced
    <3>3. ASSUME i \in Created PROVE Announced("issue.created", i)
      <4>1. PICK j \in DOMAIN commits : commits[j].id = i /\ call[commits[j].by].op = "create"
        BY <3>3 DEF Created
      <4>2. commits[j].by \in Request
        <5>1. commits[j] \in CommitRecord
          BY <1>1, Histories
        <5>. QED
          BY <5>1 DEF CommitRecord
      <4>. QED
        BY <1>1, <4>1, <4>2 DEF UntoldInv, CreationIsTold
    <3>. QED
      BY <2>1, <3>1, <3>2, <3>3
  <2>3. ASSUME NEW i, i \in (DOMAIN born \ Created) \cup ToldAs("issue.created"),
               i \notin ToldAs("issue.deleted"), i \notin DOMAIN rows
        PROVE  FALSE
    <3>1. i \in DOMAIN born
      BY <1>1, <2>3 DEF ToldAs, IssuesInv, EventsAreOwn, Own
    <3>2. GoneIsTold(i)
      BY <1>1, <2>3, <3>1 DEF UntoldInv
    <3>. QED
      BY <1>1, <2>1, <2>3, <3>2 DEF GoneIsTold
  <2>4. \A j \in DOMAIN commits : commits[j].id \in DOMAIN rows => RowIsTold(commits[j].id)
    BY <1>1 DEF UntoldInv
  <2>5. \A i : RowIsTold(i) =>
          \E k \in DOMAIN events :
            events[k].id = i /\ events[k].data = Restrict(rows[i].data, Told)
    BY <1>1 DEF RowIsTold
  <2>. QED
    BY <2>2, <2>3, <2>4, <2>5
<1>2. IssuesInv /\ UntoldInv => NoChangeGoesUntold
  BY <1>1 DEF NoChangeGoesUntold
<1>. QED
  BY <1>2, UntoldInvariant, IssuesInvariant, PTL

-----------------------------------------------------------------------------
(***************************************************************************)
(* The audit trail is true from end to end: module System implements       *)
(* module Journal.                                                         *)
(***************************************************************************)

(* The queue and the table of audit-service hold nothing but messages that *)
(* issues-service has sent.  (Module Audit is an instance here, with the   *)
(* names of its variables changed.)                                        *)
Sent == {Envelope(events[k]) : k \in DOMAIN events}

QueueInv ==
  /\ queue \in Seq(Sent)
  /\ log \in Seq(Sent)
  /\ buffer \in [Replica -> Seq(1 .. Len(queue))]
  /\ hand \in [Replica -> {"idle", "handling", "returned", "raised"}]
  /\ \A c \in Replica : hand[c] # "idle" => buffer[c] # <<>>

(* The table grows by a message that has no row yet, or not at all. *)
LogGrows ==
  \/ UNCHANGED log
  \/ \E m \in Sent : ~ A!HasRow(m.id) /\ log' = Append(log, m)

LEMMA QueueInvInit ==
  ASSUME SystemInit
  PROVE  QueueInv
<1>1. /\ queue = <<>> /\ log = <<>> /\ buffer = [c \in Replica |-> <<>>]
      /\ hand = [c \in Replica |-> "idle"]
  BY DEF SystemInit, A!AuditInit, A!ConsumerInit
<1>2. \A S : <<>> \in Seq(S)
  BY EmptySeq
<1>. QED
  BY <1>1, <1>2 DEF QueueInv

LEMMA SentGrows ==
  ASSUME IssuesInv, EventsGrow
  PROVE  Sent \subseteq Sent'
<1>1. CASE UNCHANGED events
  BY <1>1 DEF Sent, Envelope
<1>2. ASSUME NEW r \in Request, pc[r] = "refreshed", events' = Append(events, EventOf(r))
      PROVE  Sent \subseteq Sent'
  <2>1. events \in Seq(Event) /\ EventOf(r) \in Event
    BY <1>2, Histories, EventIsOwn
  <2>2. /\ events' \in Seq(Event) /\ Len(events') = Len(events) + 1
        /\ \A k \in 1 .. Len(events) : events'[k] = events[k]
    BY <1>2, <2>1, AppendProperties
  <2>3. /\ Len(events) \in Nat /\ DOMAIN events = 1 .. Len(events)
        /\ DOMAIN events' = 1 .. Len(events) + 1
    BY <2>1, <2>2, LenProperties
  <2>. QED
    BY <2>2, <2>3 DEF Sent, Envelope
<1>. QED
  BY <1>1, <1>2 DEF EventsGrow

(* The invariant when the queue and the table stay. *)
LEMMA ConsumerMoves ==
  ASSUME QueueInv, UNCHANGED <<events, queue, log>>,
         buffer' \in [Replica -> Seq(1 .. Len(queue))],
         hand' \in [Replica -> {"idle", "handling", "returned", "raised"}],
         \A c \in Replica : hand'[c] # "idle" => buffer'[c] # <<>>
  PROVE  QueueInv'
<1>1. Sent' = Sent
  BY DEF Sent
<1>. QED
  BY <1>1 DEF QueueInv

LEMMA RestsWith ==
  ASSUME QueueInv, NEW c \in Replica, NEW b \in Seq(1 .. Len(queue)),
         UNCHANGED <<events, queue, log>>,
         buffer' = [buffer EXCEPT ![c] = b], hand' = [hand EXCEPT ![c] = "idle"]
  PROVE  QueueInv'
<1>1. buffer' \in [Replica -> Seq(1 .. Len(queue))]
  BY DEF QueueInv
<1>2. hand' \in [Replica -> {"idle", "handling", "returned", "raised"}]
  BY DEF QueueInv
<1>3. \A d \in Replica : hand'[d] # "idle" => buffer'[d] # <<>>
  BY DEF QueueInv
<1>. QED
  BY <1>1, <1>2, <1>3, ConsumerMoves

LEMMA ThreadKeeps ==
  ASSUME QueueInv, NEW c \in Replica, A!ThreadStep(c), UNCHANGED <<issuesVars, log>>
  PROVE  QueueInv'
<1>0. UNCHANGED events
  BY DEF issuesVars
<1>1. CASE A!Deliver(c)
  <2>1. PICK k \in 1 .. Len(queue) : buffer' = [buffer EXCEPT ![c] = Append(@, k)]
    BY <1>1 DEF A!Deliver, A!Position
  <2>2. UNCHANGED <<queue, hand>>
    BY <1>1 DEF A!Deliver
  <2>3. buffer[c] \in Seq(1 .. Len(queue))
    BY DEF QueueInv
  <2>4. Append(buffer[c], k) \in Seq(1 .. Len(queue)) /\ Append(buffer[c], k) # <<>>
    BY <2>3, AppendProperties
  <2>5. /\ buffer' \in [Replica -> Seq(1 .. Len(queue))]
        /\ \A d \in Replica : buffer[d] # <<>> => buffer'[d] # <<>>
    BY <2>1, <2>4 DEF QueueInv
  <2>. QED
    BY <1>0, <2>2, <2>5, ConsumerMoves DEF QueueInv
<1>2. CASE A!Connect(c)
  BY <1>0, <1>2, ConsumerMoves DEF A!Connect, QueueInv
<1>3. CASE A!Take(c)
  <2>1. buffer[c] # <<>> /\ hand' = [hand EXCEPT ![c] = "handling"] /\ UNCHANGED <<queue, buffer>>
    BY <1>3 DEF A!Take
  <2>2. hand' \in [Replica -> {"idle", "handling", "returned", "raised"}]
    BY <2>1 DEF QueueInv
  <2>3. \A d \in Replica : hand'[d] # "idle" => buffer'[d] # <<>>
    BY <2>1 DEF QueueInv
  <2>. QED
    BY <1>0, <2>1, <2>2, <2>3, ConsumerMoves DEF QueueInv
<1>4. CASE A!Ack(c) \/ A!Nack(c) \/ A!SettleUnheard(c)
  <2>1. /\ hand[c] # "idle" /\ UNCHANGED queue
        /\ buffer' = [buffer EXCEPT ![c] = Tail(@)] /\ hand' = [hand EXCEPT ![c] = "idle"]
    BY <1>4 DEF A!Ack, A!Nack, A!Settle, A!SettleUnheard
  <2>2. buffer[c] \in Seq(1 .. Len(queue)) /\ buffer[c] # <<>>
    BY <2>1 DEF QueueInv
  <2>3. Tail(buffer[c]) \in Seq(1 .. Len(queue))
    BY <2>2, HeadTailProperties
  <2>4. buffer' = [buffer EXCEPT ![c] = Tail(buffer[c])]
    BY <2>1
  <2>. QED
    BY <1>0, <2>1, <2>3, <2>4, RestsWith
<1>5. CASE A!LinkClosed(c)
  <2>1. /\ UNCHANGED queue /\ buffer' = [buffer EXCEPT ![c] = <<>>]
        /\ hand' = [hand EXCEPT ![c] = "idle"]
    BY <1>5 DEF A!LinkClosed
  <2>2. <<>> \in Seq(1 .. Len(queue))
    BY EmptySeq
  <2>. QED
    BY <1>0, <2>1, <2>2, RestsWith
<1>. QED
  BY <1>1, <1>2, <1>3, <1>4, <1>5 DEF A!ThreadStep

LEMMA FailureKeeps ==
  ASSUME QueueInv, NEW c \in Replica, A!Fault(c) \/ A!Restart(c), UNCHANGED <<issuesVars, log>>
  PROVE  QueueInv'
<1>0. UNCHANGED events
  BY DEF issuesVars
<1>1. CASE A!LinkLost(c) \/ A!ThreadDies(c) \/ A!Restart(c)
  <2>1. UNCHANGED <<queue, buffer, hand>>
    BY <1>1 DEF A!LinkLost, A!ThreadDies, A!Restart
  <2>. QED
    BY <1>0, <2>1, ConsumerMoves DEF QueueInv
<1>2. CASE A!Crash(c)
  <2>1. /\ UNCHANGED queue /\ buffer' = [buffer EXCEPT ![c] = <<>>]
        /\ hand' = [hand EXCEPT ![c] = "idle"]
    BY <1>2 DEF A!Crash
  <2>2. <<>> \in Seq(1 .. Len(queue))
    BY EmptySeq
  <2>. QED
    BY <1>0, <2>1, <2>2, RestsWith
<1>. QED
  BY <1>1, <1>2 DEF A!Fault

(* A handler writes what it has in hand. *)
LEMMA HandlerKeeps ==
  ASSUME QueueInv, NEW c \in Replica, A!Handler(c), UNCHANGED issuesVars
  PROVE  QueueInv' /\ LogGrows
<1>. DEFINE m == queue[Head(buffer[c])]
<1>0. Sent' = Sent
  BY DEF issuesVars, Sent
<1>1. /\ hand[c] = "handling" /\ UNCHANGED <<queue, buffer>>
      /\ hand' = [hand EXCEPT ![c] = "returned"] \/ hand' = [hand EXCEPT ![c] = "raised"]
      /\ UNCHANGED log \/ log' = A!InsertOnConflictDoNothing(m)
  BY DEF A!Handler, A!Skip, A!Persist, A!RejectBody, A!DatabaseFails, A!HandlerEnds, A!InHand
<1>2. m \in Sent
  <2>1. buffer[c] \in Seq(1 .. Len(queue)) /\ buffer[c] # <<>>
    BY <1>1 DEF QueueInv
  <2>2. Head(buffer[c]) \in 1 .. Len(queue)
    BY <2>1, HeadTailProperties
  <2>. QED
    BY <2>2, ElementOfSeq DEF QueueInv
<1>3. LogGrows
  BY <1>1, <1>2 DEF LogGrows, A!InsertOnConflictDoNothing
<1>4. log' \in Seq(Sent)
  <2>1. log \in Seq(Sent)
    BY DEF QueueInv
  <2>2. \A e \in Sent : Append(log, e) \in Seq(Sent)
    BY <2>1, AppendProperties
  <2>. QED
    BY <1>3, <2>1, <2>2 DEF LogGrows
<1>5. hand' \in [Replica -> {"idle", "handling", "returned", "raised"}]
  BY <1>1 DEF QueueInv
<1>6. \A d \in Replica : hand'[d] # "idle" => buffer'[d] # <<>>
  BY <1>1 DEF QueueInv
<1>. QED
  BY <1>0, <1>1, <1>3, <1>4, <1>5, <1>6 DEF QueueInv

(* An event that is published is queued, or gone. *)
LEMMA PublishKeeps ==
  ASSUME IssuesInv, IssuesInv', EventsGrow, QueueInv, IssuesStep
  PROVE  QueueInv' /\ UNCHANGED log
<1>1. Sent \subseteq Sent'
  BY SentGrows
<1>2. queue \in Seq(Sent') /\ log \in Seq(Sent')
  BY <1>1, SeqMonotonic DEF QueueInv
<1>3. CASE UNCHANGED trailVars
  <2>1. UNCHANGED <<queue, log, buffer, hand>>
    BY <1>3 DEF trailVars
  <2>. QED
    BY <1>2, <2>1 DEF QueueInv
<1>4. CASE events' # events /\ A!Publish(Envelope(events'[Len(events')])) /\ UNCHANGED log
  <2>. DEFINE m == Envelope(events'[Len(events')])
  <2>1. m \in Sent'
    <3>1. events' \in Seq(Event) /\ events' # <<>>
      <4>1. events' \in Seq(Event)
        BY DEF IssuesInv, IssuesTypeOK
      <4>2. events \in Seq(Event) /\ \A r \in Request : pc[r] = "refreshed" => EventOf(r) \in Event
        BY Histories, EventIsOwn
      <4>3. events' # <<>>
        BY <1>4, <4>2, AppendProperties DEF EventsGrow
      <4>. QED
        BY <4>1, <4>3
    <3>2. Len(events') \in DOMAIN events'
      BY <3>1, LenProperties, EmptySeq
    <3>. QED
      BY <3>2 DEF Sent
  <2>2. UNCHANGED <<buffer, hand, log>> /\ (queue' = queue \/ queue' = Append(queue, m))
    BY <1>4 DEF A!Publish
  <2>3. /\ queue' \in Seq(Sent') /\ Len(queue) \in Nat /\ Len(queue') \in Nat
        /\ Len(queue) <= Len(queue')
    <3>1. Len(queue) \in Nat
      BY <1>2, LenProperties
    <3>2. CASE queue' = Append(queue, m)
      BY <1>2, <2>1, <3>1, <3>2, AppendProperties
    <3>. QED
      BY <1>2, <2>2, <3>1, <3>2
  <2>4. buffer' \in [Replica -> Seq(1 .. Len(queue'))]
    <3>1. 1 .. Len(queue) \subseteq 1 .. Len(queue')
      BY <2>3
    <3>2. ASSUME NEW c \in Replica PROVE buffer[c] \in Seq(1 .. Len(queue'))
      <4>1. buffer[c] \in Seq(1 .. Len(queue))
        BY DEF QueueInv
      <4>. QED
        BY <3>1, <4>1, SeqMonotonic
    <3>. QED
      BY <2>2, <3>2 DEF QueueInv
  <2>. QED
    BY <1>2, <2>2, <2>3, <2>4 DEF QueueInv
<1>. QED
  BY <1>3, <1>4 DEF IssuesStep

-----------------------------------------------------------------------------
(* The two services of module System are those of modules Issues and       *)
(* Audit, so that what is proved of them alone holds here.                 *)

(* The constants of module System are such as modules Consumer and Audit   *)
(* assume theirs to be.                                                    *)
THEOREM AuditFits == A!ConsumerAssumption /\ A!AuditAssumption
<1>1. Cardinality(Request) \in Nat
  BY SystemAssumption, FS_CardinalityType
<1>2. A!ConsumerAssumption
  BY <1>1, SystemAssumption DEF A!ConsumerAssumption
<1>3. A!AuditAssumption
  BY DEF A!AuditAssumption, Envelope, A!Form
<1>. QED
  BY <1>2, <1>3

SystemInv == ToldInv /\ QueueInv

LEMMA IssuesStepOrNot ==
  ASSUME [SystemNext]_systemVars
  PROVE  [IssuesNext]_issuesVars
BY DEF SystemNext, systemVars, IssuesStep, Requeue, ThreadStep, Handle, ConsumerFails, Restart

(* issues-service does nothing in module System that it does not do in     *)
(* module Issues.                                                          *)
THEOREM SystemRunsIssues == SystemSpec => IssuesSpec
<1>1. SystemInit => IssuesInit
  BY DEF SystemInit
<1>2. [SystemNext]_systemVars => [IssuesNext]_issuesVars
  BY IssuesStepOrNot
<1>. QED
  BY <1>1, <1>2, PTL DEF SystemSpec, IssuesSpec

LEMMA SystemStep ==
  ASSUME IssuesInv, IssuesInv', SystemInv, [SystemNext]_systemVars
  PROVE  SystemInv' /\ LogGrows /\ (UNCHANGED log \/ UNCHANGED issuesVars)
<1>. USE DEF SystemInv
<1>1. ASSUME UNCHANGED issuesVars PROVE ToldInv'
  BY <1>1, ToldInvStutters
<1>2. CASE IssuesStep
  <2>1. ToldStep
    BY <1>2, NextTells DEF IssuesStep
  <2>2. QueueInv' /\ UNCHANGED log
    BY <1>2, <2>1, PublishKeeps DEF ToldStep
  <2>. QED
    BY <2>1, <2>2, ToldInvKept DEF LogGrows
<1>3. CASE \E k \in DOMAIN queue : Requeue(k)
  <2>1. UNCHANGED <<issuesVars, log, queue, buffer, hand>>
    BY <1>3 DEF Requeue, A!Requeue
  <2>2. QueueInv'
    BY <2>1, ConsumerMoves DEF QueueInv, issuesVars
  <2>. QED
    BY <1>1, <2>1, <2>2 DEF LogGrows
<1>4. ASSUME NEW c \in Replica, ThreadStep(c) \/ ConsumerFails(c) \/ Restart(c)
      PROVE  SystemInv' /\ LogGrows /\ UNCHANGED issuesVars
  <2>1. /\ UNCHANGED <<issuesVars, log>>
        /\ A!ThreadStep(c) \/ A!Fault(c) \/ A!Restart(c)
    BY <1>4 DEF ThreadStep, ConsumerFails, Restart
  <2>2. QueueInv'
    BY <2>1, ThreadKeeps, FailureKeeps
  <2>. QED
    BY <1>1, <2>1, <2>2 DEF LogGrows
<1>5. ASSUME NEW c \in Replica, Handle(c) PROVE SystemInv' /\ LogGrows /\ UNCHANGED issuesVars
  <2>1. UNCHANGED issuesVars /\ A!Handler(c)
    BY <1>5 DEF Handle
  <2>. QED
    BY <1>1, <2>1, HandlerKeeps
<1>6. CASE UNCHANGED systemVars
  <2>1. UNCHANGED <<issuesVars, log, queue, buffer, hand>>
    BY <1>6 DEF systemVars, trailVars
  <2>2. QueueInv'
    BY <2>1, ConsumerMoves DEF QueueInv, issuesVars
  <2>. QED
    BY <1>1, <2>1, <2>2 DEF LogGrows
<1>. QED
  BY <1>2, <1>3, <1>4, <1>5, <1>6 DEF SystemNext

(* The queue and the table of audit-service hold only what issues-service  *)
(* has sent, and what is sent was committed, at all times.                 *)
THEOREM SystemInvariant == SystemSpec => [](IssuesInv /\ SystemInv)
<1>1. SystemInit => IssuesInv /\ SystemInv
  BY IssuesInvInit, ToldInvInit, QueueInvInit DEF SystemInit, SystemInv
<1>2. IssuesInv /\ SystemInv /\ [SystemNext]_systemVars => IssuesInv' /\ SystemInv'
  <2>1. IssuesInv /\ [IssuesNext]_issuesVars => IssuesInv'
    BY IssuesInvKept, IssuesInvStutters
  <2>. QED
    BY <2>1, IssuesStepOrNot, SystemStep
<1>. QED
  BY <1>1, <1>2, PTL DEF SystemSpec

(* audit-service does nothing that it does not do in module Audit, and the *)
(* messages published to it there are events of issues-service here.       *)
THEOREM SystemRunsAudit == SystemSpec => A!AuditSpec
<1>1. SystemInit => A!AuditInit
  BY DEF SystemInit
<1>2. IssuesInv /\ IssuesInv' /\ [SystemNext]_systemVars => [A!AuditNext]_(A!auditVars)
  <2>. SUFFICES ASSUME IssuesInv, IssuesInv', [SystemNext]_systemVars
                PROVE  A!AuditNext \/ UNCHANGED trailVars
    BY DEF A!auditVars, trailVars
  <2>1. CASE IssuesStep
    <3>1. CASE events' # events /\ A!Publish(Envelope(events'[Len(events')])) /\ UNCHANGED log
      <4>1. ToldStep /\ events' \in Seq(Event)
        BY <2>1, NextTells DEF IssuesStep, IssuesInv, IssuesTypeOK
      <4>2. events' # <<>>
        <5>1. /\ events \in Seq(Event)
              /\ \A r \in Request : pc[r] = "refreshed" => EventOf(r) \in Event
          BY Histories, EventIsOwn
        <5>. QED
          BY <3>1, <4>1, <5>1, AppendProperties DEF ToldStep, EventsGrow
      <4>3. events'[Len(events')] \in Event
        BY <4>1, <4>2, EmptySeq, ElementOfSeq
      <4>. QED
        BY <3>1, <4>3 DEF A!AuditNext, A!TransportStep
    <3>. QED
      BY <2>1, <3>1 DEF IssuesStep
  <2>2. ASSUME NEW k \in DOMAIN queue, Requeue(k) PROVE A!AuditNext
    BY <2>2 DEF Requeue, A!Requeue, A!AuditNext, A!TransportStep
  <2>3. ASSUME NEW c \in Replica, ThreadStep(c) \/ Handle(c) \/ ConsumerFails(c) \/ Restart(c)
        PROVE  A!AuditNext
    BY <2>3 DEF ThreadStep, Handle, ConsumerFails, Restart, A!AuditNext, A!TransportStep
  <2>. QED
    BY <2>1, <2>2, <2>3 DEF SystemNext, systemVars
<1>. QED
  BY <1>1, <1>2, SystemInvariant, PTL DEF SystemSpec, A!AuditSpec

-----------------------------------------------------------------------------
(* The journal. *)

Recording == [i \in DOMAIN log |-> ChangeOf(log[i].id)]

(* A commit is a change done; nothing else changes what is done. *)
LEMMA CommitIsDone ==
  ASSUME IssuesInv, CommitsAreSent, CommitsGrow, CallsStay
  PROVE  \/ Committed' = Committed
         \/ \E c \in Change : Committed' = Committed \cup {c}
<1>1. ASSUME NEW j \in DOMAIN commits
      PROVE  call'[commits[j].by] = call[commits[j].by]
  <2>1. commits[j] \in CommitRecord
    BY Histories
  <2>2. commits[j].by \in Request
    BY <2>1 DEF CommitRecord
  <2>. QED
    BY <2>2 DEF CommitsAreSent, CallsStay
<1>2. CASE UNCHANGED <<rows, commits>>
  BY <1>1, <1>2 DEF Committed
<1>3. ASSUME NEW r \in Request, NEW i \in IssueId, NEW row \in Row \cup {None},
             Logged(r, i, row), pc[r] \in {"sent", "loaded"},
             call[r].op \in DOMAIN EventName, call[r].tenant \in Tenant
      PROVE  \E c \in Change : Committed' = Committed \cup {c}
  <2>. DEFINE c == [by |-> r, event |-> EventName[call[r].op], id |-> i, tenant |-> call[r].tenant]
  <2>1. /\ \A j \in DOMAIN commits' :
             \/ j \in DOMAIN commits /\ commits'[j] = commits[j]
             \/ commits'[j].by = r /\ commits'[j].id = i
        /\ CommitBy(r, i)'
    BY <1>3, LoggedIsCommit
  <2>2. c \in Change
    BY <1>3 DEF Change, EventName
  <2>3. call'[r] = call[r]
    BY <1>3 DEF CallsStay
  <2>4. ASSUME NEW x \in Committed' PROVE x \in Committed \cup {c}
    <3>1. PICK j \in DOMAIN commits' :
            x = [by |-> commits'[j].by, event |-> EventName[call'[commits'[j].by].op],
                 id |-> commits'[j].id, tenant |-> call'[commits'[j].by].tenant]
      BY DEF Committed
    <3>2. CASE j \in DOMAIN commits /\ commits'[j] = commits[j]
      BY <1>1, <3>1, <3>2 DEF Committed
    <3>3. CASE commits'[j].by = r /\ commits'[j].id = i
      BY <2>3, <3>1, <3>3
    <3>. QED
      BY <2>1, <3>2, <3>3
  <2>5. ASSUME NEW x \in Committed PROVE x \in Committed'
    <3>1. PICK j \in DOMAIN commits :
            x = [by |-> commits[j].by, event |-> EventName[call[commits[j].by].op],
                 id |-> commits[j].id, tenant |-> call[commits[j].by].tenant]
      BY DEF Committed
    <3>2. j \in DOMAIN commits' /\ commits'[j] = commits[j]
      BY CommitsKept
    <3>. QED
      BY <1>1, <3>1, <3>2 DEF Committed
  <2>6. c \in Committed'
    <3>1. PICK j \in DOMAIN commits' : commits'[j].by = r /\ commits'[j].id = i
      BY <2>1 DEF CommitBy
    <3>. QED
      BY <2>3, <3>1 DEF Committed
  <2>7. Committed' = Committed \cup {c}
    BY <2>4, <2>5, <2>6
  <2>. QED
    BY <2>2, <2>7
<1>. QED
  BY <1>2, <1>3 DEF CommitsGrow

(* A message that was sent tells a change that is done, and no two tell    *)
(* the same.                                                               *)
LEMMA SentIsDone ==
  ASSUME IssuesInv, ToldInv, NEW m \in Sent
  PROVE  /\ ChangeOf(m.id) \in Committed
         /\ \A n \in Sent : ChangeOf(n.id) = ChangeOf(m.id) => n.id = m.id
<1>. USE DEF ToldInv
<1>1. PICK k \in DOMAIN events : m = Envelope(events[k])
  BY DEF Sent
<1>2. m.id = events[k]
  BY <1>1 DEF Envelope
<1>3. ChangeOf(events[k]) \in Committed
  <2>1. Tells(events[k]) /\ events[k].tenant = call[events[k].by].tenant
    BY DEF EventsTellCommits, IssuesInv, EventsAreOwn
  <2>2. PICK j \in DOMAIN commits : commits[j].by = events[k].by /\ commits[j].id = events[k].id
    BY <2>1 DEF Tells, HadRow
  <2>. QED
    BY <2>1, <2>2 DEF Tells, ChangeOf, Committed
<1>4. ASSUME NEW n \in Sent, ChangeOf(n.id) = ChangeOf(m.id) PROVE n.id = m.id
  <2>1. PICK l \in DOMAIN events : n = Envelope(events[l])
    BY DEF Sent
  <2>2. n.id = events[l]
    BY <2>1 DEF Envelope
  <2>3. events[l].by = events[k].by
    BY <1>2, <1>4, <2>2 DEF ChangeOf
  <2>. QED
    BY <1>2, <2>2, <2>3 DEF EventsDiffer
<1>. QED
  BY <1>2, <1>3, <1>4

(* A new row is a change recorded. *)
LEMMA RowIsRecorded ==
  ASSUME IssuesInv, ToldInv, log \in Seq(Sent), NEW m \in Sent, ~ A!HasRow(m.id),
         log' = Append(log, m)
  PROVE  /\ ChangeOf(m.id) \in Committed
         /\ ~ J!IsRecorded(ChangeOf(m.id))
         /\ Recording' = Append(Recording, ChangeOf(m.id))
<1>. DEFINE n == Len(log)  c == ChangeOf(m.id)
<1>1. n \in Nat /\ DOMAIN log = 1 .. n /\ \A i \in 1 .. n : log[i] \in Sent
  BY LenProperties, ElementOfSeq
<1>2. /\ DOMAIN log' = 1 .. n + 1 /\ log'[n + 1] = m
      /\ \A i \in 1 .. n : log'[i] = log[i]
  BY AppendProperties, LenProperties
<1>3. Recording \in Seq({ChangeOf(x.id) : x \in Sent}) /\ Len(Recording) = n
  <2>1. Recording \in [1 .. n -> {ChangeOf(x.id) : x \in Sent}]
    BY <1>1 DEF Recording
  <2>2. Recording \in Seq({ChangeOf(x.id) : x \in Sent})
    BY <1>1, <2>1, SeqDef
  <2>. QED
    BY <1>1, <2>1, <2>2, LenProperties
<1>4. /\ DOMAIN Append(Recording, c) = 1 .. n + 1
      /\ \A i \in 1 .. n : Append(Recording, c)[i] = Recording[i]
      /\ Append(Recording, c)[n + 1] = c
      /\ Append(Recording, c) \in [1 .. n + 1 -> {ChangeOf(x.id) : x \in Sent}]
  <2>1. /\ Append(Recording, c) \in Seq({ChangeOf(x.id) : x \in Sent})
        /\ Len(Append(Recording, c)) = n + 1
        /\ \A i \in 1 .. n : Append(Recording, c)[i] = Recording[i]
        /\ Append(Recording, c)[n + 1] = c
    BY <1>3, AppendProperties
  <2>. QED
    BY <2>1, LenProperties
<1>5. Recording' = [i \in 1 .. n + 1 |-> ChangeOf(log'[i].id)]
  BY <1>2 DEF Recording, ChangeOf
<1>6. \A i \in 1 .. n + 1 : ChangeOf(log'[i].id) = Append(Recording, c)[i]
  <2>1. \A i \in 1 .. n : Recording[i] = ChangeOf(log[i].id)
    BY <1>1 DEF Recording
  <2>2. \A i \in 1 .. n + 1 : i \in 1 .. n \/ i = n + 1
    BY <1>1
  <2>. QED
    BY <1>2, <1>4, <2>1, <2>2
<1>7. Recording' = Append(Recording, c)
  BY <1>4, <1>5, <1>6
<1>8. ~ J!IsRecorded(c)
  <2>1. SUFFICES ASSUME NEW i \in 1 .. n, Recording[i] = c PROVE FALSE
    BY <1>3 DEF J!IsRecorded, Recording
  <2>2. log[i] \in Sent /\ ChangeOf(log[i].id) = c
    BY <1>1, <2>1 DEF Recording
  <2>3. log[i].id = m.id
    BY <2>2, SentIsDone
  <2>. QED
    BY <2>3 DEF A!HasRow
<1>. QED
  BY <1>7, <1>8, SentIsDone

(* The audit trail is true from end to end: module System implements       *)
(* module Journal, whatever fails in either service.                       *)
THEOREM SystemKeepsTheJournal == SystemSpec => ImplementsJournal
<1>1. SystemInit => J!JournalInit
  <2>1. ASSUME SystemInit PROVE commits = <<>> /\ log = <<>>
    BY <2>1 DEF SystemInit, IssuesInit, A!AuditInit
  <2>. QED
    BY <2>1 DEF J!JournalInit, Committed
<1>2. ASSUME IssuesInv, IssuesInv', SystemInv, [SystemNext]_systemVars
      PROVE  [J!Do \/ J!Record]_<<Committed, Recording>>
  <2>1. LogGrows /\ (UNCHANGED log \/ UNCHANGED issuesVars)
    BY <1>2, SystemStep
  <2>2. CASE UNCHANGED log
    <3>1. Recording' = Recording
      BY <2>2 DEF Recording, ChangeOf
    <3>2. CommitsGrow /\ CallsStay
      <4>1. CASE UNCHANGED issuesVars
        BY <4>1 DEF issuesVars, CommitsGrow, CallsStay
      <4>2. CASE IssuesNext
        BY <1>2, <4>2, NextTells DEF ToldStep
      <4>. QED
        BY <1>2, <4>1, <4>2, IssuesStepOrNot
    <3>3. Committed' = Committed \/ \E c \in Change : Committed' = Committed \cup {c}
      BY <1>2, <3>2, CommitIsDone DEF SystemInv, ToldInv
    <3>4. Committed' = Committed \/ \E c \in Change \ Committed : Committed' = Committed \cup {c}
      BY <3>3
    <3>. QED
      BY <3>1, <3>4 DEF J!Do, Recording
  <2>3. ASSUME UNCHANGED issuesVars, NEW m \in Sent, ~ A!HasRow(m.id), log' = Append(log, m)
        PROVE  J!Record
    <3>1. /\ ChangeOf(m.id) \in Committed
          /\ ~ J!IsRecorded(ChangeOf(m.id))
          /\ Recording' = Append(Recording, ChangeOf(m.id))
      BY <1>2, <2>3, RowIsRecorded DEF SystemInv, QueueInv
    <3>2. UNCHANGED Committed
      BY <2>3 DEF issuesVars, Committed
    <3>. QED
      BY <3>1, <3>2 DEF J!Record, Recording
  <2>. QED
    BY <2>1, <2>2, <2>3 DEF LogGrows
<1>. QED
  BY <1>1, <1>2, SystemInvariant, PTL DEF SystemSpec, ImplementsJournal, J!JournalSpec, Recording

-----------------------------------------------------------------------------
(***************************************************************************)
(* The audit trail is in the order of each client.                         *)
(***************************************************************************)

(* The order of the trail.  Publishing keeps the order of the events in    *)
(* the queue whatever fails.  One replica that never fails settles the     *)
(* queue from its head on, and writes its rows in the order of the queue.  *)

(* Of two messages, m was sent before n. *)
Precedes(m, n) ==
  \E k, l \in DOMAIN events : k < l /\ m.id = events[k] /\ n.id = events[l]

QueueInOrder == \A j, k \in A!Position : j < k => Precedes(queue[j], queue[k])

LogInOrder == \A i, j \in DOMAIN log : i < j => Precedes(log[i], log[j])

(* What c has done with the message at its head is not heard yet. *)
HandledBy(c, k) ==
  A!Settled(k) \/ (hand[c] \in {"returned", "raised"} /\ k = Head(buffer[c]))

(* The queue is settled, then buffered, then ready, from its head on.      *)
InTurn(c) ==
  /\ \A j, k \in A!Position : j < k /\ place[j] = "ready" => place[k] = "ready"
  /\ \A i \in DOMAIN buffer[c] :
       /\ place[buffer[c][i]] # "ready"
       /\ \A j \in DOMAIN buffer[c] : i < j => buffer[c][i] < buffer[c][j]
       /\ \A k \in A!Position : A!Settled(k) => k < buffer[c][i]

Steady(c) ==
  /\ link[c] \in {"closed", "open"}
  /\ \A k \in A!Position : place[k] # "orphaned"
  /\ InTurn(c)
  /\ \A i \in DOMAIN log : \E k \in A!Position : log[i] = queue[k] /\ HandledBy(c, k)
  /\ LogInOrder

TrailInv ==
  /\ auditFaults \in Nat
  /\ place \in Seq(A!Resting \cup Replica) /\ Len(place) = Len(queue)
  /\ QueueInOrder
  /\ auditFaults = 0 /\ Cardinality(Replica) = 1 => \A c \in Replica : Steady(c)

LEMMA OneReplica ==
  ASSUME Cardinality(Replica) = 1
  PROVE  \E c \in Replica : Replica = {c}
BY SystemAssumption, FS_Singleton

LEMMA Places ==
  ASSUME TrailInv, QueueInv
  PROVE  /\ Len(queue) \in Nat /\ Len(place) = Len(queue)
         /\ DOMAIN place = A!Position /\ A!Position = 1 .. Len(queue)
<1>1. Len(queue) \in Nat
  BY LenProperties DEF QueueInv
<1>2. DOMAIN place = 1 .. Len(place)
  BY LenProperties DEF TrailInv
<1>. QED
  BY <1>1, <1>2 DEF TrailInv, A!Position

(* A step in which the queue and the table stay as they are. *)
LEMMA StaysSteady ==
  ASSUME NEW c \in Replica, Steady(c), EventsKept, UNCHANGED <<queue, log>>,
         link'[c] \in {"closed", "open"},
         \A k \in A!Position : place'[k] # "orphaned",
         InTurn(c)',
         \A k \in A!Position : HandledBy(c, k) => HandledBy(c, k)'
  PROVE  Steady(c)'
<1>1. A!Position' = A!Position
  BY DEF A!Position
<1>2. LogInOrder'
  BY DEF Steady, LogInOrder, Precedes, EventsKept
<1>3. \A i \in DOMAIN log : \E k \in A!Position : log[i] = queue[k] /\ HandledBy(c, k)'
  BY DEF Steady
<1>. QED
  BY <1>1, <1>2, <1>3 DEF Steady

LEMMA DeliverSteady ==
  ASSUME TrailInv, QueueInv, NEW c \in Replica, Steady(c), EventsKept, UNCHANGED log, A!Deliver(c)
  PROVE  Steady(c)'
<1>1. PICK k \in A!Position :
        /\ place[k] = "ready"
        /\ \A j \in 1 .. k - 1 : place[j] # "ready"
        /\ place' = [place EXCEPT ![k] = c]
        /\ buffer' = [buffer EXCEPT ![c] = Append(@, k)]
  BY DEF A!Deliver
<1>2. link' = link /\ UNCHANGED <<queue, hand>>
  BY DEF A!Deliver
<1>. DEFINE b == buffer[c]  n == Len(buffer[c])
<1>3. /\ Len(queue) \in Nat /\ A!Position = 1 .. Len(queue) /\ A!Position' = A!Position
      /\ \A j \in A!Position : place'[j] = IF j = k THEN c ELSE place[j]
  BY <1>1, <1>2, Places DEF A!Position
<1>4. c \notin A!Resting
  BY SystemAssumption
<1>5. b \in Seq(A!Position) /\ buffer'[c] = Append(b, k)
  BY <1>1, <1>3 DEF QueueInv
<1>6. /\ n \in Nat /\ DOMAIN b = 1 .. n /\ DOMAIN buffer'[c] = 1 .. n + 1
      /\ \A i \in 1 .. n : buffer'[c][i] = b[i] /\ b[i] \in A!Position
      /\ buffer'[c][n + 1] = k
  <2>1. /\ Append(b, k) \in Seq(A!Position) /\ Len(Append(b, k)) = n + 1
        /\ \A i \in 1 .. n : Append(b, k)[i] = b[i]
        /\ Append(b, k)[n + 1] = k
    BY <1>5, AppendProperties
  <2>. QED
    BY <1>5, <2>1, LenProperties, ElementOfSeq
<1>. HIDE DEF b, n
<1>7. \A j \in A!Position : A!Settled(j)' <=> A!Settled(j)
  BY <1>1, <1>3, <1>4 DEF A!Settled, A!Resting
<1>8. InTurn(c)'
  <2>1. ASSUME NEW j \in A!Position, NEW l \in A!Position, j < l, place'[j] = "ready"
        PROVE  place'[l] = "ready"
    <3>1. j # k /\ place[j] = "ready"
      BY <1>3, <1>4, <2>1 DEF A!Resting
    <3>2. place[l] = "ready"
      BY <2>1, <3>1 DEF Steady, InTurn
    <3>3. l # k
      BY <1>1, <1>3, <2>1, <3>1
    <3>. QED
      BY <1>3, <3>2, <3>3
  <2>2. ASSUME NEW i \in 1 .. n
        PROVE  /\ place[b[i]] # "ready" /\ b[i] \in A!Position /\ b[i] < k
               /\ \A j \in 1 .. n : i < j => b[i] < b[j]
               /\ \A j \in A!Position : A!Settled(j) => j < b[i]
    <3>1. /\ place[b[i]] # "ready" /\ b[i] \in A!Position
          /\ \A j \in 1 .. n : i < j => b[i] < b[j]
          /\ \A j \in A!Position : A!Settled(j) => j < b[i]
      BY <1>6 DEF Steady, InTurn, b
    <3>2. b[i] < k
      <4>1. ~ (k < b[i])
        BY <1>1, <3>1 DEF Steady, InTurn
      <4>. QED
        BY <1>1, <1>3, <3>1, <4>1
    <3>. QED
      BY <3>1, <3>2
  <2>3. ASSUME NEW j \in A!Position, A!Settled(j) PROVE j < k
    <3>1. place[j] # "ready" /\ j # k
      BY <1>1, <2>3 DEF A!Settled
    <3>2. ~ (k < j)
      BY <1>1, <3>1 DEF Steady, InTurn
    <3>. QED
      BY <1>3, <3>1, <3>2
  <2>4. ASSUME NEW i \in 1 .. n + 1
        PROVE  /\ place'[buffer'[c][i]] # "ready"
               /\ \A j \in 1 .. n + 1 : i < j => buffer'[c][i] < buffer'[c][j]
               /\ \A j \in A!Position : A!Settled(j)' => j < buffer'[c][i]
    <3>1. CASE i \in 1 .. n
      <4>1. buffer'[c][i] = b[i] /\ place'[b[i]] # "ready"
        BY <1>3, <1>4, <1>6, <2>2, <3>1 DEF A!Resting
      <4>2. ASSUME NEW j \in 1 .. n + 1, i < j PROVE b[i] < buffer'[c][j]
        <5>1. j \in 1 .. n \/ j = n + 1
          BY <1>6
        <5>. QED
          BY <1>6, <2>2, <3>1, <4>2, <5>1
      <4>. QED
        BY <1>7, <2>2, <3>1, <4>1, <4>2
    <3>2. CASE i = n + 1
      <4>1. place'[k] # "ready" /\ \A j \in 1 .. n + 1 : ~ (i < j)
        BY <1>3, <1>4, <1>6, <3>2 DEF A!Resting
      <4>. QED
        BY <1>6, <1>7, <2>3, <3>2, <4>1
    <3>. QED
      BY <1>6, <3>1, <3>2
  <2>. QED
    BY <1>3, <1>6, <2>1, <2>4 DEF InTurn
<1>9. ASSUME NEW j \in A!Position, HandledBy(c, j) PROVE HandledBy(c, j)'
  <2>1. CASE A!Settled(j)
    BY <1>7, <2>1 DEF HandledBy
  <2>2. CASE hand[c] \in {"returned", "raised"} /\ j = Head(buffer[c])
    <3>1. b # <<>>
      BY <2>2 DEF QueueInv, b
    <3>2. Head(buffer'[c]) = Head(b)
      BY <1>5, <3>1, AppendProperties
    <3>. QED
      BY <1>2, <2>2, <3>2 DEF HandledBy, b
  <2>. QED
    BY <1>9, <2>1, <2>2 DEF HandledBy
<1>. QED
  BY <1>2, <1>3, <1>4, <1>8, <1>9, StaysSteady DEF Steady, A!Resting

LEMMA SettleSteady ==
  ASSUME TrailInv, QueueInv, NEW c \in Replica, Steady(c), EventsKept, UNCHANGED log,
         A!Ack(c) \/ A!Nack(c)
  PROVE  Steady(c)'
<1>. DEFINE b == buffer[c]  h == Head(buffer[c])
<1>1. /\ hand[c] # "idle" /\ UNCHANGED <<queue, link>>
      /\ buffer' = [buffer EXCEPT ![c] = Tail(b)]
      /\ hand' = [hand EXCEPT ![c] = "idle"]
  BY DEF A!Ack, A!Nack, A!Settle
<1>2. PICK as \in {"acked", "dropped"} : place' = [place EXCEPT ![h] = as]
  BY DEF A!Ack, A!Nack, A!Settle
<1>3. Len(queue) \in Nat /\ A!Position = 1 .. Len(queue) /\ A!Position' = A!Position
  BY <1>1, Places DEF A!Position
<1>4. b \in Seq(A!Position) /\ b # <<>> /\ buffer'[c] = Tail(b) /\ hand'[c] = "idle"
  BY <1>1, <1>3 DEF QueueInv
<1>5. /\ Len(b) \in Nat \ {0} /\ DOMAIN b = 1 .. Len(b) /\ h = b[1] /\ h \in A!Position
      /\ DOMAIN Tail(b) = 1 .. Len(b) - 1
      /\ \A i \in 1 .. Len(b) - 1 : Tail(b)[i] = b[i + 1]
      /\ \A i \in 1 .. Len(b) : b[i] \in A!Position
  <2>1. /\ h \in A!Position /\ h = b[1] /\ Len(Tail(b)) = Len(b) - 1 /\ Tail(b) \in Seq(A!Position)
        /\ \A i \in 1 .. Len(Tail(b)) : Tail(b)[i] = b[i + 1]
    BY <1>4, HeadTailProperties
  <2>2. Len(b) \in Nat \ {0} /\ DOMAIN b = 1 .. Len(b) /\ \A i \in 1 .. Len(b) : b[i] \in A!Position
    BY <1>4, LenProperties, EmptySeq, ElementOfSeq
  <2>3. DOMAIN Tail(b) = 1 .. Len(b) - 1
    BY <2>1, LenProperties
  <2>. QED
    BY <2>1, <2>2, <2>3
<1>6. \A j \in A!Position : place'[j] = IF j = h THEN as ELSE place[j]
  BY <1>2, <1>5, Places
<1>7. /\ \A i \in 1 .. Len(b) :
           /\ place[b[i]] # "ready"
           /\ \A j \in 1 .. Len(b) : i < j => b[i] < b[j]
           /\ \A k \in A!Position : A!Settled(k) => k < b[i]
      /\ \A j, k \in A!Position : j < k /\ place[j] = "ready" => place[k] = "ready"
  BY <1>5 DEF Steady, InTurn
<1>. HIDE DEF b, h
<1>8. place[h] # "ready"
  BY <1>5, <1>7
<1>9. \A j \in A!Position : A!Settled(j)' <=> (A!Settled(j) \/ j = h)
  BY <1>1, <1>2, <1>3, <1>6 DEF A!Settled
<1>10. InTurn(c)'
  <2>1. ASSUME NEW j \in A!Position, NEW k \in A!Position, j < k, place'[j] = "ready"
        PROVE  place'[k] = "ready"
    <3>1. as # "ready"
      BY <1>2
    <3>2. j # h /\ place[j] = "ready"
      BY <1>6, <2>1, <3>1
    <3>3. place[k] = "ready"
      BY <1>7, <2>1, <3>2
    <3>. QED
      BY <1>6, <1>8, <3>3
  <2>2. ASSUME NEW i \in 1 .. Len(b) - 1
        PROVE  /\ place'[Tail(b)[i]] # "ready"
               /\ \A j \in 1 .. Len(b) - 1 : i < j => Tail(b)[i] < Tail(b)[j]
               /\ \A k \in A!Position : A!Settled(k)' => k < Tail(b)[i]
    <3>1. i + 1 \in 1 .. Len(b) /\ 1 \in 1 .. Len(b) /\ 1 < i + 1 /\ Tail(b)[i] = b[i + 1]
      BY <1>5
    <3>2. h < b[i + 1] /\ b[i + 1] \in A!Position
      BY <1>5, <1>7, <3>1
    <3>3. place'[b[i + 1]] # "ready"
      BY <1>2, <1>6, <1>7, <3>1, <3>2
    <3>4. ASSUME NEW j \in 1 .. Len(b) - 1, i < j PROVE b[i + 1] < Tail(b)[j]
      <4>1. j + 1 \in 1 .. Len(b) /\ i + 1 < j + 1 /\ Tail(b)[j] = b[j + 1]
        BY <1>5, <3>4
      <4>. QED
        BY <1>7, <3>1, <4>1
    <3>5. ASSUME NEW k \in A!Position, A!Settled(k)' PROVE k < b[i + 1]
      <4>1. A!Settled(k) \/ k = h
        BY <1>9, <3>5
      <4>. QED
        BY <1>7, <3>1, <3>2, <4>1
    <3>. QED
      BY <3>1, <3>3, <3>4, <3>5
  <2>. QED
    BY <1>3, <1>4, <1>5, <2>1, <2>2 DEF InTurn
<1>11. \A j \in A!Position : HandledBy(c, j) => HandledBy(c, j)'
  BY <1>9 DEF HandledBy, h
<1>12. \A k \in A!Position : place'[k] # "orphaned"
  BY <1>2, <1>6 DEF Steady
<1>. QED
  BY <1>1, <1>10, <1>11, <1>12, StaysSteady DEF Steady

LEMMA ThreadSteady ==
  ASSUME TrailInv, QueueInv, NEW c \in Replica, Steady(c), EventsKept, UNCHANGED log,
         A!ThreadStep(c)
  PROVE  Steady(c)'
<1>1. CASE A!Connect(c)
  <2>1. link' = [link EXCEPT ![c] = "open"] /\ UNCHANGED <<queue, place, buffer, hand>>
    BY <1>1 DEF A!Connect
  <2>2. link'[c] \in {"closed", "open"}
    BY <2>1 DEF Steady
  <2>3. InTurn(c)' /\ \A k \in A!Position : HandledBy(c, k) => HandledBy(c, k)'
    BY <2>1 DEF Steady, InTurn, HandledBy, A!Settled, A!Position
  <2>. QED
    BY <2>1, <2>2, <2>3, StaysSteady DEF Steady
<1>2. CASE A!Take(c)
  <2>1. /\ hand[c] = "idle" /\ UNCHANGED <<queue, place, buffer, link>>
    BY <1>2 DEF A!Take
  <2>2. InTurn(c)' /\ \A k \in A!Position : HandledBy(c, k) => HandledBy(c, k)'
    BY <2>1 DEF Steady, InTurn, HandledBy, A!Settled, A!Position
  <2>. QED
    BY <2>1, <2>2, StaysSteady DEF Steady
<1>3. ~ A!SettleUnheard(c) /\ ~ A!LinkClosed(c)
  BY DEF Steady, A!SettleUnheard, A!LinkClosed
<1>. QED
  BY <1>1, <1>2, <1>3, DeliverSteady, SettleSteady DEF A!ThreadStep

(* A new row comes after all the rows there are. *)
LEMMA HandlerSteady ==
  ASSUME TrailInv, QueueInv, NEW c \in Replica, Steady(c), UNCHANGED issuesVars, A!Handler(c)
  PROVE  Steady(c)'
<1>. DEFINE n == Len(log)
<1>0. PICK h : h = Head(buffer[c])
  OBVIOUS
<1>1. /\ hand[c] = "handling" /\ UNCHANGED <<queue, place, buffer, link, events>>
      /\ hand' = [hand EXCEPT ![c] = "returned"] \/ hand' = [hand EXCEPT ![c] = "raised"]
      /\ UNCHANGED log \/ log' = A!InsertOnConflictDoNothing(queue[h])
  BY <1>0 DEF A!Handler, A!Skip, A!Persist, A!RejectBody, A!DatabaseFails, A!HandlerEnds,
     A!InHand, issuesVars
<1>2. hand'[c] \in {"returned", "raised"}
  BY <1>1 DEF QueueInv
<1>3. A!Position' = A!Position /\ A!Position = 1 .. Len(queue) /\ Len(queue) \in Nat
  BY <1>1, Places DEF A!Position
<1>4. buffer[c] \in Seq(A!Position) /\ buffer[c] # <<>>
  BY <1>1, <1>3 DEF QueueInv
<1>5. h \in A!Position /\ h = buffer[c][1] /\ 1 \in DOMAIN buffer[c]
  BY <1>0, <1>4, HeadTailProperties, LenProperties, EmptySeq
<1>6. InTurn(c)' /\ \A k \in A!Position : HandledBy(c, k) => HandledBy(c, k)'
  BY <1>1, <1>2 DEF Steady, InTurn, HandledBy, A!Settled, A!Position
<1>7. HandledBy(c, h)'
  BY <1>0, <1>1, <1>2 DEF HandledBy
<1>8. \A k \in A!Position : HandledBy(c, k) => k < h
  BY <1>0, <1>1, <1>5 DEF HandledBy, Steady, InTurn
<1>9. CASE UNCHANGED log
  <2>1. EventsKept
    BY <1>1 DEF EventsKept
  <2>. QED
    BY <1>1, <1>6, <1>9, <2>1, StaysSteady DEF Steady
<1>10. CASE log' = Append(log, queue[h])
  <2>1. log \in Seq(Sent) /\ queue[h] \in Sent
    BY <1>3, <1>5, ElementOfSeq DEF QueueInv
  <2>2. /\ n \in Nat /\ DOMAIN log = 1 .. n /\ DOMAIN log' = 1 .. n + 1
        /\ \A i \in 1 .. n : log'[i] = log[i]
        /\ log'[n + 1] = queue[h]
    <3>1. /\ log' \in Seq(Sent) /\ Len(log') = n + 1
          /\ \A i \in 1 .. n : log'[i] = log[i]
          /\ log'[n + 1] = queue[h]
      BY <1>10, <2>1, AppendProperties
    <3>. QED
      BY <2>1, <3>1, LenProperties
  <2>. HIDE DEF n
  <2>3. ASSUME NEW i \in 1 .. n PROVE Precedes(log[i], queue[h])
    <3>1. PICK k \in A!Position : log[i] = queue[k] /\ HandledBy(c, k)
      BY <2>2 DEF Steady
    <3>. QED
      BY <1>5, <1>8, <3>1 DEF TrailInv, QueueInOrder
  <2>4. ASSUME NEW i \in 1 .. n + 1, NEW j \in 1 .. n + 1, i < j
        PROVE  Precedes(log'[i], log'[j])
    <3>1. i \in 1 .. n /\ (j \in 1 .. n \/ j = n + 1)
      BY <2>2, <2>4
    <3>2. CASE j \in 1 .. n
      BY <2>2, <2>4, <3>1, <3>2 DEF Steady, LogInOrder
    <3>3. CASE j = n + 1
      BY <2>2, <2>3, <3>1, <3>3
    <3>. QED
      BY <3>1, <3>2, <3>3
  <2>5. LogInOrder'
    BY <1>1, <2>2, <2>4 DEF LogInOrder, Precedes
  <2>6. ASSUME NEW i \in 1 .. n + 1
        PROVE  \E k \in A!Position : log'[i] = queue[k] /\ HandledBy(c, k)'
    <3>1. CASE i \in 1 .. n
      BY <1>6, <2>2, <3>1 DEF Steady
    <3>2. CASE i = n + 1
      BY <1>5, <1>7, <2>2, <3>2
    <3>. QED
      BY <2>2, <3>1, <3>2
  <2>. QED
    BY <1>1, <1>3, <1>6, <2>2, <2>5, <2>6 DEF Steady
<1>. QED
  BY <1>1, <1>9, <1>10 DEF A!InsertOnConflictDoNothing

(* What is published joins the end of the queue. *)
LEMMA PublishOrder ==
  ASSUME IssuesInv, EventsGrow, EventsKept, QueueInv, TrailInv, IssuesStep
  PROVE  /\ place' \in Seq(A!Resting \cup Replica) /\ Len(place') = Len(queue')
         /\ QueueInOrder'
         /\ UNCHANGED <<log, auditFaults>>
         /\ \A c \in Replica : Steady(c) => Steady(c)'
<1>1. CASE UNCHANGED trailVars
  <2>1. UNCHANGED <<queue, place, link, buffer, hand, log, auditFaults>>
    BY <1>1 DEF trailVars
  <2>2. QueueInOrder'
    BY <2>1 DEF TrailInv, QueueInOrder, Precedes, EventsKept, A!Position
  <2>3. ASSUME NEW c \in Replica, Steady(c) PROVE Steady(c)'
    <3>1. InTurn(c)' /\ \A k \in A!Position : HandledBy(c, k) => HandledBy(c, k)'
      BY <2>1, <2>3 DEF Steady, InTurn, HandledBy, A!Settled, A!Position
    <3>. QED
      BY <2>1, <2>3, <3>1, StaysSteady DEF Steady
  <2>. QED
    BY <2>1, <2>2, <2>3 DEF TrailInv
<1>2. CASE events' # events /\ A!Publish(Envelope(events'[Len(events')])) /\ UNCHANGED log
  <2>1. PICK r \in Request : pc[r] = "refreshed" /\ events' = Append(events, EventOf(r))
    BY <1>2 DEF EventsGrow
  <2>2. PICK e \in Event : e = EventOf(r)
    BY <2>1, EventIsOwn
  <2>3. events \in Seq(Event)
    BY Histories
  <2>4. PICK z : z = Len(events) + 1
    OBVIOUS
  <2>5. /\ Len(events) \in Nat /\ DOMAIN events = 1 .. Len(events)
        /\ z \in DOMAIN events' /\ events'[z] = e /\ Len(events') = z
        /\ \A k \in DOMAIN events : k < z
    <3>1. /\ events' \in Seq(Event) /\ Len(events') = z /\ events'[z] = e
      BY <2>1, <2>2, <2>3, <2>4, AppendProperties
    <3>. QED
      BY <2>3, <2>4, <3>1, LenProperties
  <2>6. PICK m : m = Envelope(e)
    OBVIOUS
  <2>11. m.id = e
    BY <2>6 DEF Envelope
  <2>7. ASSUME NEW x \in Sent
        PROVE  \E k, l \in DOMAIN events' : k < l /\ x.id = events'[k] /\ m.id = events'[l]
    <3>1. PICK k \in DOMAIN events : x = Envelope(events[k])
      BY DEF Sent
    <3>. QED
      BY <2>5, <2>11, <3>1 DEF Envelope, EventsKept
  <2>8. /\ UNCHANGED <<link, buffer, hand, log, auditFaults>>
        /\ \/ UNCHANGED <<queue, place>>
           \/ queue' = Append(queue, m) /\ place' = Append(place, "ready")
    BY <1>2, <2>5, <2>6 DEF A!Publish
  <2>9. CASE UNCHANGED <<queue, place>>
    <3>1. QueueInOrder'
      BY <2>9 DEF TrailInv, QueueInOrder, Precedes, EventsKept, A!Position
    <3>2. ASSUME NEW c \in Replica, Steady(c) PROVE Steady(c)'
      <4>1. InTurn(c)' /\ \A k \in A!Position : HandledBy(c, k) => HandledBy(c, k)'
        BY <2>8, <2>9, <3>2 DEF Steady, InTurn, HandledBy, A!Settled, A!Position
      <4>. QED
        BY <2>8, <2>9, <3>2, <4>1, StaysSteady DEF Steady
    <3>. QED
      BY <2>8, <2>9, <3>1, <3>2 DEF TrailInv
  <2>10. CASE queue' = Append(queue, m) /\ place' = Append(place, "ready")
    <3>1. PICK n \in Nat : n = Len(queue) /\ n = Len(place)
      BY Places
    <3>2. /\ A!Position = 1 .. n /\ A!Position' = 1 .. n + 1 /\ Len(queue') = n + 1
          /\ \A k \in 1 .. n : queue'[k] = queue[k] /\ queue[k] \in Sent
          /\ queue'[n + 1] = m
      <4>1. PICK S : S = Sent \cup {m}
        OBVIOUS
      <4>0. queue \in Seq(S) /\ m \in S
        BY <4>1, SeqMonotonic DEF QueueInv
      <4>2. /\ queue' \in Seq(S) /\ Len(queue') = n + 1 /\ queue'[n + 1] = m
            /\ \A k \in 1 .. n : queue'[k] = queue[k]
        <5>1. queue' = Append(queue, m) /\ n = Len(queue)
          BY <2>10, <3>1
        <5>. QED
          BY <4>0, <5>1, AppendProperties
      <4>3. \A k \in 1 .. n : queue[k] \in Sent
        BY <3>1, ElementOfSeq DEF QueueInv
      <4>. QED
        BY <3>1, <4>2, <4>3 DEF A!Position
    <3>3. /\ place' \in Seq(A!Resting \cup Replica) /\ Len(place') = n + 1
          /\ \A k \in 1 .. n : place'[k] = place[k]
          /\ place'[n + 1] = "ready"
      <4>1. PICK S : S = A!Resting \cup Replica
        OBVIOUS
      <4>2. place \in Seq(S) /\ "ready" \in S
        BY <4>1 DEF TrailInv, A!Resting
      <4>3. /\ place' \in Seq(S) /\ Len(place') = n + 1
            /\ \A k \in 1 .. n : place'[k] = place[k]
            /\ place'[n + 1] = "ready"
        BY <2>10, <3>1, <4>2, AppendProperties
      <4>. QED
        BY <4>1, <4>3
    <3>4. QueueInOrder'
      <4>1. ASSUME NEW j \in 1 .. n + 1, NEW k \in 1 .. n + 1, j < k
            PROVE  \E i, l \in DOMAIN events' :
                     i < l /\ queue'[j].id = events'[i] /\ queue'[k].id = events'[l]
        <5>1. j \in 1 .. n /\ (k \in 1 .. n \/ k = n + 1)
          BY <4>1
        <5>2. CASE k \in 1 .. n
          <6>1. Precedes(queue[j], queue[k])
            BY <3>2, <4>1, <5>1, <5>2 DEF TrailInv, QueueInOrder
          <6>. QED
            BY <3>2, <5>1, <5>2, <6>1 DEF Precedes, EventsKept
        <5>3. CASE k = n + 1
          BY <2>7, <3>2, <5>1, <5>3
        <5>. QED
          BY <5>1, <5>2, <5>3
      <4>. QED
        BY <3>2, <4>1 DEF QueueInOrder, Precedes
    <3>5. ASSUME NEW c \in Replica, Steady(c) PROVE Steady(c)'
      <4>1. buffer[c] \in Seq(1 .. n) /\ \A i \in DOMAIN buffer[c] : buffer[c][i] \in 1 .. n
        <5>1. buffer[c] \in Seq(1 .. n)
          BY <3>1 DEF QueueInv
        <5>. QED
          BY <5>1, LenProperties, ElementOfSeq
      <4>2. \A k \in 1 .. n + 1 : A!Settled(k)' <=> (k \in 1 .. n /\ A!Settled(k))
        BY <3>2, <3>3 DEF A!Settled
      <4>3. \A k \in 1 .. n + 1 : k \in 1 .. n \/ k = n + 1
        OBVIOUS
      <4>4. InTurn(c)'
        <5>1. \A j, k \in 1 .. n + 1 : j < k /\ place'[j] = "ready" => place'[k] = "ready"
          BY <3>2, <3>3, <3>5, <4>3 DEF Steady, InTurn
        <5>2. \A i \in DOMAIN buffer'[c] : place'[buffer'[c][i]] # "ready"
          BY <2>8, <3>3, <3>5, <4>1 DEF Steady, InTurn
        <5>3. \A k \in 1 .. n + 1 : A!Settled(k)' =>
                \A i \in DOMAIN buffer'[c] : k < buffer'[c][i]
          BY <2>8, <3>2, <3>5, <4>2 DEF Steady, InTurn
        <5>. QED
          BY <2>8, <3>2, <3>5, <5>1, <5>2, <5>3 DEF Steady, InTurn
      <4>5. \A k \in 1 .. n : HandledBy(c, k) => HandledBy(c, k)'
        BY <2>8, <4>2 DEF HandledBy
      <4>6. LogInOrder'
        BY <2>8, <3>5 DEF Steady, LogInOrder, Precedes, EventsKept
      <4>7. \A i \in DOMAIN log' : \E k \in 1 .. n : log'[i] = queue'[k] /\ HandledBy(c, k)'
        BY <2>8, <3>2, <3>5, <4>5 DEF Steady
      <4>8. \A k \in 1 .. n + 1 : place'[k] # "orphaned"
        BY <3>2, <3>3, <3>5, <4>3 DEF Steady
      <4>. QED
        BY <2>8, <3>2, <3>5, <4>3, <4>4, <4>6, <4>7, <4>8 DEF Steady
    <3>. QED
      BY <2>8, <3>2, <3>3, <3>4, <3>5
  <2>. QED
    BY <2>8, <2>9, <2>10
<1>. QED
  BY <1>1, <1>2 DEF IssuesStep

LEMMA TrailInvInit ==
  ASSUME SystemInit
  PROVE  TrailInv
<1>1. /\ queue = <<>> /\ place = <<>> /\ log = <<>> /\ events = <<>> /\ auditFaults = 0
      /\ link = [c \in Replica |-> "closed"] /\ buffer = [c \in Replica |-> <<>>]
  BY DEF SystemInit, IssuesInit, A!AuditInit, A!ConsumerInit
<1>2. \A S : <<>> \in Seq(S)
  BY EmptySeq
<1>3. Len(queue) = 0 /\ A!Position = {}
  BY <1>1 DEF A!Position
<1>4. QueueInOrder
  BY <1>3 DEF QueueInOrder
<1>5. ASSUME NEW c \in Replica PROVE Steady(c)
  BY <1>1, <1>3 DEF Steady, InTurn, LogInOrder
<1>. QED
  BY <1>1, <1>2, <1>4, <1>5 DEF TrailInv

(* No failure, and nothing that only follows one. *)
LEMMA NoFaultThere ==
  ASSUME auditFaults \in Nat, auditFaults' = 0, NEW c \in Replica, Steady(c)
  PROVE  ~ A!Fault(c) /\ ~ A!Restart(c)
BY DEF A!Fault, A!LinkLost, A!Crash, A!ThreadDies, A!Restart, Steady

LEMMA PlacesStay ==
  ASSUME TrailInv, QueueInv, UNCHANGED queue,
         \/ UNCHANGED place
         \/ \E k \in A!Position, at \in A!Resting \cup Replica : place' = [place EXCEPT ![k] = at]
         \/ \E c \in Replica : A!Orphan(c)
  PROVE  place' \in Seq(A!Resting \cup Replica) /\ Len(place') = Len(queue')
<1>1. PICK S : S = A!Resting \cup Replica
  OBVIOUS
<1>2. /\ Len(queue) \in Nat /\ Len(place) = Len(queue)
      /\ DOMAIN place = 1 .. Len(queue) /\ A!Position = 1 .. Len(queue)
  BY Places
<1>3. PICK n \in Nat : n = Len(queue)
  BY <1>2
<1>4. place \in [1 .. n -> S]
  <2>1. place \in Seq(S)
    BY <1>1 DEF TrailInv
  <2>. QED
    BY <1>2, <1>3, <2>1, LenProperties
<1>5. place' \in [1 .. n -> S]
  <2>1. ASSUME NEW c \in Replica, A!Orphan(c) PROVE place' \in [1 .. n -> S]
    <3>1. place' = [k \in 1 .. n |-> IF place[k] = c THEN "orphaned" ELSE place[k]]
      BY <1>2, <1>3, <2>1 DEF A!Orphan
    <3>. QED
      BY <1>1, <1>4, <3>1 DEF A!Resting
  <2>2. ASSUME NEW k \in A!Position, NEW at \in S, place' = [place EXCEPT ![k] = at]
        PROVE  place' \in [1 .. n -> S]
    BY <1>4, <2>2
  <2>. QED
    BY <1>1, <1>4, <2>1, <2>2
<1>6. place' \in Seq(S)
  BY <1>5, SeqDef
<1>7. Len(place') = n
  BY <1>5, <1>6, LenProperties
<1>. QED
  BY <1>1, <1>3, <1>6, <1>7

(* A step of the broker or of audit-service, in which nothing is published. *)
LEMMA TrailStep ==
  ASSUME TrailInv, QueueInv, UNCHANGED issuesVars,
         \/ (\E k \in DOMAIN queue : A!Requeue(k)) /\ UNCHANGED log
         \/ \E c \in Replica :
              \/ (A!ThreadStep(c) \/ A!Fault(c) \/ A!Restart(c)) /\ UNCHANGED log
              \/ A!Handler(c)
  PROVE  TrailInv'
<1>0. EventsKept /\ UNCHANGED events /\ auditFaults \in Nat
  BY DEF issuesVars, EventsKept, TrailInv
<1>1. UNCHANGED queue /\ (UNCHANGED auditFaults \/ auditFaults' = auditFaults + 1)
  BY DEF A!Requeue, A!ThreadStep, A!Deliver, A!Connect, A!Take, A!Ack, A!Nack, A!Settle,
     A!SettleUnheard, A!LinkClosed, A!Fault, A!LinkLost, A!Crash, A!ThreadDies, A!Restart,
     A!Handler, A!Skip, A!Persist, A!RejectBody, A!DatabaseFails, A!HandlerEnds
<1>2. \/ UNCHANGED place
      \/ \E k \in A!Position, at \in A!Resting \cup Replica : place' = [place EXCEPT ![k] = at]
      \/ \E c \in Replica : A!Orphan(c)
  <2>1. ASSUME NEW k, A!Requeue(k)
        PROVE  k \in A!Position /\ place' = [place EXCEPT ![k] = "ready"]
    BY <2>1 DEF A!Requeue
  <2>2. ASSUME NEW c \in Replica, A!ThreadStep(c)
        PROVE  \/ UNCHANGED place
               \/ \E k \in A!Position, at \in A!Resting \cup Replica :
                    place' = [place EXCEPT ![k] = at]
    <3>1. CASE A!Deliver(c)
      BY <3>1 DEF A!Deliver
    <3>2. CASE A!Ack(c) \/ A!Nack(c)
      <4>1. /\ hand[c] # "idle"
            /\ \E at \in {"acked", "dropped"} : place' = [place EXCEPT ![Head(buffer[c])] = at]
        BY <3>2 DEF A!Ack, A!Nack, A!Settle
      <4>2. buffer[c] \in Seq(A!Position) /\ buffer[c] # <<>>
        BY <4>1 DEF QueueInv, A!Position
      <4>3. Head(buffer[c]) \in A!Position
        BY <4>2, HeadTailProperties
      <4>. QED
        BY <4>1, <4>3 DEF A!Resting
    <3>. QED
      BY <2>2, <3>1, <3>2 DEF A!ThreadStep, A!Connect, A!Take, A!SettleUnheard, A!LinkClosed
  <2>3. ASSUME NEW c \in Replica, A!Fault(c) \/ A!Restart(c) \/ A!Handler(c)
        PROVE  UNCHANGED place \/ A!Orphan(c)
    BY <2>3 DEF A!Fault, A!LinkLost, A!Crash, A!ThreadDies, A!Restart,
       A!Handler, A!Skip, A!Persist, A!RejectBody, A!DatabaseFails, A!HandlerEnds
  <2>4. "ready" \in A!Resting \cup Replica
    BY DEF A!Resting
  <2>. QED
    BY <2>1, <2>2, <2>3, <2>4
<1>3. /\ place' \in Seq(A!Resting \cup Replica) /\ Len(place') = Len(queue')
      /\ auditFaults' \in Nat
  BY <1>0, <1>1, <1>2, PlacesStay
<1>4. QueueInOrder'
  BY <1>0, <1>1 DEF TrailInv, QueueInOrder, Precedes, A!Position
<1>5. ASSUME auditFaults' = 0, Cardinality(Replica) = 1, NEW c \in Replica PROVE Steady(c)'
  <2>1. Replica = {c}
    BY <1>5, OneReplica
  <2>2. auditFaults = 0
    BY <1>0, <1>1, <1>5
  <2>3. Steady(c)
    BY <1>5, <2>2 DEF TrailInv
  <2>4. ~ A!Fault(c) /\ ~ A!Restart(c)
    BY <1>0, <1>5, <2>3, NoFaultThere
  <2>5. \A k : ~ A!Requeue(k)
    BY <2>3 DEF A!Requeue, Steady
  <2>6. (A!ThreadStep(c) /\ UNCHANGED log) \/ A!Handler(c)
    BY <2>1, <2>4, <2>5
  <2>. QED
    BY <1>0, <2>3, <2>6, ThreadSteady, HandlerSteady
<1>. QED
  BY <1>3, <1>4, <1>5 DEF TrailInv

LEMMA TrailInvKept ==
  ASSUME IssuesInv, SystemInv, TrailInv, [SystemNext]_systemVars
  PROVE  TrailInv'
<1>0. QueueInv
  BY DEF SystemInv
<1>1. CASE IssuesStep
  <2>1. EventsGrow /\ EventsKept
    BY <1>1, NextTells, EventsAreKept DEF IssuesStep, ToldStep
  <2>. QED
    BY <1>0, <1>1, <2>1, PublishOrder DEF TrailInv
<1>2. CASE \E k \in DOMAIN queue : Requeue(k)
  BY <1>0, <1>2, TrailStep DEF Requeue
<1>3. ASSUME NEW c \in Replica, ThreadStep(c) \/ Handle(c) \/ ConsumerFails(c) \/ Restart(c)
      PROVE  TrailInv'
  BY <1>0, <1>3, TrailStep DEF ThreadStep, Handle, ConsumerFails, Restart
<1>4. CASE UNCHANGED systemVars
  BY <1>4 DEF systemVars, trailVars, issuesVars, TrailInv, QueueInOrder, Precedes, Steady, InTurn,
     HandledBy, LogInOrder, A!Position, A!Settled
<1>. QED
  BY <1>1, <1>2, <1>3, <1>4 DEF SystemNext

(* The queue of audit-service keeps the order in which issues-service      *)
(* published; and one replica without failure settles it from its head on. *)
THEOREM TrailInvariant == SystemSpec => []TrailInv
<1>1. SystemInit => TrailInv
  BY TrailInvInit
<1>2. IssuesInv /\ SystemInv /\ TrailInv /\ [SystemNext]_systemVars => TrailInv'
  BY TrailInvKept
<1>. QED
  BY <1>1, <1>2, SystemInvariant, PTL DEF SystemSpec

(* With the one replica that docker-compose starts, and until that fails,  *)
(* the audit trail tells the changes of a client in the order it made them *)
(* in: whatever overtakes what in issues-service, and whatever fails there. *)
THEOREM TrailIsInClientOrder == SystemSpec => []TrailFollowsClientOrder
<1>1. ASSUME IssuesInv, SystemInv, TrailInv, LaterInv, auditFaults = 0, Cardinality(Replica) = 1,
             NEW i \in DOMAIN log, NEW j \in DOMAIN log,
             log[i].id.by \in before[log[j].id.by]
      PROVE  i < j
  <2>1. LogInOrder /\ i \in Nat /\ j \in Nat
    <3>1. \E c \in Replica : Steady(c)
      BY <1>1, OneReplica DEF TrailInv
    <3>2. DOMAIN log = 1 .. Len(log) /\ Len(log) \in Nat
      BY <1>1, LenProperties DEF SystemInv, QueueInv
    <3>. QED
      BY <3>1, <3>2 DEF Steady
  <2>2. log[i] \in Sent /\ log[j] \in Sent
    BY <1>1, ElementOfSeq, LenProperties DEF SystemInv, QueueInv
  <2>3. PICK k, l \in DOMAIN events : log[i].id = events[k] /\ log[j].id = events[l]
    BY <2>2 DEF Sent, Envelope
  <2>4. k < l /\ ~ (l < k) /\ k # l
    <3>1. k \in Nat /\ l \in Nat
      BY <1>1, Histories, LenProperties
    <3>2. k < l
      BY <1>1, <2>3 DEF LaterInv, EventsFollowClientOrder
    <3>. QED
      BY <3>1, <3>2
  <2>5. ASSUME j < i PROVE FALSE
    <3>1. PICK x, y \in DOMAIN events : x < y /\ log[j].id = events[x] /\ log[i].id = events[y]
      BY <2>1, <2>5 DEF LogInOrder, Precedes
    <3>2. x = l /\ y = k
      BY <1>1, <2>3, <3>1 DEF SystemInv, ToldInv, EventsDiffer
    <3>. QED
      BY <2>3, <2>4, <3>1, <3>2
  <2>6. ASSUME i = j PROVE FALSE
    <3>1. k = l
      BY <1>1, <2>3, <2>6 DEF SystemInv, ToldInv, EventsDiffer
    <3>. QED
      BY <2>4, <3>1
  <2>. QED
    BY <2>1, <2>5, <2>6
<1>2. IssuesInv /\ SystemInv /\ TrailInv /\ LaterInv => TrailFollowsClientOrder
  BY <1>1 DEF TrailFollowsClientOrder
<1>. QED
  BY <1>2, SystemInvariant, SystemRunsIssues, LaterInvariant, TrailInvariant, PTL
==============================================================================
