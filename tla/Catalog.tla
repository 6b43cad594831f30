------------------------------- MODULE Catalog ------------------------------
(***************************************************************************)
(* The documents table and everything that writes it: registration and     *)
(* deletion through the API (documents/application/commands.py) and the    *)
(* status changes of the ingestion workers (lifecycle.py), each of them a  *)
(* read in one statement and a write in a later one.                       *)
(*                                                                         *)
(* A request performs one operation for one tenant. The fresh uuid that a  *)
(* registration draws for its document is the request itself. INSERT and   *)
(* COMMIT are one action: a second INSERT of the same key waits for the    *)
(* first to commit or roll back and then finds the key taken, or free. A   *)
(* request may fail, or its process end, between any two steps.            *)
(***************************************************************************)
EXTENDS Document

CONSTANTS
    Tenants,
    Hashes,         \* content hashes
    Requests,       \* requests, and the ids of the documents they register
    NoRow,          \* no row with this id
    NoRequest,      \* nothing asked yet
    NoAnswer        \* no document in the answer

VARIABLES
    table,          \* Requests -> row with that id of the table documents
    req             \* Requests -> what was asked, and how far it got

vars == <<table, req>>

Row == [tenant : Tenants, hash : Hashes, status : DocumentStatus]

Registration ==
    [op : {"register"}, tenant : Tenants, hash : Hashes, doc : Requests \cup {NoAnswer},
     at : {"find", "insert", "done", "conflict", "lost"}]

StatusChange ==
    [op : {"change"}, tenant : Tenants, doc : Requests, target : DocumentStatus,
     at : {"load", "save", "done", "refused", "lost"}]

ASSUME CatalogAssumption ==
    /\ NoRow \notin Row /\ NoAnswer \notin Requests
    /\ NoRequest \notin Registration \cup StatusChange

Init ==
    /\ table = [d \in Requests |-> NoRow]
    /\ req   = [r \in Requests |-> NoRequest]

At(r, op, place) == req[r] # NoRequest /\ req[r].op = op /\ req[r].at = place

GoTo(r, place) == req' = [req EXCEPT ![r].at = place]

Rows == {d \in Requests : table[d] # NoRow}

-----------------------------------------------------------------------------
(* POST /documents, for the tenant of the caller's token. *)
Register(r, t, h) ==
    /\ req[r] = NoRequest
    /\ req' = [req EXCEPT ![r] = [op |-> "register", tenant |-> t, hash |-> h,
                                  doc |-> NoAnswer, at |-> "find"]]
    /\ UNCHANGED table

(* Mutant: the lookup is not scoped to the tenant. *)
MatchesAnyTenant(t, h) == {d \in Rows : table[d].hash = h /\ Visible(table[d].status)}

(* find_by_content_hash *)
Matches(t, h) ==
    {d \in Rows : table[d].tenant = t /\ table[d].hash = h /\ Visible(table[d].status)}

Find(r) ==
    /\ At(r, "register", "find")
    /\ LET found == Matches(req[r].tenant, req[r].hash)
       IN  \/ found = {} /\ GoTo(r, "insert")
           \/ \E d \in found : req' = [req EXCEPT ![r].at = "done", ![r].doc = d]
    /\ UNCHANGED table

(* Mutant: the table without its unique constraint. *)
TakenNever(t, h) == FALSE

(* uq_documents_tenant_hash, which also covers deleted rows. *)
Taken(t, h) == \E d \in Rows : table[d].tenant = t /\ table[d].hash = h

(* Document.register *)
NewRow(t, h) == [tenant |-> t, hash |-> h, status |-> "registered"]

(* Mutant: the request is answered without the document it registered. *)
InsertUnanswered(r) ==
    /\ At(r, "register", "insert")
    /\ ~Taken(req[r].tenant, req[r].hash)
    /\ table' = [table EXCEPT ![r] = NewRow(req[r].tenant, req[r].hash)]
    /\ GoTo(r, "done") \/ GoTo(r, "lost")

(* add and commit; the answer may be lost after the commit. *)
Insert(r) ==
    /\ At(r, "register", "insert")
    /\ ~Taken(req[r].tenant, req[r].hash)
    /\ table' = [table EXCEPT ![r] = NewRow(req[r].tenant, req[r].hash)]
    /\ \/ req' = [req EXCEPT ![r].at = "done", ![r].doc = r]
       \/ GoTo(r, "lost")

(* The commit raises IntegrityError, which no handler turns into an answer *)
(* of its own: the client gets an internal error.                          *)
InsertConflicts(r) ==
    /\ At(r, "register", "insert")
    /\ Taken(req[r].tenant, req[r].hash)
    /\ GoTo(r, "conflict")
    /\ UNCHANGED table

-----------------------------------------------------------------------------
(* DELETE /documents/{id}, or mark_ingesting, mark_indexed, mark_failed. *)
Change(r, t, d, target) ==
    /\ req[r] = NoRequest
    /\ target # "registered"
    /\ req' = [req EXCEPT ![r] = [op |-> "change", tenant |-> t, doc |-> d,
                                  target |-> target, at |-> "load"]]
    /\ UNCHANGED table

(* Mutant: the document is read by its id alone. *)
ReadableByAll(t, d) == d \in Rows /\ Visible(table[d].status)

(* SqlAlchemyDocumentRepository.get *)
Readable(t, d) == d \in Rows /\ table[d].tenant = t /\ Visible(table[d].status)

(* get, then the transition on the object in memory. *)
Load(r) ==
    /\ At(r, "change", "load")
    /\ IF Readable(req[r].tenant, req[r].doc)
          /\ MayMove(table[req[r].doc].status, req[r].target)
       THEN GoTo(r, "save")
       ELSE GoTo(r, "refused")
    /\ UNCHANGED table

(* save and commit, by the id alone; the answer may be lost. *)
Save(r) ==
    /\ At(r, "change", "save")
    /\ table' = [table EXCEPT ![req[r].doc].status = req[r].target]
    /\ GoTo(r, "done") \/ GoTo(r, "lost")

Abort(r) ==
    /\ \/ At(r, "register", "find") \/ At(r, "register", "insert")
       \/ At(r, "change", "load") \/ At(r, "change", "save")
    /\ GoTo(r, "lost")
    /\ UNCHANGED table

-----------------------------------------------------------------------------
Step(r) ==
    \/ \E t \in Tenants, h \in Hashes : Register(r, t, h)
    \/ \E t \in Tenants, d \in Requests, s \in DocumentStatus : Change(r, t, d, s)
    \/ Find(r) \/ Insert(r) \/ InsertConflicts(r)
    \/ Load(r) \/ Save(r)
    \/ Abort(r)

Next == \E r \in Requests : Step(r)

Spec == Init /\ [][Next]_vars
-----------------------------------------------------------------------------
Answered(r) == At(r, "register", "done")

(* Type invariant. A registration is answered with a document, and no      *)
(* other way.                                                              *)
CatalogTypeOK ==
    /\ table \in [Requests -> Row \cup {NoRow}]
    /\ req \in [Requests -> Registration \cup StatusChange \cup {NoRequest}]
    /\ \A r \in Requests : req[r] \in Registration =>
         (Answered(r) <=> req[r].doc # NoAnswer)

(* README.md: identical content is not duplicated. Only the constraint     *)
(* ensures it: the lookup of a registration is stale when it inserts.      *)
OneDocumentPerContent ==
    \A d, e \in Rows :
        table[d].tenant = table[e].tenant /\ table[d].hash = table[e].hash => d = e

(* README.md: registration is idempotent by (tenant_id, content_hash). All *)
(* registrations of one content that are answered at all, over all time    *)
(* and whatever was changed, deleted or lost in between, get the same      *)
(* document, and it is that tenant's document with that content.           *)
SameDocumentForAll ==
    /\ \A r \in Requests : Answered(r) =>
         /\ req[r].doc \in Rows
         /\ table[req[r].doc].tenant = req[r].tenant
         /\ table[req[r].doc].hash = req[r].hash
    /\ \A q, r \in Requests :
         Answered(q) /\ Answered(r)
           /\ req[q].tenant = req[r].tenant /\ req[q].hash = req[r].hash
         => req[q].doc = req[r].doc

(* save does not look at the tenant, and by then the request's own read is *)
(* stale. Still a row changes only by a request of its own tenant, its key *)
(* never changes, and no row is ever removed or replaced.                  *)
RowsChangeByTheirTenant ==
    [][\A d \in Rows :
         /\ table'[d] # NoRow
         /\ table'[d].tenant = table[d].tenant /\ table'[d].hash = table[d].hash
         /\ table'[d] # table[d] => \E r \in Requests :
              At(r, "change", "save") /\ req[r].doc = d /\ req[r].tenant = table[d].tenant]_vars

-----------------------------------------------------------------------------
(* README.md: "a repeated request for identical content returns the        *)
(* existing document". The code answers some with an internal error        *)
(* (Catalog_repeat.cfg).                                                   *)
RepeatIsAnswered == \A r \in Requests : ~At(r, "register", "conflict")
=============================================================================
