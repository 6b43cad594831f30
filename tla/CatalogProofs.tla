---------------------------- MODULE CatalogProofs ---------------------------
(***************************************************************************)
(* Proofs about Catalog.tla, for any number of tenants, contents and       *)
(* requests. The invariant adds to the checked properties what a request   *)
(* still knows of the row it loaded: that it exists and whose it is.       *)
(***************************************************************************)
EXTENDS Catalog, TLAPS

(* A request about to save has seen the row as its own tenant's. Rows are  *)
(* never removed and never change tenant, so that outlasts the read.       *)
SavesOwnRow ==
    \A r \in Requests : At(r, "change", "save") =>
        req[r].doc \in Rows /\ table[req[r].doc].tenant = req[r].tenant

(* A row has the id of the registration that inserted it, and that one is  *)
(* over: no id is ever inserted twice.                                     *)
IdsAreFresh ==
    \A d \in Rows : /\ req[d] # NoRequest /\ req[d].op = "register"
                    /\ req[d].at \in {"done", "lost"}

IndInv ==
    /\ CatalogTypeOK
    /\ OneDocumentPerContent
    /\ SameDocumentForAll
    /\ SavesOwnRow
    /\ IdsAreFresh

-----------------------------------------------------------------------------
(* Nothing is registered and nothing asked at first. *)
LEMMA IndInvInit == Init => IndInv
  BY CatalogAssumption
  DEF Init, IndInv, CatalogTypeOK, OneDocumentPerContent, SameDocumentForAll,
      SavesOwnRow, IdsAreFresh, Rows, At, Answered

(* What the place of a request says about its shape. *)
LEMMA RequestShape ==
    ASSUME CatalogTypeOK, NEW r \in Requests
    PROVE  /\ \A p : At(r, "register", p) => req[r] \in Registration
           /\ \A p : At(r, "change", p) => req[r] \in StatusChange
  BY DEF CatalogTypeOK, At, Registration, StatusChange

(* Moving a request to another of its places changes nothing else of it. *)
LEMMA MovedRequest ==
    ASSUME CatalogTypeOK, NEW r \in Requests, NEW q, req[r] # NoRequest, GoTo(r, q)
    PROVE  /\ DOMAIN req' = Requests
           /\ \A s \in Requests \ {r} : req'[s] = req[s]
           /\ req'[r].op = req[r].op /\ req'[r].tenant = req[r].tenant
           /\ req'[r].doc = req[r].doc /\ req'[r].at = q
           /\ req[r] \in Registration /\ q \in {"insert", "done", "conflict", "lost"} =>
                req'[r] \in Registration /\ req'[r].hash = req[r].hash
           /\ req[r] \in StatusChange /\ q \in {"save", "done", "refused", "lost"} =>
                req'[r] \in StatusChange /\ req'[r].target = req[r].target
<1>1. req[r] \in Registration \/ req[r] \in StatusChange
  BY DEF CatalogTypeOK
<1>2. DOMAIN req = Requests
  BY DEF CatalogTypeOK
<1>3. req'[r] = [req[r] EXCEPT !.at = q]
  BY <1>2 DEF GoTo
<1>4. DOMAIN req' = Requests /\ \A s \in Requests \ {r} : req'[s] = req[s]
  BY <1>2 DEF GoTo
<1>5. CASE req[r] \in Registration
  BY <1>3, <1>4, <1>5 DEF Registration, StatusChange
<1>6. CASE req[r] \in StatusChange
  BY <1>3, <1>4, <1>6 DEF Registration, StatusChange
<1> QED
  BY <1>1, <1>5, <1>6

(* No row is removed, and none changes its key. *)
KeysKept ==
    \A d \in Rows : /\ table'[d] # NoRow
                    /\ table'[d].tenant = table[d].tenant
                    /\ table'[d].hash = table[d].hash

(* A request whose record is replaced, without being a registration that   *)
(* gets its answer, keeps what the invariant says of requests.             *)
LEMMA UnansweredStep ==
    ASSUME IndInv, table' \in [Requests -> Row \cup {NoRow}], KeysKept,
           NEW r \in Requests,
           DOMAIN req' = Requests, \A s \in Requests \ {r} : req'[s] = req[s],
           req' \in [Requests -> Registration \cup StatusChange \cup {NoRequest}],
           req'[r] \in Registration => req'[r].doc = NoAnswer /\ req'[r].at # "done",
           req'[r] # NoRequest,
           req'[r].op = "change" /\ req'[r].at = "save" =>
               req'[r].doc \in Rows' /\ table'[req'[r].doc].tenant = req'[r].tenant,
           Rows' \subseteq Rows \cup {r},
           r \in Rows' => req'[r].op = "register" /\ req'[r].at = "lost"
    PROVE  CatalogTypeOK' /\ SameDocumentForAll' /\ SavesOwnRow' /\ IdsAreFresh'
<1>1. CatalogTypeOK'
  BY DEF IndInv, CatalogTypeOK, Answered, At
<1>2. \A s \in Requests : Answered(s)' => s # r /\ Answered(s) /\ req'[s] = req[s]
  <2>1. ~Answered(r)'
    <3>1. req'[r] \in Registration \/ req'[r] \in StatusChange
      OBVIOUS
    <3>2. req'[r] \in StatusChange => req'[r].op = "change"
      BY DEF StatusChange
    <3> QED
      BY <3>1, <3>2 DEF Answered, At
  <2> QED
    BY <2>1 DEF Answered, At
<1>3. \A s \in Requests : Answered(s) =>
        /\ req[s].doc \in Rows
        /\ table[req[s].doc].tenant = req[s].tenant
        /\ table[req[s].doc].hash = req[s].hash
  BY DEF IndInv, SameDocumentForAll
<1>4. Rows \subseteq Rows'
  BY DEF KeysKept, Rows
<1>5. \A s \in Requests : Answered(s)' =>
        /\ req'[s].doc \in Rows'
        /\ table'[req'[s].doc].tenant = req'[s].tenant
        /\ table'[req'[s].doc].hash = req'[s].hash
  BY <1>2, <1>3, <1>4 DEF KeysKept
<1>6. SameDocumentForAll'
  <2>1. \A q, s \in Requests :
          Answered(q)' /\ Answered(s)' /\ req'[q].tenant = req'[s].tenant
            /\ req'[q].hash = req'[s].hash => req'[q].doc = req'[s].doc
    BY <1>2 DEF IndInv, SameDocumentForAll
  <2> QED
    BY <1>5, <2>1 DEF SameDocumentForAll
<1>7. SavesOwnRow'
  <2>1. \A s \in Requests \ {r} : At(s, "change", "save")' =>
           req'[s].doc \in Rows' /\ table'[req'[s].doc].tenant = req'[s].tenant
    BY <1>4 DEF IndInv, SavesOwnRow, At, KeysKept
  <2>2. At(r, "change", "save")' =>
           req'[r].doc \in Rows' /\ table'[req'[r].doc].tenant = req'[r].tenant
    BY DEF At
  <2> QED
    BY <2>1, <2>2 DEF SavesOwnRow
<1>8. IdsAreFresh'
  BY DEF IndInv, IdsAreFresh, Rows
<1> QED
  BY <1>1, <1>6, <1>7, <1>8

(* As a content has one document, all registrations answered with a        *)
(* document of their own content are answered with the same one.           *)
LEMMA AnswersAgree ==
    ASSUME OneDocumentPerContent',
           \A s \in Requests : Answered(s)' =>
               /\ req'[s].doc \in Rows'
               /\ table'[req'[s].doc].tenant = req'[s].tenant
               /\ table'[req'[s].doc].hash = req'[s].hash
    PROVE  SameDocumentForAll'
<1>1. ASSUME NEW q \in Requests, NEW s \in Requests, Answered(q)', Answered(s)',
             req'[q].tenant = req'[s].tenant, req'[q].hash = req'[s].hash
      PROVE  req'[q].doc = req'[s].doc
  BY <1>1 DEF OneDocumentPerContent
<1> QED
  BY <1>1 DEF SameDocumentForAll

(* A registration answered with a row of its tenant and content gets the   *)
(* document every other registration of that content got, because there is *)
(* no second one.                                                          *)
LEMMA AnsweredStep ==
    ASSUME IndInv, table' \in [Requests -> Row \cup {NoRow}], KeysKept,
           OneDocumentPerContent',
           NEW r \in Requests, NEW d \in Rows', req[r] \in Registration,
           req' = [req EXCEPT ![r].at = "done", ![r].doc = d],
           table'[d].tenant = req[r].tenant, table'[d].hash = req[r].hash,
           Rows' \subseteq Rows \cup {r}
    PROVE  CatalogTypeOK' /\ SameDocumentForAll' /\ SavesOwnRow' /\ IdsAreFresh'
<1>1. DOMAIN req = Requests /\ d \in Requests
  BY DEF IndInv, CatalogTypeOK, Rows
<1>2. DOMAIN req' = Requests /\ \A s \in Requests \ {r} : req'[s] = req[s]
  BY <1>1
<1>3. /\ req'[r] \in Registration /\ req'[r].doc = d
      /\ req'[r].tenant = req[r].tenant /\ req'[r].hash = req[r].hash
  BY <1>1 DEF Registration
<1>4. CatalogTypeOK'
  <2>1. req' \in [Requests -> Registration \cup StatusChange \cup {NoRequest}]
    BY <1>2, <1>3 DEF IndInv, CatalogTypeOK
  <2>2. d # NoAnswer
    BY <1>1, CatalogAssumption
  <2>3. Answered(r)'
    BY <1>1, <1>3, CatalogAssumption DEF Answered, At, Registration
  <2>4. \A s \in Requests \ {r} : req'[s] \in Registration =>
           (Answered(s)' <=> req'[s].doc # NoAnswer)
    BY <1>2 DEF IndInv, CatalogTypeOK, Answered, At
  <2>5. \A s \in Requests : req'[s] \in Registration =>
           (Answered(s)' <=> req'[s].doc # NoAnswer)
    BY <1>3, <2>2, <2>3, <2>4
  <2> QED
    BY <2>1, <2>5 DEF CatalogTypeOK
<1>5. Rows \subseteq Rows'
  BY DEF KeysKept, Rows
<1>6. \A s \in Requests : Answered(s)' =>
        /\ req'[s].doc \in Rows'
        /\ table'[req'[s].doc].tenant = req'[s].tenant
        /\ table'[req'[s].doc].hash = req'[s].hash
  <2>1. \A s \in Requests \ {r} : Answered(s)' =>
        /\ req'[s].doc \in Rows
        /\ table[req'[s].doc].tenant = req'[s].tenant
        /\ table[req'[s].doc].hash = req'[s].hash
    BY <1>2 DEF IndInv, SameDocumentForAll, Answered, At
  <2> QED
    BY <1>2, <1>3, <1>5, <2>1 DEF KeysKept
<1>7. SameDocumentForAll'
  BY <1>6, AnswersAgree
<1>8. SavesOwnRow'
  <2>1. ~At(r, "change", "save")'
    BY <1>3 DEF At, Registration
  <2> QED
    BY <1>2, <1>5, <2>1 DEF IndInv, SavesOwnRow, At, KeysKept
<1>9. IdsAreFresh'
  <2>1. req'[r].op = "register" /\ req'[r].at = "done" /\ req'[r] # NoRequest
    BY <1>1, <1>3, CatalogAssumption DEF Registration
  <2> QED
    BY <1>2, <2>1 DEF IndInv, IdsAreFresh, Rows
<1> QED
  BY <1>4, <1>7, <1>8, <1>9

-----------------------------------------------------------------------------
(* A request that moves to a place where it is not answered, and changes   *)
(* no row, preserves the invariant.                                        *)
LEMMA QuietMove ==
    ASSUME IndInv, NEW r \in Requests, NEW q, req[r] # NoRequest, GoTo(r, q),
           UNCHANGED table,
           req[r].at \notin {"done", "lost"},
           \/ /\ req[r] \in Registration
              /\ q \in {"insert", "conflict", "lost"}
           \/ /\ req[r] \in StatusChange
              /\ q \in {"save", "refused", "lost"}
              /\ q = "save" => /\ req[r].doc \in Rows
                              /\ table[req[r].doc].tenant = req[r].tenant
    PROVE  IndInv'
<1>1. CatalogTypeOK
  BY DEF IndInv
<1>2. /\ DOMAIN req' = Requests
      /\ \A s \in Requests \ {r} : req'[s] = req[s]
      /\ req'[r].op = req[r].op /\ req'[r].tenant = req[r].tenant
      /\ req'[r].doc = req[r].doc /\ req'[r].at = q
  BY <1>1, MovedRequest
<1>3. /\ req[r] \in Registration => req'[r] \in Registration
      /\ req[r] \in StatusChange => req'[r] \in StatusChange
  BY <1>1, MovedRequest DEF Registration, StatusChange
<1>4. req' \in [Requests -> Registration \cup StatusChange \cup {NoRequest}]
  BY <1>1, <1>2, <1>3 DEF CatalogTypeOK, GoTo
<1>5. /\ req'[r] # NoRequest
      /\ req'[r] \in Registration => req'[r].doc = NoAnswer /\ req'[r].at # "done"
  <2>1. req[r] \in Registration \/ req[r] \in StatusChange
    BY <1>1 DEF CatalogTypeOK
  <2>2. req'[r] # NoRequest
    BY <1>3, <2>1, CatalogAssumption
  <2>3. req[r] \in Registration => req[r].op = "register"
    BY DEF Registration
  <2>4. req[r] \in StatusChange => req[r].op = "change"
    BY DEF StatusChange
  <2>5. req'[r] \in Registration => req'[r].op = "register"
    BY DEF Registration
  <2>6. req'[r] \in Registration => req[r] \in Registration
    BY <1>2, <2>1, <2>4, <2>5
  <2>7. ~Answered(r)
    BY DEF Answered, At
  <2> QED
    BY <1>1, <1>2, <2>2, <2>4, <2>6, <2>7 DEF CatalogTypeOK
<1>6. KeysKept /\ Rows' = Rows /\ OneDocumentPerContent'
  BY DEF IndInv, KeysKept, Rows, OneDocumentPerContent
<1>7. table' \in [Requests -> Row \cup {NoRow}]
  BY <1>1 DEF CatalogTypeOK
<1>8. req'[r].op = "change" /\ req'[r].at = "save" =>
        req'[r].doc \in Rows' /\ table'[req'[r].doc].tenant = req'[r].tenant
  BY <1>2, <1>6
<1>9. r \notin Rows'
  BY <1>6 DEF IndInv, IdsAreFresh
<1>10. CatalogTypeOK' /\ SameDocumentForAll' /\ SavesOwnRow' /\ IdsAreFresh'
  BY <1>2, <1>4, <1>5, <1>6, <1>7, <1>8, <1>9, UnansweredStep
<1> QED
  BY <1>6, <1>10 DEF IndInv

(* A request is taken up: there is no answer to speak of yet. *)
LEMMA NewRequest ==
    ASSUME IndInv, NEW r \in Requests, UNCHANGED table, req[r] = NoRequest,
           NEW q \in Registration \cup StatusChange,
           req' = [req EXCEPT ![r] = q],
           q \in Registration => q.doc = NoAnswer /\ q.at # "done",
           q.at # "save"
    PROVE  IndInv'
<1>1. DOMAIN req' = Requests /\ req'[r] = q /\ \A s \in Requests \ {r} : req'[s] = req[s]
  BY DEF IndInv, CatalogTypeOK
<1>2. req' \in [Requests -> Registration \cup StatusChange \cup {NoRequest}]
  BY DEF IndInv, CatalogTypeOK
<1>3. KeysKept /\ Rows' = Rows /\ OneDocumentPerContent'
  BY DEF IndInv, KeysKept, Rows, OneDocumentPerContent
<1>4. table' \in [Requests -> Row \cup {NoRow}]
  BY DEF IndInv, CatalogTypeOK
<1>5. q # NoRequest
  BY CatalogAssumption
<1>6. r \notin Rows'
  BY <1>3 DEF IndInv, IdsAreFresh
<1>7. CatalogTypeOK' /\ SameDocumentForAll' /\ SavesOwnRow' /\ IdsAreFresh'
  BY <1>1, <1>2, <1>3, <1>4, <1>5, <1>6, UnansweredStep
<1> QED
  BY <1>3, <1>7 DEF IndInv

(* The insert of a content nobody has: the key is free, and stays unique.  *)
LEMMA InsertStep ==
    ASSUME IndInv, NEW r \in Requests, Insert(r)
    PROVE  IndInv'
<1> DEFINE row == [tenant |-> req[r].tenant, hash |-> req[r].hash, status |-> "registered"]
<1>1. req[r] \in Registration /\ req[r] # NoRequest /\ ~Answered(r)
  BY RequestShape DEF IndInv, Insert, NewRow, At, Answered
<1>2. row \in Row /\ row # NoRow
  BY <1>1, CatalogAssumption DEF Row, Registration, DocumentStatus
<1>3. /\ table' = [table EXCEPT ![r] = row] /\ ~Taken(row.tenant, row.hash)
      /\ table \in [Requests -> Row \cup {NoRow}]
  BY DEF Insert, NewRow, IndInv, CatalogTypeOK
<1> HIDE DEF row
<1>4. table' \in [Requests -> Row \cup {NoRow}] /\ table'[r] = row
        /\ \A d \in Requests \ {r} : table'[d] = table[d]
  BY <1>2, <1>3
<1>5. OneDocumentPerContent'
  BY <1>2, <1>3, <1>4 DEF IndInv, OneDocumentPerContent, Rows, Taken
<1>6. KeysKept /\ Rows' \subseteq Rows \cup {r}
  <2>1. r \notin Rows
    BY DEF IndInv, IdsAreFresh, Insert, NewRow, At
  <2> QED
    BY <1>4, <2>1 DEF KeysKept, Rows
<1>7. /\ r \in Rows' /\ table'[r].tenant = req[r].tenant
      /\ table'[r].hash = req[r].hash
  BY <1>2, <1>4 DEF row, Rows
<1>8. CASE req' = [req EXCEPT ![r].at = "done", ![r].doc = r]
  BY <1>1, <1>4, <1>5, <1>6, <1>7, <1>8, AnsweredStep DEF IndInv
<1>9. CASE GoTo(r, "lost")
  <2>1. /\ DOMAIN req' = Requests
        /\ \A s \in Requests \ {r} : req'[s] = req[s]
        /\ req'[r] \in Registration /\ req'[r].doc = req[r].doc /\ req'[r].at = "lost"
    BY <1>1, <1>9, MovedRequest DEF IndInv
  <2>2. req' \in [Requests -> Registration \cup StatusChange \cup {NoRequest}]
    BY <1>9, <2>1 DEF IndInv, CatalogTypeOK, GoTo
  <2>3. req[r].doc = NoAnswer
    BY <1>1 DEF IndInv, CatalogTypeOK
  <2>4. req'[r].op = "register" /\ req'[r] # NoRequest
    BY <2>1, CatalogAssumption DEF Registration
  <2> QED
    BY <1>4, <1>5, <1>6, <2>1, <2>2, <2>3, <2>4, UnansweredStep DEF IndInv
<1> QED
  BY <1>8, <1>9 DEF Insert, NewRow

(* The lookup either answers with a row of the request's own tenant and    *)
(* content, or sends the request on to insert.                             *)
LEMMA FindStep ==
    ASSUME IndInv, NEW r \in Requests, Find(r)
    PROVE  IndInv'
<1>1. /\ req[r] \in Registration /\ req[r] # NoRequest
      /\ req[r].at \notin {"done", "lost"} /\ UNCHANGED table
  BY RequestShape DEF IndInv, Find, At
<1>2. KeysKept /\ Rows' = Rows /\ OneDocumentPerContent'
  BY <1>1 DEF IndInv, KeysKept, Rows, OneDocumentPerContent
<1>3. CASE GoTo(r, "insert")
  BY <1>1, <1>3, QuietMove
<1>4. ASSUME NEW d \in Matches(req[r].tenant, req[r].hash),
             req' = [req EXCEPT ![r].at = "done", ![r].doc = d]
      PROVE  IndInv'
  <2>1. /\ d \in Rows' /\ table'[d].tenant = req[r].tenant
        /\ table'[d].hash = req[r].hash
    BY <1>1, <1>2, <1>4 DEF Matches
  <2>2. table' \in [Requests -> Row \cup {NoRow}]
    BY <1>1 DEF IndInv, CatalogTypeOK
  <2>3. CatalogTypeOK' /\ SameDocumentForAll' /\ SavesOwnRow' /\ IdsAreFresh'
    BY <1>1, <1>2, <1>4, <2>1, <2>2, AnsweredStep
  <2> QED
    BY <1>2, <2>3 DEF IndInv
<1> QED
  BY <1>3, <1>4 DEF Find

(* The write by id: the row is still there, still its tenant's, and only   *)
(* its status changes.                                                     *)
LEMMA SaveRow ==
    ASSUME IndInv, NEW r \in Requests, Save(r)
    PROVE  /\ req[r] \in StatusChange /\ req[r].doc \in Rows
           /\ table[req[r].doc].tenant = req[r].tenant
           /\ table' \in [Requests -> Row \cup {NoRow}]
           /\ \A d \in Requests \ {req[r].doc} : table'[d] = table[d]
           /\ KeysKept /\ Rows' = Rows
<1>1. /\ req[r] \in StatusChange /\ req[r].doc \in Rows
      /\ table[req[r].doc].tenant = req[r].tenant
  BY RequestShape DEF IndInv, SavesOwnRow, Save
<1> DEFINE d == req[r].doc
           row == [tenant |-> table[d].tenant, hash |-> table[d].hash, status |-> req[r].target]
<1>2. table \in [Requests -> Row \cup {NoRow}] /\ d \in Requests /\ table[d] \in Row
  BY <1>1 DEF IndInv, CatalogTypeOK, Rows
<1>3. row \in Row /\ [table[d] EXCEPT !.status = req[r].target] = row
  BY <1>1, <1>2 DEF Row, StatusChange
<1>4. table' = [table EXCEPT ![d] = row]
  BY <1>3 DEF Save
<1>5. row # NoRow /\ row.tenant = table[d].tenant /\ row.hash = table[d].hash
  BY <1>3, CatalogAssumption
<1> HIDE DEF row, d
<1>6. /\ table'[d] = row /\ \A e \in Requests \ {d} : table'[e] = table[e]
      /\ table' \in [Requests -> Row \cup {NoRow}]
  BY <1>2, <1>3, <1>4
<1>7. KeysKept
  BY <1>5, <1>6 DEF KeysKept, Rows
<1>8. Rows' = Rows
  BY <1>1, <1>5, <1>6 DEF Rows, d
<1> QED
  BY <1>1, <1>6, <1>7, <1>8 DEF d

(* save and commit, answered or not. *)
LEMMA SaveStep ==
    ASSUME IndInv, NEW r \in Requests, Save(r)
    PROVE  IndInv'
<1>1. /\ req[r] \in StatusChange /\ KeysKept /\ Rows' = Rows
      /\ table' \in [Requests -> Row \cup {NoRow}]
  BY SaveRow
<1>2. OneDocumentPerContent'
  BY <1>1 DEF IndInv, KeysKept, OneDocumentPerContent
<1>3. r \notin Rows
  BY <1>1 DEF IndInv, IdsAreFresh, StatusChange
<1>4. PICK q \in {"done", "lost"} : GoTo(r, q)
  BY DEF Save
<1>5. /\ DOMAIN req' = Requests
      /\ \A s \in Requests \ {r} : req'[s] = req[s]
      /\ req'[r].at = q /\ req'[r] \in StatusChange
  BY <1>1, <1>4, CatalogAssumption, MovedRequest DEF IndInv
<1>6. req' \in [Requests -> Registration \cup StatusChange \cup {NoRequest}]
  BY <1>4, <1>5 DEF IndInv, CatalogTypeOK, GoTo
<1>7. req'[r] \notin Registration /\ req'[r] # NoRequest
  BY <1>5, CatalogAssumption DEF Registration, StatusChange
<1>8. CatalogTypeOK' /\ SameDocumentForAll' /\ SavesOwnRow' /\ IdsAreFresh'
  BY <1>1, <1>3, <1>5, <1>6, <1>7, UnansweredStep
<1> QED
  BY <1>2, <1>8 DEF IndInv

(* The invariant is inductive: one case per action. *)
LEMMA IndInvStep == IndInv /\ [Next]_vars => IndInv'
<1> SUFFICES ASSUME IndInv, [Next]_vars
             PROVE  IndInv'
  OBVIOUS
<1>1. CASE UNCHANGED vars
  BY <1>1 DEF vars, IndInv, CatalogTypeOK, OneDocumentPerContent, SameDocumentForAll,
              SavesOwnRow, IdsAreFresh, Rows, At, Answered
<1>2. ASSUME NEW r \in Requests, Step(r)
      PROVE  IndInv'
  <2>1. ASSUME NEW t \in Tenants, NEW h \in Hashes, Register(r, t, h)
        PROVE  IndInv'
    <3> DEFINE new == [op |-> "register", tenant |-> t, hash |-> h,
                       doc |-> NoAnswer, at |-> "find"]
    <3>1. new \in Registration /\ new.doc = NoAnswer /\ new.at = "find"
      BY DEF Registration
    <3>2. req[r] = NoRequest /\ req' = [req EXCEPT ![r] = new] /\ UNCHANGED table
      BY <2>1 DEF Register
    <3> HIDE DEF new
    <3> QED
      BY <3>1, <3>2, NewRequest
  <2>2. ASSUME NEW t \in Tenants, NEW d \in Requests, NEW s \in DocumentStatus,
               Change(r, t, d, s)
        PROVE  IndInv'
    <3> DEFINE new == [op |-> "change", tenant |-> t, doc |-> d, target |-> s, at |-> "load"]
    <3>1. new \in StatusChange /\ new.at = "load" /\ new \notin Registration
      BY DEF StatusChange, Registration
    <3>2. req[r] = NoRequest /\ req' = [req EXCEPT ![r] = new] /\ UNCHANGED table
      BY <2>2 DEF Change
    <3> HIDE DEF new
    <3> QED
      BY <3>1, <3>2, NewRequest
  <2>3. CASE InsertConflicts(r)
    BY <2>3, RequestShape, QuietMove DEF InsertConflicts, At, IndInv
  <2>4. CASE Load(r)
    <3>1. /\ req[r] \in StatusChange /\ req[r] # NoRequest
          /\ req[r].at \notin {"done", "lost"} /\ UNCHANGED table
      BY <2>4, RequestShape DEF Load, At, IndInv
    <3>2. CASE GoTo(r, "refused")
      BY <3>1, <3>2, QuietMove
    <3>3. CASE Readable(req[r].tenant, req[r].doc) /\ GoTo(r, "save")
      BY <3>1, <3>3, QuietMove DEF Readable
    <3> QED
      BY <2>4, <3>2, <3>3 DEF Load
  <2>5. CASE Abort(r)
    <3>1. /\ req[r] \in Registration \/ req[r] \in StatusChange
          /\ req[r] # NoRequest /\ req[r].at \notin {"done", "lost"}
          /\ UNCHANGED table /\ GoTo(r, "lost")
      BY <2>5, RequestShape DEF Abort, At, IndInv
    <3> QED
      BY <3>1, QuietMove
  <2> QED
    BY <1>2, <2>1, <2>2, <2>3, <2>4, <2>5, FindStep, InsertStep, SaveStep DEF Step
<1> QED
  BY <1>1, <1>2 DEF Next

(* So it holds whatever is requested, and in whatever order. *)
LEMMA IndInvHolds == Spec => []IndInv
  BY IndInvInit, IndInvStep, PTL DEF Spec

-----------------------------------------------------------------------------
(* The table and the requests stay well-formed, and a registration is      *)
(* answered with a document or not at all.                                 *)
THEOREM CatalogTypeCorrect == Spec => []CatalogTypeOK
  BY IndInvHolds, PTL DEF IndInv

(* README.md: identical content is never duplicated, however many          *)
(* registrations look before any of them inserts.                          *)
THEOREM ContentIsNotDuplicated == Spec => []OneDocumentPerContent
  BY IndInvHolds, PTL DEF IndInv

(* README.md: registration is idempotent by (tenant_id, content_hash), as  *)
(* far as it is answered.                                                  *)
THEOREM RegistrationIsIdempotent == Spec => []SameDocumentForAll
  BY IndInvHolds, PTL DEF IndInv

(* Although save writes by id alone, and what it writes was decided on an  *)
(* earlier read, a row is only ever changed on behalf of its own tenant,   *)
(* keeps its content, and stays.                                           *)
THEOREM RowsAreTheirTenants == Spec => RowsChangeByTheirTenant
<1> DEFINE A == \A d \in Rows :
         /\ table'[d] # NoRow
         /\ table'[d].tenant = table[d].tenant /\ table'[d].hash = table[d].hash
         /\ table'[d] # table[d] => \E r \in Requests :
              At(r, "change", "save") /\ req[r].doc = d /\ req[r].tenant = table[d].tenant
<1>1. IndInv /\ [Next]_vars => [A]_vars
  <2> SUFFICES ASSUME IndInv, NEW r \in Requests, Step(r)
               PROVE  A
    BY DEF Next
  <2>1. CASE UNCHANGED table
    BY <2>1 DEF Rows
  <2>2. CASE Insert(r)
    <3>1. r \notin Rows
      BY <2>2 DEF IndInv, IdsAreFresh, Insert, NewRow, At
    <3>2. \A d \in Rows : table'[d] = table[d]
      BY <2>2, <3>1 DEF Insert, NewRow, IndInv, CatalogTypeOK, Rows
    <3> QED
      BY <3>2 DEF Rows
  <2>3. CASE Save(r)
    <3>1. /\ table[req[r].doc].tenant = req[r].tenant /\ KeysKept
          /\ \A d \in Requests \ {req[r].doc} : table'[d] = table[d]
      BY <2>3, SaveRow
    <3> QED
      BY <2>3, <3>1 DEF KeysKept, Save, Rows
  <2> QED
    BY <2>1, <2>2, <2>3 DEF Step, Register, Change, Find, InsertConflicts, Load, Abort
<1> HIDE DEF A
<1>2. Spec => [][A]_vars
  BY <1>1, IndInvHolds, PTL DEF Spec
<1> QED
  BY <1>2 DEF A, RowsChangeByTheirTenant
=============================================================================
