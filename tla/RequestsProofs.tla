---------------------------- MODULE RequestsProofs --------------------------
(***************************************************************************)
(* Proofs about Requests.tla, for any number of requests and connections   *)
(* and either moment at which FastAPI closes a session. The invariant says *)
(* which sessions a handler may hold before each of its steps; that table  *)
(* is checked against the handlers once, and every action cites it.        *)
(***************************************************************************)
EXTENDS Requests, FiniteSetTheorems, TLAPS

(* The sessions a handler may have a connection for before step at. *)
Open(h, at) ==
    CASE h \in {"register", "delete"} -> IF at = 2 THEN {"uow"} ELSE {}
      [] h = "upload" -> (IF at \in 2..8 THEN {"read"} ELSE {})
                         \cup (IF at = 3 THEN {"uow"} ELSE {})
                         \cup (IF at = 5 THEN {"queue"} ELSE {})
      [] h = "read"   -> IF at \in 2..4 THEN {"read"} ELSE {}
      [] h = "search" -> IF at \in 2..5 THEN {"read"} ELSE {}
      [] h = "answer" -> IF at \in 4..8 THEN {"read"} ELSE {}
      [] h = "ready"  -> IF at = 2 THEN {"probe"} ELSE {}

(* The response of a handler has started before step at. *)
Told(h, at) ==
    \/ h = "upload" /\ at = 8
    \/ h = "read" /\ at = 4
    \/ h = "search" /\ at = 5
    \/ h = "answer" /\ at > 2

HoldsWhatIsOpen ==
    \A r \in Requests, s \in Sessions :
        Has(r, s) => s \in Open(request[r].handler, request[r].at)

StartedOnceTold ==
    \A r \in Requests : Told(request[r].handler, request[r].at) => Started(r)

IndInv == RequestsTypeOK /\ HoldsWhatIsOpen /\ StartedOnceTold

-----------------------------------------------------------------------------
(* Step at of a handler against the tables above, next being the step that *)
(* follows it, 0 after the last.                                           *)
Fits(h, at, next) ==
    LET step == Steps[h][at]
    IN  /\ step.session \in Sessions
        /\ step.do \in {"run", "commit", "close", "tell"}
        /\ step.do = "run" =>
             /\ Open(h, at) \cup {step.session} \subseteq Open(h, next)
             /\ Open(h, at) \ {step.session} \subseteq IF h = "upload" THEN {"read"} ELSE {}
        /\ step.do = "commit" =>
             step.what \in Writes /\ Open(h, at) \ {step.session} \subseteq Open(h, next)
        /\ step.do = "tell" =>
             step.what \in Events /\ Open(h, at) \subseteq Open(h, next)
        /\ step.do = "close" =>
             /\ Open(h, at) \ {step.session} \subseteq Open(h, next)
             /\ \/ step.when = {"early", "late"}
                \/ Told(h, at)
                \/ Open(h, at) \subseteq Open(h, next)
        /\ step.do # "tell" /\ Told(h, next) => Told(h, at)

NextStep(h, at) == IF at + 1 > Len(Steps[h]) THEN 0 ELSE at + 1

LEMMA StepsFit ==
    ASSUME NEW h \in Handlers, NEW at \in 1..8, at <= Len(Steps[h])
    PROVE  /\ Fits(h, at, NextStep(h, at))
           /\ NextStep(h, at) \in 0..8 /\ NextStep(h, at) <= Len(Steps[h])
<1> USE DEF Step, Run, Commit, Close, Tell, Sessions, Writes, Events, Fits, NextStep, Open, Told
<1>1. CASE h \in {"register", "delete"}
  <2>1. Steps[h] = Change
    BY <1>1 DEF Steps, Handlers
  <2>2. at \in {1, 2, 3}
    BY <2>1 DEF Change
  <2> QED
    BY <1>1, <2>1, <2>2 DEF Change
<1>2. CASE h = "upload"
  <2>1. Steps[h] = Upload
    BY <1>2 DEF Steps, Handlers
  <2> QED
    BY <1>2, <2>1 DEF Upload
<1>3. CASE h = "read"
  <2>1. Steps[h] = Read
    BY <1>3 DEF Steps, Handlers
  <2> QED
    BY <1>3, <2>1 DEF Read
<1>4. CASE h = "search"
  <2>1. Steps[h] = Search
    BY <1>4 DEF Steps, Handlers
  <2> QED
    BY <1>4, <2>1 DEF Search
<1>5. CASE h = "answer"
  <2>1. Steps[h] = Answer
    BY <1>5 DEF Steps, Handlers
  <2> QED
    BY <1>5, <2>1 DEF Answer
<1>6. CASE h = "ready"
  <2>1. Steps[h] = Ready
    BY <1>6 DEF Steps, Handlers
  <2> QED
    BY <1>6, <2>1 DEF Ready
<1> QED
  BY <1>1, <1>2, <1>3, <1>4, <1>5, <1>6 DEF Handlers

-----------------------------------------------------------------------------
RequestRecord == [handler : Handlers, at : 0..8, done : SUBSET Writes, told : Seq(Events)]

(* A request that has ended may hold nothing. *)
LEMMA NothingOpenAtTheEnd ==
    ASSUME NEW h \in Handlers
    PROVE  Open(h, 0) = {} /\ ~Told(h, 0)
  BY DEF Open, Told, Handlers

(* A connection belongs to one session of one request, or to nobody. *)
LEMMA OwnedBySession ==
    ASSUME RequestsTypeOK, NEW c \in Connections, owner[c] \notin {Free, Lost}
    PROVE  /\ owner[c] \in Requests \X Sessions
           /\ owner[c] = <<owner[c][1], owner[c][2]>>
           /\ owner[c][1] \in Requests /\ owner[c][2] \in Sessions
  BY DEF RequestsTypeOK, Owners

(* A step of request r: it becomes new, and holds what new may hold. *)
LEMMA StepKeepsInv ==
    ASSUME IndInv, NEW r \in Requests, NEW new \in RequestRecord,
           request' = [request EXCEPT ![r] = new], closing' = closing,
           new.at <= Len(Steps[new.handler]),
           Told(new.handler, new.at) => new.told # <<>>,
           owner' \in [Connections -> Owners],
           \A c \in Connections, q \in Requests \ {r}, s \in Sessions :
               owner'[c] = <<q, s>> => owner[c] = <<q, s>>,
           \A c \in Connections, s \in Sessions :
               owner'[c] = <<r, s>> => s \in Open(new.handler, new.at),
           \A c, d \in Connections, s \in Sessions :
               owner'[c] = <<r, s>> /\ owner'[d] = <<r, s>> => c = d
    PROVE  IndInv'
<1>1. /\ request' \in [Requests -> RequestRecord]
      /\ request'[r] = new /\ \A q \in Requests \ {r} : request'[q] = request[q]
  BY DEF IndInv, RequestsTypeOK, RequestRecord
<1>2. HoldsWhatIsOpen'
  BY <1>1 DEF IndInv, HoldsWhatIsOpen, Has
<1>3. StartedOnceTold'
  BY <1>1 DEF IndInv, StartedOnceTold, Started
<1>4. ASSUME NEW c \in Connections, owner'[c] \notin {Free, Lost}
      PROVE  /\ request'[owner'[c][1]].at > 0
             /\ \A d \in Connections : owner'[d] = owner'[c] => d = c
  <2>1. PICK q \in Requests, s \in Sessions : owner'[c] = <<q, s>>
    BY <1>4 DEF Owners
  <2>2. s \in Open(request'[q].handler, request'[q].at)
    BY <1>2, <2>1 DEF HoldsWhatIsOpen, Has
  <2>3. request'[q].at # 0
    BY <1>1, <2>2, NothingOpenAtTheEnd DEF RequestRecord
  <2>4. CASE q = r
    BY <1>1, <2>1, <2>3, <2>4 DEF RequestRecord
  <2>5. CASE q # r
    <3>1. owner[c] = <<q, s>> /\ \A d \in Connections : owner'[d] = <<q, s>> => owner[d] = <<q, s>>
      BY <2>1, <2>5
    <3>2. owner[c] \notin {Free, Lost}
      BY <3>1, PoolAssumption
    <3>3. \A d \in Connections : owner[d] = owner[c] => d = c
      BY <3>2 DEF IndInv, RequestsTypeOK
    <3> QED
      BY <1>1, <2>1, <2>3, <3>1, <3>3 DEF RequestRecord
  <2> QED
    BY <2>4, <2>5
<1>5. RequestsTypeOK'
  <2>1. \A q \in Requests : request'[q].at <= Len(Steps[request'[q].handler])
    BY <1>1 DEF IndInv, RequestsTypeOK
  <2>2. closing' \in {"early", "late"}
    BY DEF IndInv, RequestsTypeOK
  <2> QED
    BY <1>1, <1>4, <2>1, <2>2 DEF RequestsTypeOK, RequestRecord, InProgress
<1> QED
  BY <1>2, <1>3, <1>5 DEF IndInv

(* What r has before a step, in the terms of the lemma above. *)
LEMMA HeldBefore ==
    ASSUME IndInv, NEW r \in Requests
    PROVE  /\ request[r] \in RequestRecord
           /\ owner \in [Connections -> Owners]
           /\ \A c \in Connections, s \in Sessions :
                owner[c] = <<r, s>> => s \in Open(request[r].handler, request[r].at)
           /\ \A c, d \in Connections, s \in Sessions :
                owner[c] = <<r, s>> /\ owner[d] = <<r, s>> => c = d
<1>1. request[r] \in RequestRecord /\ owner \in [Connections -> Owners]
  BY DEF IndInv, RequestsTypeOK, RequestRecord
<1>2. ASSUME NEW c \in Connections, NEW s \in Sessions, owner[c] = <<r, s>>
      PROVE  s \in Open(request[r].handler, request[r].at)
  BY <1>2 DEF IndInv, HoldsWhatIsOpen, Has
<1>3. ASSUME NEW c \in Connections, NEW d \in Connections, NEW s \in Sessions,
             owner[c] = <<r, s>>, owner[d] = <<r, s>>
      PROVE  c = d
  <2>1. owner[c] \notin {Free, Lost}
    BY <1>3, PoolAssumption
  <2> QED
    BY <1>3, <2>1 DEF IndInv, RequestsTypeOK
<1> QED
  BY <1>1, <1>2, <1>3

(* A session that is closed, or commits, holds no connection any more. *)
LEMMA GivenBack ==
    ASSUME IndInv, NEW r \in Requests, NEW s \in Sessions, GiveBack(r, s)
    PROVE  /\ owner' \in [Connections -> Owners]
           /\ \A c \in Connections, q \in Requests, t \in Sessions :
                owner'[c] = <<q, t>> => owner[c] = <<q, t>> /\ ~(q = r /\ t = s)
  BY PoolAssumption DEF GiveBack, IndInv, RequestsTypeOK, Owners

(* A request whose handler is left holds nothing any more. *)
LEMMA Abandoned ==
    ASSUME IndInv, NEW r \in Requests, Abandon(r)
    PROVE  /\ owner' \in [Connections -> Owners]
           /\ \A c \in Connections, q \in Requests, t \in Sessions :
                owner'[c] = <<q, t>> => owner[c] = <<q, t>> /\ q # r
<1>1. ASSUME NEW c \in Connections
      PROVE  \/ owner'[c] \in {Free, Lost}
             \/ owner'[c] = owner[c] /\ \A s \in Sessions : owner[c] # <<r, s>>
  BY DEF Abandon
<1>2. owner \in [Connections -> Owners]
  BY DEF IndInv, RequestsTypeOK
<1>3. owner' \in [Connections -> Owners]
  BY <1>1, <1>2 DEF Abandon, Owners
<1> QED
  BY <1>1, <1>3, PoolAssumption

(* A request goes on by one step. *)
LEMMA AdvanceFits ==
    ASSUME IndInv, NEW r \in Requests, InProgress(r)
    PROVE  LET h == request[r].handler
               at == request[r].at
           IN  /\ h \in Handlers /\ at \in 1..8 /\ at <= Len(Steps[h])
               /\ Fits(h, at, NextStep(h, at))
               /\ Advance(r, 1) \in RequestRecord
               /\ Advance(r, 1) = [request[r] EXCEPT !.at = NextStep(h, at)]
               /\ NextStep(h, at) <= Len(Steps[h])
<1>1. request[r] \in RequestRecord /\ request[r].at <= Len(Steps[request[r].handler])
  BY DEF IndInv, RequestsTypeOK, RequestRecord
<1>2. request[r].handler \in Handlers /\ request[r].at \in 1..8
  BY <1>1 DEF RequestRecord, InProgress
<1>3. Advance(r, 1) = [request[r] EXCEPT !.at = NextStep(request[r].handler, request[r].at)]
  BY DEF Advance, NextStep
<1> QED
  BY <1>1, <1>2, <1>3, StepsFit DEF RequestRecord

-----------------------------------------------------------------------------
LEMMA AskKeepsInv ==
    ASSUME IndInv, NEW r \in Requests, Ask(r)
    PROVE  IndInv'
<1>1. PICK h \in Handlers : request' = [request EXCEPT ![r] =
                              [handler |-> h, at |-> 1, done |-> {}, told |-> <<>>]]
  BY PoolAssumption DEF Ask
<1> DEFINE new == [handler |-> h, at |-> 1, done |-> {}, told |-> <<>>]
<1>2. new \in RequestRecord
  BY DEF RequestRecord
<1>3. 1 <= Len(Steps[h]) /\ ~Told(h, 1)
  BY DEF Steps, Handlers, Change, Upload, Read, Search, Answer, Ready, Told
<1>4. \A c \in Connections, s \in Sessions : owner[c] # <<r, s>>
  <2>1. request[r].at = 0 /\ request[r].handler \in Handlers
    BY HeldBefore DEF Ask, InProgress, RequestRecord
  <2> QED
    BY <2>1, HeldBefore, NothingOpenAtTheEnd
<1>5. owner' = owner /\ closing' = closing
  BY DEF Ask
<1>6. owner' \in [Connections -> Owners]
  BY <1>5 DEF IndInv, RequestsTypeOK
<1> QED
  BY <1>1, <1>2, <1>3, <1>4, <1>5, <1>6, StepKeepsInv

LEMMA RunKeepsInv ==
    ASSUME IndInv, NEW r \in Requests, RunStep(r)
    PROVE  IndInv'
<1> DEFINE h == request[r].handler
           at == request[r].at
           new == Advance(r, 1)
<1>1. InProgress(r) /\ Now(r) = Steps[h][at] /\ Now(r).do = "run"
  BY DEF RunStep, Does, Now
<1>2. /\ Now(r).session \in Sessions
      /\ Open(h, at) \cup {Now(r).session} \subseteq Open(new.handler, new.at)
      /\ Told(new.handler, new.at) => Told(h, at)
      /\ new \in RequestRecord /\ new.at <= Len(Steps[new.handler])
      /\ new.handler = h /\ new.told = request[r].told
  BY <1>1, AdvanceFits, HeldBefore DEF Fits, RequestRecord
<1>3. Told(new.handler, new.at) => new.told # <<>>
  BY <1>2 DEF IndInv, StartedOnceTold, Started
<1>4. /\ owner' \in [Connections -> Owners]
      /\ \A c \in Connections, q \in Requests \ {r}, s \in Sessions :
           owner'[c] = <<q, s>> => owner[c] = <<q, s>>
      /\ \A c \in Connections, s \in Sessions :
           owner'[c] = <<r, s>> => s \in Open(h, at) \/ s = Now(r).session
      /\ \A c, d \in Connections, s \in Sessions :
           owner'[c] = <<r, s>> /\ owner'[d] = <<r, s>> => c = d
  <2>1. CASE UNCHANGED owner
    BY <2>1, HeldBefore
  <2>2. CASE Waits(r) /\ ~UNCHANGED owner
    <3>1. PICK f \in Connections : /\ owner[f] = Free
                                   /\ owner' = [owner EXCEPT ![f] = <<r, Now(r).session>>]
      BY <2>2 DEF RunStep
    <3>2. \A c \in Connections : owner[c] # <<r, Now(r).session>>
      BY <2>2 DEF Waits, Has
    <3> QED
      BY <1>2, <3>1, <3>2, HeldBefore DEF Owners
  <2> QED
    BY <2>1, <2>2 DEF RunStep
<1>5. request' = [request EXCEPT ![r] = new] /\ closing' = closing
  BY DEF RunStep
<1>6. \A c \in Connections, s \in Sessions :
         owner'[c] = <<r, s>> => s \in Open(new.handler, new.at)
  BY <1>2, <1>4
<1> HIDE DEF new
<1> QED
  BY <1>2, <1>3, <1>4, <1>5, <1>6, StepKeepsInv

(* A request that skips to a later step of its handler. *)
LEMMA SkippingFits ==
    ASSUME IndInv, NEW r \in Requests, NEW n \in 1..2,
           request[r].at + n <= Len(Steps[request[r].handler])
    PROVE  /\ Advance(r, n) \in RequestRecord
           /\ Advance(r, n).at = request[r].at + n
           /\ Advance(r, n).at <= Len(Steps[Advance(r, n).handler])
           /\ Advance(r, n).handler = request[r].handler
           /\ Advance(r, n).done = request[r].done
           /\ Advance(r, n).told = request[r].told
<1>1. /\ request[r] \in RequestRecord
      /\ request[r].handler \in Handlers /\ request[r].at \in 0..8
  BY HeldBefore DEF RequestRecord
<1>2. Len(Steps[request[r].handler]) \in 0..8
  BY <1>1 DEF Steps, Handlers, Change, Upload, Read, Search, Answer, Ready
<1>3. Advance(r, n) = [request[r] EXCEPT !.at = request[r].at + n]
  BY <1>1, <1>2 DEF Advance
<1>4. request[r].at + n \in 0..8
  <2> DEFINE count == Len(Steps[request[r].handler])
  <2>1. count \in 0..8 /\ request[r].at + n <= count
    BY <1>2
  <2> HIDE DEF count
  <2> QED
    BY <1>1, <2>1
<1> QED
  BY <1>1, <1>3, <1>4 DEF RequestRecord

LEMMA CacheHitKeepsInv ==
    ASSUME IndInv, NEW r \in Requests, CacheHit(r)
    PROVE  IndInv'
<1> DEFINE h == request[r].handler
           at == request[r].at
           new == Advance(r, 2)
<1>1. (h = "search" /\ at = 1) \/ (h = "answer" /\ at = 3)
  BY DEF CacheHit
<1>2. at + 2 <= Len(Steps[h])
  <2>1. CASE h = "search" /\ at = 1
    BY <2>1 DEF Steps, Handlers, Search
  <2>2. CASE h = "answer" /\ at = 3
    BY <2>2 DEF Steps, Handlers, Answer
  <2> QED
    BY <1>1, <2>1, <2>2
<1>3. /\ new \in RequestRecord /\ new.at <= Len(Steps[new.handler])
      /\ new.at = at + 2 /\ new.handler = h /\ new.told = request[r].told
  BY <1>2, SkippingFits
<1>4. Told(new.handler, new.at) => new.told # <<>>
  <2>1. Told(new.handler, new.at) => Told(h, at)
    BY <1>1, <1>3 DEF Told
  <2> QED
    BY <1>3, <2>1 DEF IndInv, StartedOnceTold, Started
<1>5. request' = [request EXCEPT ![r] = new] /\ closing' = closing /\ owner' = owner
  BY DEF CacheHit
<1>6. \A c \in Connections, s \in Sessions : owner'[c] # <<r, s>>
  <2>1. Open(h, at) = {}
    BY <1>1 DEF Open
  <2> QED
    BY <1>5, <2>1, HeldBefore
<1>7. owner' \in [Connections -> Owners]
  BY <1>5, HeldBefore
<1>8. \A c \in Connections, q \in Requests \ {r}, s \in Sessions :
         owner'[c] = <<q, s>> => owner[c] = <<q, s>>
  BY <1>5
<1> HIDE DEF new
<1> QED
  BY <1>3, <1>4, <1>5, <1>6, <1>7, <1>8, StepKeepsInv

LEMMA FindExistingKeepsInv ==
    ASSUME IndInv, NEW r \in Requests, FindExisting(r)
    PROVE  IndInv'
<1> DEFINE new == [Advance(r, 1) EXCEPT !.done = {"document"}]
<1>1. request[r].handler = "register" /\ request[r].at = 2
  BY DEF FindExisting
<1>2. request[r].at + 1 <= Len(Steps[request[r].handler])
  BY <1>1 DEF Steps, Handlers, Change
<1>3. new \in RequestRecord /\ new.handler = "register" /\ new.at = 3
  BY <1>1, <1>2, SkippingFits DEF RequestRecord, Writes
<1>4. new.at <= Len(Steps[new.handler])
  <2>1. new.at = Advance(r, 1).at /\ new.handler = Advance(r, 1).handler
    BY <1>2, SkippingFits DEF RequestRecord
  <2> QED
    BY <1>2, <2>1, SkippingFits
<1>5. ~Told(new.handler, new.at)
  BY <1>3 DEF Told
<1>6. GiveBack(r, "uow") /\ "uow" \in Sessions
  BY DEF FindExisting, Sessions
<1>7. Open(request[r].handler, request[r].at) = {"uow"}
  BY <1>1 DEF Open
<1>8. \A c \in Connections, s \in Sessions : owner'[c] # <<r, s>>
  BY <1>6, <1>7, GivenBack, HeldBefore
<1>9. /\ owner' \in [Connections -> Owners]
      /\ \A c \in Connections, q \in Requests \ {r}, s \in Sessions :
           owner'[c] = <<q, s>> => owner[c] = <<q, s>>
  BY <1>6, GivenBack
<1>10. request' = [request EXCEPT ![r] = new] /\ closing' = closing
  BY DEF FindExisting
<1> HIDE DEF new
<1> QED
  BY <1>3, <1>4, <1>5, <1>8, <1>9, <1>10, StepKeepsInv

LEMMA CommitKeepsInv ==
    ASSUME IndInv, NEW r \in Requests, CommitStep(r)
    PROVE  IndInv'
<1> DEFINE h == request[r].handler
           at == request[r].at
           new == [Advance(r, 1) EXCEPT !.done = @ \cup {Now(r).what}]
<1>1. InProgress(r) /\ Now(r) = Steps[h][at] /\ Now(r).do = "commit"
  BY DEF CommitStep, Does, Now
<1>2. /\ Now(r).session \in Sessions /\ Now(r).what \in Writes
      /\ Open(h, at) \ {Now(r).session} \subseteq Open(h, NextStep(h, at))
      /\ Told(h, NextStep(h, at)) => Told(h, at)
      /\ NextStep(h, at) <= Len(Steps[h])
      /\ Advance(r, 1) \in RequestRecord
      /\ Advance(r, 1) = [request[r] EXCEPT !.at = NextStep(h, at)]
  BY <1>1, AdvanceFits DEF Fits
<1>3. new \in RequestRecord /\ new.handler = h /\ new.at = NextStep(h, at) /\ new.told = request[r].told
  BY <1>2, HeldBefore DEF RequestRecord
<1>4. Told(new.handler, new.at) => new.told # <<>>
  BY <1>2, <1>3 DEF IndInv, StartedOnceTold, Started
<1>5. GiveBack(r, Now(r).session)
  BY DEF CommitStep
<1>6. \A c \in Connections, s \in Sessions :
         owner'[c] = <<r, s>> => s \in Open(new.handler, new.at)
  BY <1>2, <1>3, <1>5, GivenBack, HeldBefore
<1>7. request' = [request EXCEPT ![r] = new] /\ closing' = closing
  BY DEF CommitStep
<1>8. new.at <= Len(Steps[new.handler])
  BY <1>2, <1>3
<1>9. /\ owner' \in [Connections -> Owners]
      /\ \A c \in Connections, q \in Requests, s \in Sessions :
           owner'[c] = <<q, s>> => owner[c] = <<q, s>>
  BY <1>2, <1>5, GivenBack
<1>10. \A c, d \in Connections, s \in Sessions :
         owner'[c] = <<r, s>> /\ owner'[d] = <<r, s>> => c = d
  BY <1>9, HeldBefore
<1> HIDE DEF new
<1> QED
  BY <1>3, <1>4, <1>6, <1>7, <1>8, <1>9, <1>10, StepKeepsInv

LEMMA CloseKeepsInv ==
    ASSUME IndInv, NEW r \in Requests, CloseStep(r)
    PROVE  IndInv'
<1> DEFINE h == request[r].handler
           at == request[r].at
           new == Advance(r, 1)
<1>1. InProgress(r) /\ Now(r) = Steps[h][at] /\ Now(r).do = "close"
  BY DEF CloseStep, Does, Now
<1>2. /\ Now(r).session \in Sessions
      /\ Open(h, at) \ {Now(r).session} \subseteq Open(h, NextStep(h, at))
      /\ \/ Now(r).when = {"early", "late"}
         \/ Told(h, at)
         \/ Open(h, at) \subseteq Open(h, NextStep(h, at))
      /\ Told(h, NextStep(h, at)) => Told(h, at)
      /\ NextStep(h, at) <= Len(Steps[h])
      /\ new \in RequestRecord
      /\ new = [request[r] EXCEPT !.at = NextStep(h, at)]
  BY <1>1, AdvanceFits DEF Fits
<1>3. new.handler = h /\ new.at = NextStep(h, at) /\ new.told = request[r].told
  BY <1>2, HeldBefore DEF RequestRecord
<1>4. Told(h, at) => Started(r)
  BY DEF IndInv, StartedOnceTold
<1>5. /\ owner' \in [Connections -> Owners]
      /\ \A c \in Connections, q \in Requests, s \in Sessions :
           owner'[c] = <<q, s>> => owner[c] = <<q, s>>
      /\ \A c \in Connections, s \in Sessions :
           owner'[c] = <<r, s>> => s \in Open(h, NextStep(h, at))
  <2>1. CASE closing \in Now(r).when
    <3>1. GiveBack(r, Now(r).session)
      BY <2>1 DEF CloseStep
    <3> QED
      BY <1>2, <3>1, GivenBack, HeldBefore
  <2>2. CASE closing \notin Now(r).when /\ Started(r)
    <3>1. Abandon(r)
      BY <2>2 DEF CloseStep
    <3> QED
      BY <3>1, Abandoned
  <2>3. CASE closing \notin Now(r).when /\ ~Started(r)
    <3>1. owner' = owner
      BY <2>3 DEF CloseStep
    <3>2. Now(r).when # {"early", "late"}
      BY <2>3 DEF IndInv, RequestsTypeOK
    <3>3. Open(h, at) \subseteq Open(h, NextStep(h, at))
      BY <1>2, <1>4, <2>3, <3>2
    <3> QED
      BY <3>1, <3>3, HeldBefore
  <2> QED
    BY <2>1, <2>2, <2>3
<1>6. Told(new.handler, new.at) => new.told # <<>>
  BY <1>2, <1>3, <1>4 DEF Started
<1>7. request' = [request EXCEPT ![r] = new] /\ closing' = closing
  BY DEF CloseStep
<1>8. new.at <= Len(Steps[new.handler])
  BY <1>2, <1>3
<1>9. \A c \in Connections, s \in Sessions :
         owner'[c] = <<r, s>> => s \in Open(new.handler, new.at)
  BY <1>3, <1>5
<1>10. \A c, d \in Connections, s \in Sessions :
         owner'[c] = <<r, s>> /\ owner'[d] = <<r, s>> => c = d
  BY <1>5, HeldBefore
<1> HIDE DEF new
<1> QED
  BY <1>2, <1>5, <1>6, <1>7, <1>8, <1>9, <1>10, StepKeepsInv

LEMMA TellKeepsInv ==
    ASSUME IndInv, NEW r \in Requests, TellStep(r)
    PROVE  IndInv'
<1> DEFINE h == request[r].handler
           at == request[r].at
           new == [Advance(r, 1) EXCEPT !.told = Append(@, Now(r).what)]
<1>1. InProgress(r) /\ Now(r) = Steps[h][at] /\ Now(r).do = "tell"
  BY DEF TellStep, Does, Now
<1>2. /\ Now(r).what \in Events
      /\ Open(h, at) \subseteq Open(h, NextStep(h, at))
      /\ NextStep(h, at) <= Len(Steps[h])
      /\ Advance(r, 1) \in RequestRecord
      /\ Advance(r, 1) = [request[r] EXCEPT !.at = NextStep(h, at)]
  BY <1>1, AdvanceFits DEF Fits
<1>3. /\ new \in RequestRecord /\ new.handler = h /\ new.at = NextStep(h, at)
      /\ new.told # <<>>
  <2>1. request[r] \in RequestRecord /\ request[r].told \in Seq(Events)
    BY HeldBefore DEF RequestRecord
  <2> DEFINE told == Append(request[r].told, Now(r).what)
  <2>2. told \in Seq(Events) /\ told # <<>>
    BY <1>2, <2>1
  <2>3. new = [Advance(r, 1) EXCEPT !.told = told]
    BY <1>2, <2>1 DEF RequestRecord
  <2> HIDE DEF told
  <2> QED
    BY <1>2, <2>1, <2>2, <2>3 DEF RequestRecord
<1>4. request' = [request EXCEPT ![r] = new] /\ closing' = closing /\ owner' = owner
  BY DEF TellStep
<1>5. \A c \in Connections, s \in Sessions :
         owner'[c] = <<r, s>> => s \in Open(new.handler, new.at)
  BY <1>2, <1>3, <1>4, HeldBefore
<1>6. new.at <= Len(Steps[new.handler])
  BY <1>2, <1>3
<1>7. owner' \in [Connections -> Owners]
  BY <1>4, HeldBefore
<1>8. \A c, d \in Connections, s \in Sessions :
         owner'[c] = <<r, s>> /\ owner'[d] = <<r, s>> => c = d
  BY <1>4, HeldBefore
<1> HIDE DEF new
<1> QED
  BY <1>3, <1>4, <1>5, <1>6, <1>7, <1>8, StepKeepsInv

(* However a request ends before its last step, it holds nothing then. *)
LEMMA EndingKeepsInv ==
    ASSUME IndInv, NEW r \in Requests, Abandon(r), UNCHANGED closing,
           NEW done \in SUBSET Writes, NEW told \in Seq(Events),
           request' = [request EXCEPT ![r] = Ended(r, done, told)]
    PROVE  IndInv'
<1> DEFINE new == Ended(r, done, told)
<1>1. new \in RequestRecord /\ new.at = 0 /\ new.handler \in Handlers
  <2>1. request[r].handler \in Handlers
    BY HeldBefore DEF RequestRecord
  <2> QED
    BY <2>1 DEF RequestRecord, Ended
<1>2. ~Told(new.handler, new.at)
  BY <1>1, NothingOpenAtTheEnd
<1>3. new.at <= Len(Steps[new.handler])
  BY <1>1 DEF Steps, Handlers, Change, Upload, Read, Search, Answer, Ready
<1>4. request' = [request EXCEPT ![r] = new] /\ closing' = closing
  BY DEF Ended
<1>5. \A c \in Connections, s \in Sessions : owner'[c] # <<r, s>>
  BY Abandoned
<1>6. /\ owner' \in [Connections -> Owners]
      /\ \A c \in Connections, q \in Requests \ {r}, s \in Sessions :
           owner'[c] = <<q, s>> => owner[c] = <<q, s>>
  BY Abandoned
<1>7. Told(new.handler, new.at) => new.told # <<>>
  BY <1>2
<1>8. \A c \in Connections, s \in Sessions :
         owner'[c] = <<r, s>> => s \in Open(new.handler, new.at)
  BY <1>5
<1>9. \A c, d \in Connections, s \in Sessions :
         owner'[c] = <<r, s>> /\ owner'[d] = <<r, s>> => c = d
  BY <1>5
<1> HIDE DEF new
<1> QED
  BY <1>1, <1>3, <1>4, <1>6, <1>7, <1>8, <1>9, StepKeepsInv

LEMMA FailingKeepsInv ==
    ASSUME IndInv, NEW r \in Requests,
           Refuse(r) \/ DatabaseFails(r) \/ PoolTimeout(r) \/ Leave(r)
    PROVE  IndInv'
<1>1. request[r].done \in SUBSET Writes /\ request[r].told \in Seq(Events)
  BY HeldBefore DEF RequestRecord
<1>2. ASSUME NEW done \in SUBSET Writes, Fails(r, done) PROVE IndInv'
  <2>1. Failure(r) \in Events
    BY DEF Failure, Events
  <2>2. Append(request[r].told, Failure(r)) \in Seq(Events)
    BY <1>1, <2>1
  <2> QED
    BY <1>2, <2>2, EndingKeepsInv DEF Fails
<1>3. CASE Refuse(r)
  <2>1. <<"4xx">> \in Seq(Events)
    BY DEF Events
  <2> QED
    BY <1>1, <1>3, <2>1, EndingKeepsInv DEF Refuse
<1>4. CASE DatabaseFails(r)
  <2>1. CASE Does(r, "run") /\ Fails(r, request[r].done)
    BY <1>1, <1>2, <2>1
  <2>2. CASE Does(r, "commit") /\ \E made \in {{}, {Now(r).what}} :
                                    Fails(r, request[r].done \cup made)
    <3>1. Now(r).what \in Writes
      BY <2>2, AdvanceFits DEF Does, Now, Fits
    <3> QED
      BY <1>1, <1>2, <2>2, <3>1
  <2> QED
    BY <1>4, <2>1, <2>2 DEF DatabaseFails
<1>5. CASE PoolTimeout(r)
  BY <1>1, <1>2, <1>5 DEF PoolTimeout
<1>6. CASE Leave(r)
  BY <1>1, <1>6, EndingKeepsInv DEF Leave
<1> QED
  BY <1>3, <1>4, <1>5, <1>6

LEMMA CollectKeepsInv ==
    ASSUME IndInv, NEW c \in Connections, Collect(c)
    PROVE  IndInv'
<1>1. owner' \in [Connections -> Owners]
  BY DEF IndInv, RequestsTypeOK, Collect, Owners
<1>2. \A d \in Connections : owner'[d] # Free => owner'[d] = owner[d]
  BY DEF IndInv, RequestsTypeOK, Collect
<1>3. \A d, e \in Connections : owner'[d] \notin {Free, Lost} /\ owner'[e] = owner'[d] => e = d
  BY <1>2 DEF IndInv, RequestsTypeOK
<1>4. \A d \in Connections : owner'[d] \notin {Free, Lost} => request[owner'[d][1]].at > 0
  BY <1>2 DEF IndInv, RequestsTypeOK, InProgress
<1>5. \A r \in Requests, s \in Sessions, d \in Connections :
         owner'[d] = <<r, s>> => owner[d] = <<r, s>>
  <2> SUFFICES ASSUME NEW r \in Requests, NEW s \in Sessions, NEW d \in Connections,
                      owner'[d] = <<r, s>>
               PROVE  owner[d] = <<r, s>>
    OBVIOUS
  <2>1. <<r, s>> # Free
    BY PoolAssumption
  <2> QED
    BY <1>2, <2>1
<1>6. request' = request /\ closing' = closing
  BY DEF Collect
<1>7. RequestsTypeOK'
  BY <1>1, <1>3, <1>4, <1>6 DEF IndInv, RequestsTypeOK, InProgress
<1>8. HoldsWhatIsOpen' /\ StartedOnceTold'
  BY <1>5, <1>6 DEF IndInv, HoldsWhatIsOpen, StartedOnceTold, Has, Started
<1> QED
  BY <1>7, <1>8 DEF IndInv

-----------------------------------------------------------------------------
LEMMA IndInvInit == Init => IndInv
<1> SUFFICES ASSUME Init PROVE IndInv
  OBVIOUS
<1>1. RequestsTypeOK
  BY DEF Init, RequestsTypeOK, Handlers, Owners, Steps, Read
<1>2. HoldsWhatIsOpen
  BY PoolAssumption DEF Init, HoldsWhatIsOpen, Has
<1>3. StartedOnceTold
  BY DEF Init, StartedOnceTold, Told
<1> QED
  BY <1>1, <1>2, <1>3 DEF IndInv

LEMMA IndInvNext == IndInv /\ [Next]_vars => IndInv'
<1> SUFFICES ASSUME IndInv, [Next]_vars PROVE IndInv'
  OBVIOUS
<1>1. ASSUME NEW r \in Requests, Ask(r) PROVE IndInv'
  BY <1>1, AskKeepsInv
<1>2. ASSUME NEW r \in Requests, Serve(r) PROVE IndInv'
  BY <1>2, RunKeepsInv, CacheHitKeepsInv, FindExistingKeepsInv, CommitKeepsInv,
     CloseKeepsInv, TellKeepsInv, FailingKeepsInv DEF Serve
<1>3. ASSUME NEW r \in Requests, Refuse(r) \/ DatabaseFails(r) \/ Leave(r) PROVE IndInv'
  BY <1>3, FailingKeepsInv
<1>4. ASSUME NEW c \in Connections, Collect(c) PROVE IndInv'
  BY <1>4, CollectKeepsInv
<1>5. CASE UNCHANGED vars
  BY <1>5 DEF vars, IndInv, RequestsTypeOK, HoldsWhatIsOpen, StartedOnceTold,
              Has, Started, InProgress
<1> QED
  BY <1>1, <1>2, <1>3, <1>4, <1>5 DEF Next

(* The pool and the requests stay well-formed: a connection belongs to one *)
(* session of one request in progress, to nobody, or is lost.              *)
THEOREM RequestsTypeCorrect == Spec => []RequestsTypeOK
<1>1. IndInv => RequestsTypeOK
  BY DEF IndInv
<1> QED
  BY <1>1, IndInvInit, IndInvNext, PTL DEF Spec

-----------------------------------------------------------------------------
(* A request that waits for a connection has none, unless it is an upload, *)
(* which may have that of its read session.                                *)
LEMMA OnlyUploadsWaitWithAConnection ==
    ASSUME IndInv, NEW r \in Requests, Waits(r), NEW s \in Sessions, Has(r, s)
    PROVE  r \in Uploads /\ s = "read"
<1> DEFINE h == request[r].handler
           at == request[r].at
<1>1. InProgress(r) /\ Now(r) = Steps[h][at] /\ Now(r).do = "run" /\ s # Now(r).session
  BY DEF Waits, Does, Now
<1>2. Open(h, at) \ {Now(r).session} \subseteq IF h = "upload" THEN {"read"} ELSE {}
  BY <1>1, AdvanceFits DEF Fits
<1>3. s \in Open(h, at)
  BY DEF IndInv, HoldsWhatIsOpen
<1> QED
  BY <1>1, <1>2, <1>3 DEF Uploads

(* A process in which nobody can go on serves as many uploads as it has    *)
(* connections: each connection is with a different one.                   *)
LEMMA StallNeedsUploads == IndInv => FewUploadsNeverStall
<1> SUFFICES ASSUME IndInv,
                    \A c \in Connections : owner[c] \notin {Free, Lost} /\ Waits(owner[c][1])
             PROVE  ~(Cardinality(Uploads) < Cardinality(Connections))
  BY DEF FewUploadsNeverStall
<1> DEFINE f == [c \in Connections |-> owner[c][1]]
<1>1. ASSUME NEW c \in Connections
      PROVE  owner[c][1] \in Uploads /\ owner[c] = <<owner[c][1], "read">>
  <2>1. /\ owner[c] = <<owner[c][1], owner[c][2]>>
        /\ owner[c][1] \in Requests /\ owner[c][2] \in Sessions
    BY OwnedBySession DEF IndInv
  <2>2. Has(owner[c][1], owner[c][2]) /\ Waits(owner[c][1])
    BY <2>1 DEF Has
  <2> QED
    BY <2>1, <2>2, OnlyUploadsWaitWithAConnection
<1>2. f \in [Connections -> Uploads]
  BY <1>1
<1>3. ASSUME NEW c \in Connections, NEW d \in Connections, f[c] = f[d]
      PROVE  c = d
  <2>1. owner[c] = owner[d]
    BY <1>1, <1>3
  <2> QED
    BY <2>1 DEF IndInv, RequestsTypeOK
<1>4. IsFiniteSet(Connections) /\ IsFiniteSet(Uploads)
  BY PoolAssumption, FS_Subset DEF Uploads
<1>5. f \in Injection(Connections, Uploads)
  BY <1>2, <1>3 DEF Injection, IsInjective
<1> HIDE DEF f
<1>6. Cardinality(Connections) <= Cardinality(Uploads)
  BY <1>4, <1>5, FS_Injection
<1>7. Cardinality(Connections) \in Nat /\ Cardinality(Uploads) \in Nat
  BY <1>4, FS_CardinalityType
<1> QED
  BY <1>6, <1>7

(* Requests wait for each other's connections in a circle only when as     *)
(* many uploads are in progress as there are connections.                  *)
THEOREM PoolDoesNotStall == Spec => []FewUploadsNeverStall
  BY IndInvInit, IndInvNext, StallNeedsUploads, PTL DEF Spec

-----------------------------------------------------------------------------
(* What a handler has told its client, and committed, before step n; what  *)
(* a request is told beside that, it is told as it ends.                   *)
Said(h, n) ==
    CASE h \in {"register", "delete"} -> IF n < 4 THEN <<>> ELSE <<"2xx">>
      [] h = "upload" -> IF n < 8 THEN <<>> ELSE <<"2xx">>
      [] h = "read"   -> IF n < 4 THEN <<>> ELSE <<"2xx">>
      [] h = "search" -> IF n < 5 THEN <<>> ELSE <<"2xx">>
      [] h = "answer" -> IF n < 3 THEN <<>>
                         ELSE IF n < 6 THEN <<"2xx">>
                         ELSE IF n = 6 THEN <<"2xx", "sources">>
                         ELSE IF n = 7 THEN <<"2xx", "sources", "token">>
                         ELSE <<"2xx", "sources", "token", "done">>
      [] h = "ready"  -> IF n < 4 THEN <<>> ELSE <<"2xx">>

Made(h, n) ==
    CASE h \in {"register", "delete"} -> IF n < 3 THEN {} ELSE {"document"}
      [] h = "upload" -> IF n < 4 THEN {} ELSE IF n < 6 THEN {"text"} ELSE {"text", "job"}
      [] h \notin {"register", "delete", "upload"} -> {}

Heard(told) == {told[i] : i \in DOMAIN told}

(* ToldIsDone, of one request.                                             *)
Honest(h, told, done) ==
    /\ "2xx" \in Heard(told) => Promised(h) \subseteq done
    /\ "4xx" \in Heard(told) => done = {}
    /\ "done" \in Heard(told) => told = <<"2xx", "sources", "token", "done">>

(* A request in progress is exactly where its step says; one that has      *)
(* ended was told the truth.                                               *)
OnScript ==
    \A r \in Requests :
        LET q == request[r]
        IN  IF q.at > 0 THEN q.told = Said(q.handler, q.at) /\ q.done = Made(q.handler, q.at)
                        ELSE Honest(q.handler, q.told, q.done)

LEMMA HeardSoFar ==
    /\ Heard(<<>>) = {} /\ Heard(<<"2xx">>) = {"2xx"} /\ Heard(<<"4xx">>) = {"4xx"}
    /\ Heard(<<"2xx", "sources">>) = {"2xx", "sources"}
    /\ Heard(<<"2xx", "sources", "token">>) = {"2xx", "sources", "token"}
    /\ Heard(<<"2xx", "sources", "token", "done">>) = {"2xx", "sources", "token", "done"}
  BY DEF Heard

LEMMA HeardOneMore ==
    ASSUME NEW told \in Seq(Events), NEW e \in Events
    PROVE  Heard(Append(told, e)) = Heard(told) \cup {e}
<1> DEFINE more == Append(told, e)
<1>1. /\ more \in Seq(Events) /\ Len(more) = Len(told) + 1 /\ more[Len(more)] = e
      /\ Len(told) \in Nat /\ DOMAIN told = 1..Len(told) /\ DOMAIN more = 1..Len(more)
      /\ \A i \in 1..Len(told) : more[i] = told[i]
  OBVIOUS
<1> HIDE DEF more
<1>2. ASSUME NEW i \in DOMAIN more PROVE more[i] \in Heard(told) \cup {e}
  BY <1>1 DEF Heard
<1>3. e \in Heard(more)
  BY <1>1 DEF Heard
<1>4. ASSUME NEW i \in DOMAIN told PROVE told[i] \in Heard(more)
  <2>1. i \in DOMAIN more /\ more[i] = told[i]
    BY <1>1
  <2> QED
    BY <2>1 DEF Heard
<1>5. Heard(more) = Heard(told) \cup {e}
  BY <1>2, <1>3, <1>4 DEF Heard
<1> QED
  BY <1>5 DEF more

(* The script is the truth wherever a request stands in it.                *)
LEMMA ScriptIsHonest ==
    ASSUME NEW h \in Handlers, NEW n \in 1..9
    PROVE  /\ Said(h, n) \in {<<>>, <<"2xx">>, <<"2xx", "sources">>, <<"2xx", "sources", "token">>,
                              <<"2xx", "sources", "token", "done">>}
           /\ Honest(h, Said(h, n), Made(h, n))
           /\ "4xx" \notin Heard(Said(h, n))
           /\ "done" \in Heard(Said(h, n)) => h = "answer" /\ n > 7
<1> USE HeardSoFar DEF Said, Made, Honest, Promised
<1>1. CASE h \in {"register", "delete"}
  BY <1>1
<1>2. CASE h = "upload"
  BY <1>2
<1>3. CASE h \in {"read", "search", "ready"}
  BY <1>3
<1>5. CASE h = "answer"
  BY <1>5
<1> QED
  BY <1>1, <1>2, <1>3, <1>5 DEF Handlers

LEMMA AppendGives ==
    ASSUME NEW S, NEW s \in Seq(S), NEW e \in S, NEW t \in Seq(S), Len(t) = Len(s) + 1,
           t[Len(t)] = e, \A i \in 1..Len(s) : t[i] = s[i]
    PROVE  Append(s, e) = t
<1>1. Append(s, e) \in Seq(S) /\ Len(Append(s, e)) = Len(t)
  OBVIOUS
<1>2. \A i \in 1..Len(t) : Append(s, e)[i] = t[i]
  OBVIOUS
<1> QED
  BY <1>1, <1>2

(* What was told grows by one event. *)
Adds(s, e, t) ==
    \/ s = <<>> /\ e = "2xx" /\ t = <<"2xx">>
    \/ s = <<"2xx">> /\ e = "sources" /\ t = <<"2xx", "sources">>
    \/ s = <<"2xx", "sources">> /\ e = "token" /\ t = <<"2xx", "sources", "token">>
    \/ s = <<"2xx", "sources", "token">> /\ e = "done"
       /\ t = <<"2xx", "sources", "token", "done">>

LEMMA AddsIsAppend ==
    ASSUME NEW s, NEW e, NEW t, Adds(s, e, t)
    PROVE  Append(s, e) = t
<1>1. /\ <<>> \in Seq(Events) /\ <<"2xx">> \in Seq(Events)
      /\ <<"2xx", "sources">> \in Seq(Events)
      /\ <<"2xx", "sources", "token">> \in Seq(Events)
      /\ <<"2xx", "sources", "token", "done">> \in Seq(Events)
      /\ "2xx" \in Events /\ "sources" \in Events /\ "token" \in Events /\ "done" \in Events
  BY DEF Events
<1>2. Append(<<>>, "2xx") = <<"2xx">>
  BY <1>1, AppendGives
<1>3. Append(<<"2xx">>, "sources") = <<"2xx", "sources">>
  <2> DEFINE a == <<"2xx">>
             b == <<"2xx", "sources">>
  <2>1. /\ Len(a) = 1 /\ Len(b) = 2 /\ b[2] = "sources"
        /\ b[1] = a[1]
    OBVIOUS
  <2>2. a \in Seq(Events) /\ b \in Seq(Events)
    BY <1>1
  <2> HIDE DEF a, b
  <2>3. /\ Len(b) = Len(a) + 1 /\ b[Len(b)] = "sources"
        /\ \A i \in 1..Len(a) : b[i] = a[i]
    BY <2>1
  <2>4. Append(a, "sources") = b
    BY <1>1, <2>2, <2>3, AppendGives
  <2> QED
    BY <2>4 DEF a, b
<1>4. Append(<<"2xx", "sources">>, "token") = <<"2xx", "sources", "token">>
  <2> DEFINE a == <<"2xx", "sources">>
             b == <<"2xx", "sources", "token">>
  <2>1. /\ Len(a) = 2 /\ Len(b) = 3 /\ b[3] = "token"
        /\ b[1] = a[1] /\ b[2] = a[2]
    OBVIOUS
  <2>2. a \in Seq(Events) /\ b \in Seq(Events)
    BY <1>1
  <2> HIDE DEF a, b
  <2>3. /\ Len(b) = Len(a) + 1 /\ b[Len(b)] = "token"
        /\ \A i \in 1..Len(a) : b[i] = a[i]
    BY <2>1
  <2>4. Append(a, "token") = b
    BY <1>1, <2>2, <2>3, AppendGives
  <2> QED
    BY <2>4 DEF a, b
<1>5. Append(<<"2xx", "sources", "token">>, "done") = <<"2xx", "sources", "token", "done">>
  <2> DEFINE a == <<"2xx", "sources", "token">>
             b == <<"2xx", "sources", "token", "done">>
  <2>1. /\ Len(a) = 3 /\ Len(b) = 4 /\ b[4] = "done"
        /\ b[1] = a[1] /\ b[2] = a[2] /\ b[3] = a[3]
    OBVIOUS
  <2>2. a \in Seq(Events) /\ b \in Seq(Events)
    BY <1>1
  <2> HIDE DEF a, b
  <2>3. /\ Len(b) = Len(a) + 1 /\ b[Len(b)] = "done"
        /\ \A i \in 1..Len(a) : b[i] = a[i]
    BY <2>1
  <2>4. Append(a, "done") = b
    BY <1>1, <2>2, <2>3, AppendGives
  <2> QED
    BY <2>4 DEF a, b
<1> QED
  BY <1>2, <1>3, <1>4, <1>5 DEF Adds

(* Step at of a handler against the script: what it tells and commits is   *)
(* what the script gains, and a handler that may still fail has not told   *)
(* "done".                                                                 *)
Follows(h, at) ==
    LET step == Steps[h][at]
    IN  /\ IF step.do = "tell" THEN Adds(Said(h, at), step.what, Said(h, at + 1))
           ELSE Said(h, at + 1) = Said(h, at)
        /\ Made(h, at + 1) = IF step.do = "commit" THEN Made(h, at) \cup {step.what}
                             ELSE Made(h, at)
        /\ step.do \in {"run", "commit"} => ~(h = "answer" /\ at > 7)

LEMMA ScriptFits ==
    ASSUME NEW h \in Handlers, NEW at \in 1..8, at <= Len(Steps[h])
    PROVE  Follows(h, at)
<1> USE DEF Adds, Step, Run, Commit, Close, Tell, Follows, Said, Made
<1>1. CASE h \in {"register", "delete"}
  <2>1. Steps[h] = Change
    BY <1>1 DEF Steps, Handlers
  <2>2. at \in {1, 2, 3}
    BY <2>1 DEF Change
  <2>3. CASE at = 1
    BY <1>1, <2>1, <2>3 DEF Change
  <2>4. CASE at = 2
    <3>1. Made(h, 2) = {} /\ Made(h, 3) = {"document"} /\ Said(h, 2) = Said(h, 3)
      BY <1>1
    <3>2. Steps[h][2].do = "commit" /\ Steps[h][2].what = "document"
      BY <2>1 DEF Change
    <3> QED
      BY <1>1, <2>4, <3>1, <3>2
  <2>5. CASE at = 3
    BY <1>1, <2>1, <2>5 DEF Change
  <2> QED
    BY <2>2, <2>3, <2>4, <2>5
<1>2. CASE h = "upload"
  <2>1. Steps[h] = Upload
    BY <1>2 DEF Steps, Handlers
  <2>2. CASE at \in {1, 2, 4}
    BY <1>2, <2>1, <2>2 DEF Upload
  <2>3. CASE at = 3
    <3>1. Made(h, 3) = {} /\ Made(h, 4) = {"text"} /\ Said(h, 3) = Said(h, 4)
      BY <1>2
    <3>2. Steps[h][3].do = "commit" /\ Steps[h][3].what = "text"
      BY <2>1 DEF Upload
    <3> QED
      BY <1>2, <2>3, <3>1, <3>2
  <2>4. CASE at = 5
    <3>1. Made(h, 5) = {"text"} /\ Made(h, 6) = {"text", "job"} /\ Said(h, 5) = Said(h, 6)
      BY <1>2
    <3>2. Steps[h][5].do = "commit" /\ Steps[h][5].what = "job"
      BY <2>1 DEF Upload
    <3> QED
      BY <1>2, <2>4, <3>1, <3>2
  <2>5. CASE at = 7
    <3>1. Said(h, 7) = <<>> /\ Said(h, 8) = <<"2xx">> /\ Made(h, 7) = Made(h, 8)
      BY <1>2
    <3>2. Steps[h][7].do = "tell" /\ Steps[h][7].what = "2xx"
      BY <2>1 DEF Upload
    <3> QED
      BY <1>2, <2>5, <3>1, <3>2
  <2>6. CASE at \in {6, 8}
    BY <1>2, <2>1, <2>6 DEF Upload
  <2>7. at \in {1, 2, 4} \/ at = 3 \/ at = 5 \/ at = 7 \/ at \in {6, 8}
    OBVIOUS
  <2> QED
    BY <2>2, <2>3, <2>4, <2>5, <2>6, <2>7
<1>3. CASE h = "read"
  <2>1. Steps[h] = Read
    BY <1>3 DEF Steps, Handlers
  <2> QED
    BY <1>3, <2>1 DEF Read
<1>4. CASE h = "search"
  <2>1. Steps[h] = Search
    BY <1>4 DEF Steps, Handlers
  <2> QED
    BY <1>4, <2>1 DEF Search
<1>5. CASE h = "answer"
  <2>1. Steps[h] = Answer
    BY <1>5 DEF Steps, Handlers
  <2>2. at \in {1, 2, 3, 4} \/ at \in {5, 6, 7, 8}
    OBVIOUS
  <2>3. CASE at \in {1, 2, 3, 4}
    BY <1>5, <2>1, <2>3 DEF Answer
  <2>4. CASE at \in {5, 6, 7, 8}
    BY <1>5, <2>1, <2>4 DEF Answer
  <2> QED
    BY <2>2, <2>3, <2>4
<1>6. CASE h = "ready"
  <2>1. Steps[h] = Ready
    BY <1>6 DEF Steps, Handlers
  <2>2. at \in {1, 2, 3}
    BY <2>1 DEF Ready
  <2> QED
    BY <1>6, <2>1, <2>2 DEF Ready
<1> QED
  BY <1>1, <1>2, <1>3, <1>4, <1>5, <1>6 DEF Handlers

-----------------------------------------------------------------------------
(* A step of request r: what it becomes must be on script.                 *)
LEMMA StepKeepsScript ==
    ASSUME IndInv, OnScript, NEW r \in Requests, NEW new,
           request' = [request EXCEPT ![r] = new],
           IF new.at > 0
           THEN new.told = Said(new.handler, new.at) /\ new.done = Made(new.handler, new.at)
           ELSE Honest(new.handler, new.told, new.done)
    PROVE  OnScript'
<1>1. request' \in [Requests -> {request'[q] : q \in Requests}]
      /\ request'[r] = new /\ \A q \in Requests \ {r} : request'[q] = request[q]
  BY DEF IndInv, RequestsTypeOK
<1> QED
  BY <1>1 DEF OnScript

(* What a request in progress has told and committed is as the script has  *)
(* it, now and after the step it is at.                                    *)
LEMMA OnScriptNow ==
    ASSUME IndInv, OnScript, NEW r \in Requests, InProgress(r)
    PROVE  LET h == request[r].handler
               at == request[r].at
           IN  /\ h \in Handlers /\ at \in 1..8 /\ at <= Len(Steps[h])
               /\ request[r] \in RequestRecord /\ Now(r) = Steps[h][at]
               /\ request[r].told = Said(h, at) /\ request[r].done = Made(h, at)
               /\ Follows(h, at)
               /\ Honest(h, Said(h, at), Made(h, at))
               /\ Honest(h, Said(h, at + 1), Made(h, at + 1))
               /\ "4xx" \notin Heard(Said(h, at))
               /\ "done" \in Heard(Said(h, at)) => h = "answer" /\ at > 7
<1> DEFINE h == request[r].handler
           at == request[r].at
<1>1. h \in Handlers /\ at \in 1..8 /\ at <= Len(Steps[h]) /\ request[r] \in RequestRecord
  BY AdvanceFits, HeldBefore
<1>2. at \in 1..9 /\ at + 1 \in 1..9 /\ at > 0
  BY <1>1
<1>3. Now(r) = Steps[h][at] /\ request[r].told = Said(h, at) /\ request[r].done = Made(h, at)
  BY <1>2 DEF OnScript, Now
<1> HIDE DEF h, at
<1>4. /\ Honest(h, Said(h, at), Made(h, at)) /\ Honest(h, Said(h, at + 1), Made(h, at + 1))
      /\ "4xx" \notin Heard(Said(h, at))
      /\ "done" \in Heard(Said(h, at)) => h = "answer" /\ at > 7
  BY <1>1, <1>2, ScriptIsHonest
<1>5. Follows(h, at)
  BY <1>1, ScriptFits
<1> QED
  BY <1>1, <1>3, <1>4, <1>5 DEF h, at

(* r takes the next step of its handler, telling and committing what the   *)
(* script has there; after the last one it has ended.                      *)
LEMMA NextOnScript ==
    ASSUME IndInv, OnScript, NEW r \in Requests, InProgress(r), NEW new,
           request' = [request EXCEPT ![r] = new],
           new.handler = request[r].handler,
           new.at = NextStep(request[r].handler, request[r].at),
           new.told = Said(request[r].handler, request[r].at + 1),
           new.done = Made(request[r].handler, request[r].at + 1)
    PROVE  OnScript'
<1> DEFINE h == request[r].handler
           at == request[r].at
<1>1. at \in 1..8 /\ Honest(h, Said(h, at + 1), Made(h, at + 1))
  BY OnScriptNow
<1>2. new.at = 0 \/ new.at = at + 1
  BY DEF NextStep
<1>3. IF new.at > 0
      THEN new.told = Said(new.handler, new.at) /\ new.done = Made(new.handler, new.at)
      ELSE Honest(new.handler, new.told, new.done)
  BY <1>1, <1>2
<1> QED
  BY <1>3, StepKeepsScript

(* r ends before its last step.                                            *)
LEMMA EndKeepsScript ==
    ASSUME IndInv, OnScript, NEW r \in Requests, NEW done, NEW told,
           Honest(request[r].handler, told, done),
           request' = [request EXCEPT ![r] = Ended(r, done, told)]
    PROVE  OnScript'
<1> DEFINE new == Ended(r, done, told)
<1>1. new.at = 0 /\ new.handler = request[r].handler /\ new.told = told /\ new.done = done
  BY DEF Ended
<1> HIDE DEF new
<1>2. request' = [request EXCEPT ![r] = new]
  BY DEF new
<1>3. IF new.at > 0
      THEN new.told = Said(new.handler, new.at) /\ new.done = Made(new.handler, new.at)
      ELSE Honest(new.handler, new.told, new.done)
  BY <1>1
<1> QED
  BY <1>2, <1>3, StepKeepsScript

LEMMA ServeKeepsScript ==
    ASSUME IndInv, OnScript, NEW r \in Requests,
           RunStep(r) \/ CommitStep(r) \/ CloseStep(r) \/ TellStep(r)
    PROVE  OnScript'
<1> DEFINE h == request[r].handler
           at == request[r].at
<1>1. InProgress(r)
  BY DEF RunStep, CommitStep, CloseStep, TellStep, Does
<1>2. /\ Advance(r, 1) = [request[r] EXCEPT !.at = NextStep(h, at)]
      /\ Advance(r, 1) \in RequestRecord
  BY <1>1, AdvanceFits
<1>3. /\ request[r] \in RequestRecord /\ Now(r) = Steps[h][at]
      /\ request[r].told = Said(h, at) /\ request[r].done = Made(h, at) /\ Follows(h, at)
  BY <1>1, OnScriptNow
<1>4. /\ Advance(r, 1).handler = h /\ Advance(r, 1).at = NextStep(h, at)
      /\ Advance(r, 1).told = Said(h, at) /\ Advance(r, 1).done = Made(h, at)
  BY <1>2, <1>3 DEF RequestRecord
<1>5. CASE RunStep(r) \/ CloseStep(r)
  <2>1. Now(r).do \in {"run", "close"} /\ request' = [request EXCEPT ![r] = Advance(r, 1)]
    BY <1>5 DEF RunStep, CloseStep, Does
  <2>2. Said(h, at + 1) = Said(h, at) /\ Made(h, at + 1) = Made(h, at)
    BY <1>3, <2>1 DEF Follows
  <2> QED
    BY <1>1, <1>4, <2>1, <2>2, NextOnScript
<1>6. CASE CommitStep(r)
  <2> DEFINE new == [Advance(r, 1) EXCEPT !.done = @ \cup {Now(r).what}]
  <2>1. Now(r).do = "commit" /\ request' = [request EXCEPT ![r] = new]
    BY <1>6 DEF CommitStep, Does
  <2>2. Said(h, at + 1) = Said(h, at) /\ Made(h, at + 1) = Made(h, at) \cup {Now(r).what}
    BY <1>3, <2>1 DEF Follows
  <2>3. /\ new.handler = h /\ new.at = NextStep(h, at)
        /\ new.told = Said(h, at) /\ new.done = Made(h, at) \cup {Now(r).what}
    BY <1>2, <1>4 DEF RequestRecord
  <2> HIDE DEF new
  <2> QED
    BY <1>1, <2>1, <2>2, <2>3, NextOnScript
<1>7. CASE TellStep(r)
  <2> DEFINE new == [Advance(r, 1) EXCEPT !.told = Append(@, Now(r).what)]
  <2>1. Now(r).do = "tell" /\ request' = [request EXCEPT ![r] = new]
    BY <1>7 DEF TellStep, Does
  <2>2. Adds(Said(h, at), Now(r).what, Said(h, at + 1)) /\ Made(h, at + 1) = Made(h, at)
    BY <1>3, <2>1 DEF Follows
  <2>3. Append(Said(h, at), Now(r).what) = Said(h, at + 1)
    BY <2>2, AddsIsAppend
  <2>4. /\ new.handler = h /\ new.at = NextStep(h, at)
        /\ new.told = Append(Said(h, at), Now(r).what) /\ new.done = Made(h, at)
    BY <1>2, <1>4 DEF RequestRecord
  <2> HIDE DEF new
  <2> QED
    BY <1>1, <2>1, <2>2, <2>3, <2>4, NextOnScript
<1> QED
  BY <1>5, <1>6, <1>7

(* The cached result and the document that is there already take a request *)
(* to where its statements would have taken it.                            *)
LEMMA ShortcutKeepsScript ==
    ASSUME IndInv, OnScript, NEW r \in Requests, CacheHit(r) \/ FindExisting(r)
    PROVE  OnScript'
<1> DEFINE h == request[r].handler
           at == request[r].at
<1>1. /\ \/ CacheHit(r) /\ ((h = "search" /\ at = 1) \/ (h = "answer" /\ at = 3))
         \/ FindExisting(r) /\ h = "register" /\ at = 2
      /\ InProgress(r)
  BY DEF CacheHit, FindExisting, InProgress
<1>2. request[r].told = Said(h, at) /\ request[r].done = Made(h, at)
  BY <1>1, OnScriptNow
<1>3. CASE CacheHit(r) /\ ((h = "search" /\ at = 1) \/ (h = "answer" /\ at = 3))
  <2>1. at + 2 <= Len(Steps[h])
    <3>1. CASE h = "search" /\ at = 1
      BY <3>1 DEF Steps, Handlers, Search
    <3>2. CASE h = "answer" /\ at = 3
      BY <3>2 DEF Steps, Handlers, Answer
    <3> QED
      BY <1>3, <3>1, <3>2
  <2> DEFINE new == Advance(r, 2)
  <2>2. /\ new.at = at + 2 /\ new.handler = h
        /\ new.told = request[r].told /\ new.done = request[r].done
    BY <2>1, SkippingFits
  <2>3. request' = [request EXCEPT ![r] = new]
    BY <1>3 DEF CacheHit
  <2>4. Said(h, at + 2) = Said(h, at) /\ Made(h, at + 2) = Made(h, at)
    BY <1>3 DEF Said, Made
  <2> HIDE DEF new
  <2>5. IF new.at > 0
        THEN new.told = Said(new.handler, new.at) /\ new.done = Made(new.handler, new.at)
        ELSE Honest(new.handler, new.told, new.done)
    BY <1>2, <1>3, <2>2, <2>4
  <2> QED
    BY <2>3, <2>5, StepKeepsScript
<1>4. CASE FindExisting(r) /\ h = "register" /\ at = 2
  <2>1. at + 1 <= Len(Steps[h])
    BY <1>4 DEF Steps, Handlers, Change
  <2>2. /\ Advance(r, 1).at = at + 1 /\ Advance(r, 1).handler = h
        /\ Advance(r, 1).told = request[r].told /\ Advance(r, 1) \in RequestRecord
    BY <2>1, SkippingFits
  <2> DEFINE new == [Advance(r, 1) EXCEPT !.done = {"document"}]
  <2>3. /\ new.at = 3 /\ new.handler = "register"
        /\ new.told = request[r].told /\ new.done = {"document"}
    BY <1>4, <2>2 DEF RequestRecord
  <2>4. request' = [request EXCEPT ![r] = new]
    BY <1>4 DEF FindExisting
  <2>5. Said(h, 3) = Said(h, 2) /\ Made(h, 3) = {"document"}
    BY <1>4 DEF Said, Made
  <2> HIDE DEF new
  <2>6. IF new.at > 0
        THEN new.told = Said(new.handler, new.at) /\ new.done = Made(new.handler, new.at)
        ELSE Honest(new.handler, new.told, new.done)
    BY <1>2, <1>4, <2>3, <2>5
  <2> QED
    BY <2>4, <2>6, StepKeepsScript
<1> QED
  BY <1>1, <1>3, <1>4

(* A request that fails has not told "done" yet, and adds no promise.      *)
LEMMA FailureIsHonest ==
    ASSUME IndInv, OnScript, NEW r \in Requests,
           Does(r, "run") \/ Does(r, "commit"),
           NEW done, request[r].done \subseteq done
    PROVE  Honest(request[r].handler, Append(request[r].told, Failure(r)), done)
<1> DEFINE h == request[r].handler
           at == request[r].at
           told == request[r].told
<1>1. InProgress(r) /\ Now(r).do \in {"run", "commit"}
  BY DEF Does
<1>2. /\ told = Said(h, at) /\ request[r].done = Made(h, at) /\ Now(r) = Steps[h][at]
      /\ Follows(h, at) /\ Honest(h, Said(h, at), Made(h, at)) /\ told \in Seq(Events)
      /\ "4xx" \notin Heard(told) /\ ("done" \in Heard(told) => h = "answer" /\ at > 7)
  BY <1>1, OnScriptNow DEF RequestRecord
<1>3. "done" \notin Heard(told)
  BY <1>1, <1>2 DEF Follows
<1>4. Failure(r) \in {"cut", "503", "500"}
  BY DEF Failure
<1>5. Heard(Append(told, Failure(r))) = Heard(told) \cup {Failure(r)}
  <2>1. Failure(r) \in Events
    BY <1>4 DEF Events
  <2> QED
    BY <1>2, <2>1, HeardOneMore
<1>6. "2xx" \in Heard(told) => Promised(h) \subseteq done
  BY <1>2 DEF Honest
<1> HIDE DEF h, at, told
<1>7. Honest(h, Append(told, Failure(r)), done)
  BY <1>2, <1>3, <1>4, <1>5, <1>6 DEF Honest
<1> QED
  BY <1>7 DEF h, told

LEMMA EndingKeepsScript ==
    ASSUME IndInv, OnScript, NEW r \in Requests,
           Refuse(r) \/ DatabaseFails(r) \/ PoolTimeout(r) \/ Leave(r)
    PROVE  OnScript'
<1>1. ASSUME NEW done, request[r].done \subseteq done, Fails(r, done),
             Does(r, "run") \/ Does(r, "commit")
      PROVE  OnScript'
  BY <1>1, FailureIsHonest, EndKeepsScript DEF Fails
<1>2. CASE DatabaseFails(r)
  BY <1>1, <1>2 DEF DatabaseFails
<1>3. CASE PoolTimeout(r)
  BY <1>1, <1>3 DEF PoolTimeout, Waits
<1>4. CASE Leave(r)
  <2>1. InProgress(r)
    BY <1>4 DEF Leave
  <2>2. Honest(request[r].handler, request[r].told, request[r].done)
    BY <2>1, OnScriptNow
  <2> QED
    BY <1>4, <2>2, EndKeepsScript DEF Leave
<1>5. CASE Refuse(r)
  <2> DEFINE h == request[r].handler
  <2>1. h \in {"register", "delete", "upload", "read"} /\ request[r].at = 2
    BY <1>5 DEF Refuse
  <2>2. request[r].done = Made(h, 2)
    BY <2>1, OnScriptNow DEF InProgress
  <2>3. Made(h, 2) = {}
    BY <2>1 DEF Made
  <2>4. Honest(h, <<"4xx">>, request[r].done)
    BY <2>2, <2>3, HeardSoFar DEF Honest
  <2> QED
    BY <1>5, <2>4, EndKeepsScript DEF Refuse
<1> QED
  BY <1>2, <1>3, <1>4, <1>5

(* A new request has told nothing and committed nothing.                   *)
LEMMA AskKeepsScript ==
    ASSUME IndInv, OnScript, NEW r \in Requests, Ask(r)
    PROVE  OnScript'
<1>1. PICK h \in Handlers : request' = [request EXCEPT ![r] =
                              [handler |-> h, at |-> 1, done |-> {}, told |-> <<>>]]
  BY PoolAssumption DEF Ask
<1> DEFINE new == [handler |-> h, at |-> 1, done |-> {}, told |-> <<>>]
<1>2. Said(h, 1) = <<>> /\ Made(h, 1) = {}
  BY DEF Said, Made, Handlers
<1>3. IF new.at > 0
      THEN new.told = Said(new.handler, new.at) /\ new.done = Made(new.handler, new.at)
      ELSE Honest(new.handler, new.told, new.done)
  BY <1>2
<1>4. request' = [request EXCEPT ![r] = new]
  BY <1>1
<1> HIDE DEF new
<1> QED
  BY <1>3, <1>4, StepKeepsScript

-----------------------------------------------------------------------------
LEMMA OnScriptInit == Init => OnScript
<1> SUFFICES ASSUME Init PROVE OnScript
  OBVIOUS
<1>1. Honest("read", <<>>, {})
  BY HeardSoFar DEF Honest
<1>2. ASSUME NEW r \in Requests
      PROVE  /\ ~(request[r].at > 0) /\ request[r].handler = "read"
             /\ request[r].told = <<>> /\ request[r].done = {}
  BY DEF Init
<1> QED
  BY <1>1, <1>2 DEF OnScript

LEMMA OnScriptStep == IndInv /\ OnScript /\ [Next]_vars => OnScript'
<1> SUFFICES ASSUME IndInv, OnScript, [Next]_vars PROVE OnScript'
  OBVIOUS
<1>1. ASSUME NEW r \in Requests, Ask(r) PROVE OnScript'
  BY <1>1, AskKeepsScript
<1>2. ASSUME NEW r \in Requests, Serve(r) PROVE OnScript'
  BY <1>2, ServeKeepsScript, ShortcutKeepsScript, EndingKeepsScript DEF Serve
<1>3. ASSUME NEW r \in Requests, Refuse(r) \/ DatabaseFails(r) \/ Leave(r) PROVE OnScript'
  BY <1>3, EndingKeepsScript
<1>4. CASE (\E c \in Connections : Collect(c)) \/ UNCHANGED vars
  BY <1>4 DEF Collect, vars, OnScript
<1> QED
  BY <1>1, <1>2, <1>3, <1>4 DEF Next

LEMMA ScriptIsTrue == IndInv /\ OnScript => ToldIsDone
<1> SUFFICES ASSUME IndInv, OnScript, NEW r \in Requests
             PROVE  Honest(request[r].handler, request[r].told, request[r].done)
  BY DEF ToldIsDone, Honest, Heard
<1>1. CASE InProgress(r)
  BY <1>1, OnScriptNow
<1>2. CASE ~InProgress(r)
  BY <1>2 DEF OnScript, InProgress
<1> QED
  BY <1>1, <1>2

(* What a client is told can be relied on, whichever statement or commit   *)
(* fails, whether or not its effect survived, and wherever the client      *)
(* leaves: 2xx promises only what is committed, 4xx that nothing is, and a *)
(* stream that says "done" is the whole stream.                            *)
THEOREM WhatIsToldIsDone == Spec => []ToldIsDone
  BY IndInvInit, IndInvNext, OnScriptInit, OnScriptStep, ScriptIsTrue, PTL DEF Spec
=============================================================================
