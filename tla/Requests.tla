------------------------------ MODULE Requests ------------------------------
(***************************************************************************)
(* The requests an API process serves at a time and the database           *)
(* connections they share (api/dependencies.py, api/errors.py,             *)
(* api/health.py, the routers, shared/infrastructure/database.py).         *)
(*                                                                         *)
(* A handler is the sequence of what it asks of the database and tells its *)
(* client. A session takes a connection from the pool with its first       *)
(* statement and gives it back when it commits or is closed, so a request  *)
(* holds as many connections as it has sessions in a transaction. What is  *)
(* read and written is left to Catalog, Ingestion and Search: here a write *)
(* only counts as committed or not.                                        *)
(*                                                                         *)
(* FastAPI closes the session of get_read_session before the response      *)
(* starts, or, from 0.118 on, once it is sent; pyproject.toml allows both. *)
(***************************************************************************)
EXTENDS Integers, Sequences, FiniteSets

CONSTANTS
    Requests,       \* requests that may be in progress at a time
    Connections,    \* what the pool may open: pool_size and as many in overflow
    Asked,          \* bound: Requests -> the handlers a request may be for
    Free,           \* owner of a connection that is in the pool, or not opened
    Lost            \* owner of a connection whose session nobody will close

VARIABLES
    closing,        \* when FastAPI closes what get_read_session yields
    request,        \* Requests -> the request: its handler, the next step of it
                    \*   (0: none), the writes committed, what the client was told
    owner           \* Connections -> the session that has it

vars == <<closing, request, owner>>

Sessions == {"read", "uow", "queue", "probe"}
Writes   == {"document", "text", "job"}
Events   == {"2xx", "4xx", "500", "503", "sources", "token", "done", "cut"}

Owners == (Requests \X Sessions) \cup {Free, Lost}

Handlers == {"register", "delete", "upload", "read", "search", "answer", "ready"}

ASSUME PoolAssumption ==
    /\ IsFiniteSet(Requests) /\ IsFiniteSet(Connections)
    /\ Free # Lost /\ {Free, Lost} \cap (Requests \X Sessions) = {}
    /\ Asked \in [Requests -> SUBSET Handlers]

-----------------------------------------------------------------------------
(* A step runs statements in a session, commits a write in it, closes it   *)
(* in the versions of FastAPI that do so here, or tells the client.        *)
Step(do, session, what, when) == [do |-> do, session |-> session, what |-> what, when |-> when]

Run(session)           == Step("run", session, "nothing", {})
Commit(session, write) == Step("commit", session, write, {})
Close(session, when)   == Step("close", session, "nothing", when)
Tell(event)            == Step("tell", "read", event, {})

(* register_document and delete_document: one unit of work. *)
Change == << Run("uow"), Commit("uow", "document"), Tell("2xx") >>

(* Mutant: the job is queued before the unit of work commits the text. *)
UploadNested ==
    << Run("read"), Run("uow"), Run("queue"), Commit("queue", "job"), Commit("uow", "text"),
       Close("read", {"early"}), Tell("2xx"), Close("read", {"late"}) >>

(* Mutant: the job is queued in the background, after the answer. *)
UploadAnswersFirst ==
    << Run("read"), Run("uow"), Commit("uow", "text"), Close("read", {"early"}), Tell("2xx"),
       Close("read", {"late"}), Run("queue"), Commit("queue", "job") >>

(* upload_content: the session that looked the document up stays open      *)
(* while the text and the job are stored through two others.               *)
Upload ==
    << Run("read"), Run("uow"), Commit("uow", "text"), Run("queue"), Commit("queue", "job"),
       Close("read", {"early"}), Tell("2xx"), Close("read", {"late"}) >>

(* get_document, list_documents, list_chunks, list_jobs *)
Read == << Run("read"), Close("read", {"early"}), Tell("2xx"), Close("read", {"late"}) >>

(* search: a statement for each arm, unless the result is cached. *)
Search ==
    << Run("read"), Run("read"), Close("read", {"early"}), Tell("2xx"), Close("read", {"late"}) >>

(* answer: the response starts before the search, which runs in its body.  *)
Answer ==
    << Close("read", {"early"}), Tell("2xx"), Run("read"), Run("read"),
       Tell("sources"), Tell("token"), Tell("done"), Close("read", {"late"}) >>

(* ready: a session of its own, closed before the answer. *)
Ready == << Run("probe"), Close("probe", {"early", "late"}), Tell("2xx") >>

Steps == [handler \in Handlers |->
    CASE handler \in {"register", "delete"} -> Change
      [] handler = "upload"                 -> Upload
      [] handler = "read"                   -> Read
      [] handler = "search"                 -> Search
      [] handler = "answer"                 -> Answer
      [] handler = "ready"                  -> Ready]

(* What a client may rely on once it was told 2xx. *)
Promised(handler) ==
    CASE handler \in {"register", "delete"} -> {"document"}
      [] handler = "upload"                 -> {"text", "job"}
      [] OTHER                              -> {}

-----------------------------------------------------------------------------
InProgress(r) == request[r].at > 0

Now(r) == Steps[request[r].handler][request[r].at]

Does(r, do) == InProgress(r) /\ Now(r).do = do

Has(r, session) == \E c \in Connections : owner[c] = <<r, session>>

(* The next step of r needs a connection that r does not have. *)
Waits(r) == Does(r, "run") /\ ~Has(r, Now(r).session)

(* The response of r has started: its status can no longer be changed. *)
Started(r) == request[r].told # <<>>

(* r goes on to a later step, or is through with its last one. *)
Advance(r, steps) ==
    LET at == request[r].at + steps
    IN  [request[r] EXCEPT !.at = IF at > Len(Steps[request[r].handler]) THEN 0 ELSE at]

(* r ends before its last step. *)
Ended(r, done, told) ==
    [handler |-> request[r].handler, at |-> 0, done |-> done, told |-> told]

GiveBack(r, session) ==
    owner' = [c \in Connections |-> IF owner[c] = <<r, session>> THEN Free ELSE owner[c]]

(* The handler is left: its sessions are closed on the way out, but not    *)
(* one that was closed before the body of the response used it again.      *)
Abandon(r) ==
    owner' = [c \in Connections |->
                IF \E s \in Sessions : owner[c] = <<r, s>>
                THEN IF Started(r) /\ closing = "early" THEN Lost ELSE Free
                ELSE owner[c]]

-----------------------------------------------------------------------------
Init ==
    /\ closing \in {"early", "late"}
    /\ request = [r \in Requests |-> [handler |-> "read", at |-> 0, done |-> {}, told |-> <<>>]]
    /\ owner   = [c \in Connections |-> Free]

(* A client sends a request that passes validation and has a valid token.  *)
Ask(r) ==
    /\ ~InProgress(r)
    /\ \E h \in Asked[r] :
         request' = [request EXCEPT ![r] = [handler |-> h, at |-> 1, done |-> {}, told |-> <<>>]]
    /\ UNCHANGED <<closing, owner>>

(* The statements of a step, in a connection of the pool. *)
RunStep(r) ==
    /\ Does(r, "run")
    /\ \/ Has(r, Now(r).session) /\ UNCHANGED owner
       \/ /\ Waits(r)
          /\ \E c \in Connections :
               /\ owner[c] = Free
               /\ owner' = [owner EXCEPT ![c] = <<r, Now(r).session>>]
    /\ request' = [request EXCEPT ![r] = Advance(r, 1)]
    /\ UNCHANGED closing

(* The result of the search is in the cache: no statement is run. *)
CacheHit(r) ==
    /\ \/ request[r].handler = "search" /\ request[r].at = 1
       \/ request[r].handler = "answer" /\ request[r].at = 3
    /\ request' = [request EXCEPT ![r] = Advance(r, 2)]
    /\ UNCHANGED <<closing, owner>>

(* Registration finds the content: the document is there, nothing is       *)
(* committed, and the unit of work closes.                                 *)
FindExisting(r) ==
    /\ request[r].handler = "register" /\ request[r].at = 2
    /\ request' = [request EXCEPT ![r] = [Advance(r, 1) EXCEPT !.done = {"document"}]]
    /\ GiveBack(r, "uow")
    /\ UNCHANGED closing

(* Mutant: the unit of work commits but its session is not closed. *)
CommitStepKept(r) ==
    /\ Does(r, "commit")
    /\ request' = [request EXCEPT ![r] = [Advance(r, 1) EXCEPT !.done = @ \cup {Now(r).what}]]
    /\ UNCHANGED <<closing, owner>>

CommitStep(r) ==
    /\ Does(r, "commit")
    /\ request' = [request EXCEPT ![r] = [Advance(r, 1) EXCEPT !.done = @ \cup {Now(r).what}]]
    /\ GiveBack(r, Now(r).session)
    /\ UNCHANGED closing

(* Mutant: a session is left to be closed by whoever used it last. *)
CloseStepOnce(r) ==
    /\ Does(r, "close")
    /\ request' = [request EXCEPT ![r] = Advance(r, 1)]
    /\ IF closing \in Now(r).when /\ ~Started(r) THEN GiveBack(r, Now(r).session)
       ELSE UNCHANGED owner
    /\ UNCHANGED closing

(* A session closed before the response is not closed again after it.      *)
CloseStep(r) ==
    /\ Does(r, "close")
    /\ request' = [request EXCEPT ![r] = Advance(r, 1)]
    /\ IF closing \in Now(r).when THEN GiveBack(r, Now(r).session)
       ELSE IF Started(r) THEN Abandon(r) ELSE UNCHANGED owner
    /\ UNCHANGED closing

TellStep(r) ==
    /\ Does(r, "tell")
    /\ request' = [request EXCEPT ![r] = [Advance(r, 1) EXCEPT !.told = Append(@, Now(r).what)]]
    /\ UNCHANGED <<closing, owner>>

(* A DomainError after what was read: no such document, a content that     *)
(* does not match, a transition that is not allowed. The unit of work      *)
(* rolls back and the client is told why.                                  *)
Refuse(r) ==
    /\ request[r].handler \in {"register", "delete", "upload", "read"} /\ request[r].at = 2
    /\ request' = [request EXCEPT ![r] = Ended(r, request[r].done, <<"4xx">>)]
    /\ Abandon(r)
    /\ UNCHANGED closing

(* What a client is told of any other exception: ready catches it, and a   *)
(* response that has started just breaks off.                              *)
Failure(r) ==
    CASE Started(r)                    -> "cut"
      [] request[r].handler = "ready"  -> "503"
      [] OTHER                         -> "500"

Fails(r, done) ==
    /\ request' = [request EXCEPT ![r] = Ended(r, done, Append(request[r].told, Failure(r)))]
    /\ Abandon(r)
    /\ UNCHANGED closing

(* The database fails a statement, or a commit that may have been executed *)
(* all the same.                                                           *)
DatabaseFails(r) ==
    \/ Does(r, "run") /\ Fails(r, request[r].done)
    \/ Does(r, "commit") /\ \E made \in {{}, {Now(r).what}} : Fails(r, request[r].done \cup made)

(* Mutant: a request that waits is never told so. *)
NoTimeout(r) == FALSE

(* No connection was returned while r waited as long as the pool allows.   *)
PoolTimeout(r) ==
    /\ Waits(r) /\ \A c \in Connections : owner[c] # Free
    /\ Fails(r, request[r].done)

(* The client goes away from a stream, whose body is then cancelled. *)
Leave(r) ==
    /\ request[r].handler = "answer" /\ InProgress(r) /\ Started(r)
    /\ request' = [request EXCEPT ![r] = Ended(r, request[r].done, request[r].told)]
    /\ Abandon(r)
    /\ UNCHANGED closing

(* Garbage collection finds the session and terminates its connection. *)
Collect(c) ==
    /\ owner[c] = Lost
    /\ owner' = [owner EXCEPT ![c] = Free]
    /\ UNCHANGED <<closing, request>>

-----------------------------------------------------------------------------
(* What the server does by itself with a request. *)
Serve(r) ==
    \/ RunStep(r) \/ CacheHit(r) \/ FindExisting(r) \/ CommitStep(r)
    \/ CloseStep(r) \/ TellStep(r) \/ PoolTimeout(r)

Next ==
    \/ \E r \in Requests : Ask(r) \/ Serve(r) \/ Refuse(r) \/ DatabaseFails(r) \/ Leave(r)
    \/ \E c \in Connections : Collect(c)

Spec == Init /\ [][Next]_vars

(* The server goes on with every request, clients read what it sends or go *)
(* away, and garbage is collected. Nobody has to ask, and nothing to fail. *)
Fairness ==
    /\ \A r \in Requests : WF_vars(Serve(r))
    /\ \A c \in Connections : WF_vars(Collect(c))

FairSpec == Spec /\ Fairness

-----------------------------------------------------------------------------
(* Type invariant. A connection is in the pool, lost, or with one session  *)
(* of a request that is in progress; no session has two.                   *)
RequestsTypeOK ==
    /\ closing \in {"early", "late"}
    /\ request \in [Requests -> [handler : Handlers, at : 0..8,
                                 done : SUBSET Writes, told : Seq(Events)]]
    /\ \A r \in Requests : request[r].at <= Len(Steps[request[r].handler])
    /\ owner \in [Connections -> Owners]
    /\ \A c \in Connections : owner[c] \notin {Free, Lost} =>
         /\ InProgress(owner[c][1])
         /\ \A d \in Connections : owner[d] = owner[c] => d = c

(* dependencies.py: an upload keeps the connection it looked the document  *)
(* up with while it waits for another. When as many uploads as there are   *)
(* connections do so, nobody can go on before the pool's timeout; fewer    *)
(* never bring the process to a halt, whatever else it serves.             *)
Uploads == {r \in Requests : InProgress(r) /\ request[r].handler = "upload"}

FewUploadsNeverStall ==
    Cardinality(Uploads) < Cardinality(Connections) =>
        \E c \in Connections : \/ owner[c] \in {Free, Lost}
                              \/ ~Waits(owner[c][1])

(* errors.py: what a client is told is "stable", to be relied on. Who was  *)
(* told 2xx has all that it promises committed, who was told 4xx changed   *)
(* nothing, and a failure after the response started leaves a stream       *)
(* without "done", never one that looks complete.                          *)
ToldIsDone ==
    \A r \in Requests :
        LET told == {request[r].told[i] : i \in DOMAIN request[r].told}
        IN  /\ "2xx" \in told => Promised(request[r].handler) \subseteq request[r].done
            /\ "4xx" \in told => request[r].done = {}
            /\ "done" \in told => request[r].told = <<"2xx", "sources", "token", "done">>

(* Every request ends, also when the pool is exhausted by requests that    *)
(* wait for each other's connections: those that wait are failed.          *)
EveryRequestEnds == \A r \in Requests : InProgress(r) ~> ~InProgress(r)

(* Every connection that is taken comes back, whether its request is       *)
(* answered, refused, fails, times out or loses its client halfway.        *)
ConnectionsComeBack == \A c \in Connections : owner[c] # Free ~> owner[c] = Free
=============================================================================
