---------------------------- MODULE JobContract ----------------------------
(***************************************************************************)
(* What the ingestion job queue promises to its callers, apart from how    *)
(* rows, locks and transactions bring it about (JobQueue.tla):             *)
(*                                                                         *)
(*  - a published job is held by at most one worker, and only its holder   *)
(*    can settle it or hand it back;                                       *)
(*  - handing it back costs one try; the job is parked for good exactly    *)
(*    when the last try is spent;                                          *)
(*  - "done" and "dead" are final.                                         *)
(*                                                                         *)
(* "lost" is part of the contract as the code stands: the jobs a worker    *)
(* holds when its process ends are never offered again.                    *)
(***************************************************************************)
EXTENDS Naturals, FiniteSets

CONSTANTS
    Docs,          \* documents; a document has one job (its version is 1)
    Workers,       \* worker processes
    MaxAttempts    \* tries a job is given

VARIABLES
    stage,         \* Docs -> "absent", "waiting", "held", "done", "dead", "lost"
    held,          \* Workers -> the documents whose job the worker holds
    tries          \* Docs -> tries spent

vars == <<stage, held, tries>>

Stages == {"absent", "waiting", "held", "done", "dead", "lost"}

Init ==
    /\ stage = [d \in Docs |-> "absent"]
    /\ held  = [w \in Workers |-> {}]
    /\ tries = [d \in Docs |-> 0]

Publish(d) ==
    /\ stage[d] = "absent"
    /\ stage' = [stage EXCEPT ![d] = "waiting"]
    /\ UNCHANGED <<held, tries>>

(* A worker with nothing in hand takes a batch of waiting jobs. *)
Take(w, S) ==
    /\ held[w] = {}
    /\ S # {} /\ \A d \in S : stage[d] = "waiting"
    /\ held'  = [held EXCEPT ![w] = S]
    /\ stage' = [d \in Docs |-> IF d \in S THEN "held" ELSE stage[d]]
    /\ UNCHANGED tries

Ack(w, d) ==
    /\ d \in held[w]
    /\ held'  = [held EXCEPT ![w] = @ \ {d}]
    /\ stage' = [stage EXCEPT ![d] = "done"]
    /\ UNCHANGED tries

Nack(w, d) ==
    /\ d \in held[w]
    /\ held'  = [held EXCEPT ![w] = @ \ {d}]
    /\ tries' = [tries EXCEPT ![d] = @ + 1]
    /\ stage' = [stage EXCEPT ![d] = IF tries[d] + 1 = MaxAttempts THEN "dead" ELSE "waiting"]

(* The worker's process ends. At most the job it was reporting on, d, was  *)
(* settled or handed back; every other job it held is lost.                *)
Abandon(w, d) ==
    /\ held[w] # {}
    /\ held' = [held EXCEPT ![w] = {}]
    /\ \E fate \in {"lost", "done", "nacked"} :
         /\ fate # "lost" => d \in held[w]
         /\ tries' = IF fate = "nacked" THEN [tries EXCEPT ![d] = @ + 1] ELSE tries
         /\ stage' = [e \in Docs |->
              IF e \notin held[w] THEN stage[e]
              ELSE IF e # d THEN "lost"
              ELSE IF fate # "nacked" THEN fate
              ELSE IF tries'[d] = MaxAttempts THEN "dead" ELSE "waiting"]

(* A batch is claimed on behalf of a process that ends before it hears of  *)
(* it: the jobs are lost without ever having been held.                    *)
Vanish(S) ==
    /\ S # {} /\ \A d \in S : stage[d] = "waiting"
    /\ stage' = [d \in Docs |-> IF d \in S THEN "lost" ELSE stage[d]]
    /\ UNCHANGED <<held, tries>>

Next ==
    \/ \E d \in Docs : Publish(d)
    \/ \E w \in Workers, S \in SUBSET Docs : Take(w, S)
    \/ \E w \in Workers, d \in Docs : Ack(w, d) \/ Nack(w, d) \/ Abandon(w, d)
    \/ \E S \in SUBSET Docs : Vanish(S)

Spec == Init /\ [][Next]_vars
=============================================================================
