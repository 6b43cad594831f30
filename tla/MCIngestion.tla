----------------------------- MODULE MCIngestion ----------------------------
(* The instances of Ingestion that TLC checks: Ingestion_safety.cfg,       *)
(* Ingestion_liveness.cfg, Ingestion_retry.cfg, Ingestion_delete.cfg and   *)
(* Ingestion_deadletter.cfg.                                               *)
EXTENDS Ingestion, TLC

(* No definition tells one worker from another. Used for safety only. *)
WorkerSymmetry == Permutations(Workers)
=============================================================================
