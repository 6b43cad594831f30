----------------------------- MODULE MCJobQueue -----------------------------
(* The instances of JobQueue that TLC checks: JobQueue.cfg and             *)
(* JobQueue_orphan.cfg. Documents and workers are model values; every      *)
(* bound is a CONSTANT of the specification.                               *)
EXTENDS JobQueue
=============================================================================
