------------------------------ MODULE Document ------------------------------
(***************************************************************************)
(* The Document aggregate (documents/domain/document.py): its statuses and *)
(* the transitions it allows. Used by Catalog.tla and Ingestion.tla.       *)
(***************************************************************************)

DocumentStatus == {"registered", "ingesting", "indexed", "failed", "deleted"}

(* _ALLOWED_TRANSITIONS *)
AllowedTransitions ==
    [registered |-> {"ingesting", "deleted"},
     ingesting  |-> {"indexed", "failed", "deleted"},
     indexed    |-> {"ingesting", "deleted"},
     failed     |-> {"ingesting", "deleted"},
     deleted    |-> {}]

(* _transition raises StateTransitionError exactly when this is false. *)
MayMove(status, target) == target \in AllowedTransitions[status]

(* The repository's reads leave deleted rows out. *)
Visible(status) == status # "deleted"
=============================================================================
