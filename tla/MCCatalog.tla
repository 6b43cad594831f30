------------------------------ MODULE MCCatalog -----------------------------
(* The instances of Catalog that TLC checks: Catalog_safety.cfg and        *)
(* Catalog_repeat.cfg.                                                     *)
EXTENDS Catalog, TLC

(* No definition tells two tenants, hashes or requests apart. *)
Symmetry ==
    Permutations(Tenants) \cup Permutations(Hashes) \cup Permutations(Requests)
=============================================================================
