------------------------------- MODULE MCSearch -----------------------------
(* The instance of Search that TLC checks: Search.cfg. One tenant has a    *)
(* document in each of two collections and searches both or the second;    *)
(* another tenant's document is in a collection of the same id.            *)
EXTENDS Search, TLC

CONSTANTS d1, d2, d3, t1, t2, c1, c2

MCTenantOf     == d1 :> t1 @@ d2 :> t1 @@ d3 :> t2
MCCollectionOf == d1 :> c1 @@ d2 :> c2 @@ d3 :> c2
MCMaxIngests   == d1 :> 2  @@ d2 :> 1  @@ d3 :> 1

MCQueries ==
    {[tenant |-> t1, collection |-> Everywhere, top_k |-> 1],
     [tenant |-> t1, collection |-> c2, top_k |-> 1]}
=============================================================================
