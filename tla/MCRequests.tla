----------------------------- MODULE MCRequests -----------------------------
(* The instance of Requests that TLC checks: Requests.cfg. Requests and    *)
(* connections are model values. One request may be for anything, one runs *)
(* what holds a connection longest, one is an upload.                      *)
EXTENDS Requests, TLC

CONSTANTS r1, r2, r3

MCAsked == (r1 :> Handlers) @@ (r2 :> {"upload", "search", "answer"}) @@ (r3 :> {"upload"})
=============================================================================
