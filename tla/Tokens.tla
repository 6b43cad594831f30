-------------------------------- MODULE Tokens ------------------------------
(***************************************************************************)
(* The bearer token of a request (identity/infrastructure/jwt.py,          *)
(* identity/presentation/router.py, api/security.py): who issues it, from  *)
(* which header it is taken, and whose it is when it is verified.          *)
(*                                                                         *)
(* A clock counts half seconds, a JWT holds whole ones. Each replica has   *)
(* its own clock. A signature is the secret it was made with.              *)
(***************************************************************************)
EXTENDS Integers

CONSTANT NoToken        \* a header that is missing, or has no bearer token

Second == 2

(* The JWT library writes the second a moment falls in. *)
Whole(moment) == (moment \div Second) * Second

(* JwtTokenIssuer.issue. There is only one issuer and one algorithm; what  *)
(* another issuer signs has another secret.                                *)
Issue(tenant, secret, ttl, clock) ==
    [tid |-> tenant, secret |-> secret,
     iat |-> Whole(clock), exp |-> Whole(clock + ttl * Second)]

(* issue_token: the endpoint is a 404 unless it is enabled. *)
IssueToken(enabled, tenant, secret, ttl, clock) ==
    IF enabled THEN [token |-> Issue(tenant, secret, ttl, clock), expires_in |-> ttl]
    ELSE [token |-> NoToken, expires_in |-> 0]

(* What jwt.decode of PyJWT accepts. *)
Valid(token, secret, clock) ==
    token.secret = secret /\ token.iat <= clock /\ clock < token.exp

(* Mutant: a token is accepted through the second in which it expires. *)
VerifyThroughLast(token, secret, clock) ==
    IF token.secret = secret /\ token.iat <= clock /\ Whole(clock) <= token.exp
    THEN token.tid ELSE "401"

(* JwtTokenVerifier.verify: a tenant id that is none is refused as well. *)
Verify(token, secret, clock) ==
    IF Valid(token, secret, clock) /\ token.tid # "malformed" THEN token.tid ELSE "401"

(* get_current_identity: the tenant of a request, or 401. A bearer token   *)
(* that is refused is not made up for by the other header.                 *)
Identity(bearer, own, secret, clock) ==
    LET token == IF bearer # NoToken THEN bearer ELSE own
    IN  IF token = NoToken THEN "401" ELSE Verify(token, secret, clock)
=============================================================================
