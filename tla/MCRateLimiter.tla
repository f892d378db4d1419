---------------------------- MODULE MCRateLimiter ---------------------------
(* A login key with a low limit and an api key of the same client. *)
EXTENDS RateLimiter

CONSTANTS login, api

Limits == [k \in Key |-> IF k = login THEN 1 ELSE 2]
=============================================================================
