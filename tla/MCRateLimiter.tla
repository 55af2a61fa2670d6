--------------------------- MODULE MCRateLimiter ---------------------------
(* A finite instance of RateLimiter: two workers.                           *)
EXTENDS RateLimiter

CONSTANTS w1, w2
=============================================================================
