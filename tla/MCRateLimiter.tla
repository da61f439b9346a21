--------------------------- MODULE MCRateLimiter ----------------------------
(* A limiter whose rate does not divide the clock's resolution.            *)
EXTENDS RateLimiter
=============================================================================
