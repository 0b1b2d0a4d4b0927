--------------------------- MODULE MCRateLimiter ---------------------------
(* Small instances of RateLimiter for TLC: the cfg files give the constants *)
(* their values, and the tokens stay within the largest rate.               *)
EXTENDS RateLimiter
=============================================================================
