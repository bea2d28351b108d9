--------------------------- MODULE MCRateLimiter ---------------------------
(***************************************************************************)
(* Instances of RateLimiter for TLC: a token is due every six ticks, so    *)
(* that sleeps are clamped from below (two ticks) and from above (four).   *)
(***************************************************************************)
EXTENDS RateLimiter

CONSTANTS c1, c2

TwoCallers == {c1, c2}
=============================================================================
