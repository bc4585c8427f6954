----------------------------- MODULE MCRateLimiter -----------------------------
(* Instance of RateLimiter for TLC. *)
EXTENDS RateLimiter, TLC

\* A header that asks for less than the backoff, and one that is capped.
MCRetryAfters == {0, 3}
=============================================================================
