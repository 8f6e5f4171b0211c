----------------------------- MODULE MCRateLimiter -----------------------------
(* The rate limiter with a token of several ticks: the threads are           *)
(* interchangeable.                                                          *)
EXTENDS RateLimiter, TLC

Symmetry == Permutations(Threads)
===============================================================================
