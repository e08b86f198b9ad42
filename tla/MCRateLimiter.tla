----------------------------- MODULE MCRateLimiter -----------------------------
(* RateLimiter with keys of different limits, one of them 0. *)
EXTENDS RateLimiter, TLC

CONSTANTS a, b, c

MCLimit == a :> 2 @@ b :> 1 @@ c :> 0
=============================================================================
