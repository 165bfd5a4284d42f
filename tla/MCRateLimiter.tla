---------------------------- MODULE MCRateLimiter -----------------------------
(***************************************************************************)
(* A small instance of RateLimiter: more clients than the map holds, and   *)
(* times that meet RefilledAssumption with nothing to spare.               *)
(***************************************************************************)
EXTENDS RateLimiter

===============================================================================
