-------------------------- MODULE MCChallengeCache --------------------------
(* Model-checking instance of ChallengeCache: three nonces with a TTL of   *)
(* two ticks, so that challenges are consumed, expire under a pending Get, *)
(* overlap in the cache and are swept, within a clock bound of seven ticks. *)
EXTENDS ChallengeCache, TLC
=============================================================================
