------------------------- MODULE MCRefreshSession -------------------------
(* Model-checking instance of RefreshSession: one session of one subject, *)
(* a client and a thief, five fingerprints (an issue and up to four       *)
(* rotations, enough for a token to be superseded twice), and up to two   *)
(* consecutive lost responses to the client.                              *)
EXTENDS RefreshSession, TLC

\* Fingerprints are random and only compared for equality: any permutation
\* of them maps behaviours to behaviours.
SecretSymmetry == Permutations(Secrets)
=============================================================================
