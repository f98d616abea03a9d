----------------------- MODULE MCLimiterEquivalence -----------------------
(* Model-checking instance of LimiterEquivalence: the "login" bucket with  *)
(* limit 2 in a 4 ms window (more milliseconds than the limit, so pruning, *)
(* denial and expiry of admissions all happen) for one principal, over     *)
(* eight milliseconds.                                                     *)
EXTENDS LimiterEquivalence, TLC

MCLimits == ("login" :> [limit |-> 2, window |-> 4])

\* Same-millisecond requests can be admitted by Redis without bound; the
\* history of admissions per key is cut at MaxAdmissions (a state constraint).
MaxAdmissions == 5
AdmissionBound == \A k \in Red!LimitKeys : Len(rlog[k]) <= MaxAdmissions
=============================================================================
