--------------------------- MODULE MCRedisLimiter ---------------------------
(* Model-checking instance of RedisLimiter: limit 2 in a 4 ms window     *)
(* (more milliseconds than the limit), so that denials, pruning and       *)
(* expiry of members all happen below MaxTime; one caller in the same     *)
(* millisecond, or two callers with stale clock readings.                  *)
EXTENDS RedisLimiter, TLC

MCLimits == ("login" :> [limit |-> 2, window |-> 4])
            @@ ("default" :> [limit |-> 1, window |-> 1])

\* Same-millisecond calls can be admitted without bound; the history of
\* admissions per key is cut at MaxAdmissions (a state constraint).
MaxAdmissions == 5
AdmissionBound == \A k \in LimitKeys : Len(log[k]) <= MaxAdmissions
=============================================================================
