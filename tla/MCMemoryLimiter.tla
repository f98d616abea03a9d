-------------------------- MODULE MCMemoryLimiter --------------------------
(* Model-checking instance of MemoryLimiter: three callers on one         *)
(* principal and one bucket whose limit (2) and window (2 ms) are small *)
(* enough that denials, pruning and window expiry all happen below MaxTime. *)
EXTENDS MemoryLimiter, TLC

MCLimits == ("login" :> [limit |-> 2, window |-> 2])
            @@ ("default" :> [limit |-> 1, window |-> 1])
=============================================================================
