------------------------- MODULE LimiterEquivalence -------------------------
(***************************************************************************)
(* The two rate-limiter backends side by side (spec 4.5: "Both must yield  *)
(* identical admit/deny decisions for identical input history").  One      *)
(* client sends each request to the in-process limiter (MemoryLimiter,     *)
(* src/password/password.go) and to the Redis limiter (RedisLimiter,       *)
(* src/ratelimit/redis/limiter.go) at the same millisecond, and each       *)
(* backend runs its own AllowNamed steps on it.  Requests are sent one at  *)
(* a time, after both backends have answered the previous one.  With       *)
(* OnePerMs the client sends at most one request per millisecond, so the   *)
(* Redis limiter's same-millisecond member collision plays no part;        *)
(* FaultModes says whether Redis replies may be lost.                      *)
(***************************************************************************)
EXTENDS Integers, Sequences

CONSTANTS Client, Principals, Buckets, Limits, MaxTime,
          OnePerMs,     \* at most one request per millisecond
          FaultModes    \* subset of BOOLEAN: may Redis replies be lost

ASSUME OnePerMs \in BOOLEAN

VARIABLES
    clock,            \* the shared wall clock (ms)
    mbuckets, mpc, mcall, mlog,      \* the in-process limiter
    zsets, rpc, rcall, rlog, faults, \* the Redis limiter
    last,             \* millisecond of the client's last request, or -1
    decision          \* the two backends' answers to the current request

Mem == INSTANCE MemoryLimiter
         WITH Procs <- {Client}, buckets <- mbuckets, pc <- mpc,
              call <- mcall, log <- mlog

Red == INSTANCE RedisLimiter
         WITH Procs <- {Client}, pc <- rpc,
              call <- rcall, log <- rlog

memVars == <<mbuckets, mpc, mcall, mlog>>
redVars == <<zsets, rpc, rcall, rlog, faults>>
vars == <<clock, memVars, redVars, last, decision>>

NoDecision == [mem |-> "none", redis |-> "none"]

Init ==
    /\ Mem!Init /\ Red!Init
    /\ last = -1
    /\ decision = NoDecision

Tick ==
    /\ Mem!Tick /\ Red!Tick
    /\ UNCHANGED <<last, decision>>

\* Both backends are idle; the client sends (principal, bucket) to each.
Request(a, b) ==
    /\ clock > last \/ ~OnePerMs
    /\ Mem!Begin(Client, a, b) /\ Red!Begin(Client, a, b)
    /\ last' = clock
    /\ decision' = NoDecision
    /\ UNCHANGED clock

MemDecides ==
    /\ \/ Mem!Admit(Client) /\ decision' = [decision EXCEPT !.mem = "admit"]
       \/ Mem!Deny(Client) /\ decision' = [decision EXCEPT !.mem = "deny"]
    /\ UNCHANGED <<redVars, last>>

RedDecides ==
    /\ \/ Red!ExecAdmit(Client) /\ decision' = [decision EXCEPT !.redis = "admit"]
       \/ Red!ExecDeny(Client) /\ decision' = [decision EXCEPT !.redis = "deny"]
       \/ Red!ExecReplyLost(Client) /\ decision' = [decision EXCEPT !.redis = "error"]
    /\ UNCHANGED <<memVars, last>>

RedZRem ==
    /\ Red!ZRem(Client) \/ Red!ZRemLost(Client)
    /\ UNCHANGED <<memVars, last, decision>>

Next ==
    \/ Tick
    \/ \E a \in Principals, b \in Buckets : Request(a, b)
    \/ MemDecides \/ RedDecides \/ RedZRem

Spec == Init /\ [][Next]_vars

-----------------------------------------------------------------------------
TypeOK ==
    /\ Mem!TypeOK /\ Red!TypeOK
    /\ last \in -1..MaxTime
    /\ decision \in [mem : {"none", "admit", "deny"},
                     redis : {"none", "admit", "deny", "error"}]

(* Each backend on its own, fed the same requests.  In-process limiter: an *)
(* Admit never leaves more than `limit` admissions stamped in the window  *)
(* ending at the request's timestamp, and a Deny is backed by `limit`      *)
(* admissions at or after its windowStart (AllowNamed's prune, count and   *)
(* append under l.mu, password.go).                                        *)
MemNoOverAdmission == Mem!NoOverAdmission
MemDenialJustified == Mem!DenialJustified

(* Redis limiter: where replies are never lost the ZREM after every denial *)
(* leaves only admitted timestamps in the sorted set and every denial is   *)
(* earned; with lost EXEC replies and ZREMs the distinct admitted          *)
(* milliseconds inside any admitted call's window still stay within the    *)
(* limit (the MULTI/EXEC, ZREM pair of limiter.go AllowNamed).             *)
RedOnlyAdmissionsRecordedReliable == Red!OnlyAdmissionsRecordedReliable
RedDenialJustifiedReliable == Red!DenialJustifiedReliable
RedDistinctAdmissionBound == Red!DistinctAdmissionBound

(* Identical decisions (spec 4.5): whenever both backends have answered    *)
(* the same request, stamped with the same millisecond after the same     *)
(* history, they answered alike - the in-process prune (`ts <             *)
(* windowStart`) and the Redis ZREMRANGEBYSCORE 0..start draw the window   *)
(* edge at the same place.                                                  *)
SameDecision ==
    decision.mem # "none" /\ decision.redis \in {"admit", "deny"}
        => decision.mem = decision.redis
=============================================================================
